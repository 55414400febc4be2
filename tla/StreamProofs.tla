---------------------------- MODULE StreamProofs ----------------------------
(***************************************************************************)
(* Proofs about Stream, for any number of workers, segments and retries:   *)
(* when no server limits its rate, no fragment is skipped and what exists  *)
(* is found, a stream that is said to be complete is whole; and a stream   *)
(* whose first segment is invalid is never said to be complete.            *)
(***************************************************************************)
EXTENDS Stream, SequenceTheorems, FiniteSetTheorems, WellFoundedInduction, TLAPS

USE DEF PartNames

(* The invariant of the main goroutine: part is one of the request's while *)
(* parts are downloaded, and behind them when they are joined.             *)
PartInRange ==
  /\ stage \in {"new", "run", "manifest"} => part = 1
  /\ stage \in {"part", "workers"} => part \in 1 .. Len(Parts)
  /\ stage = "join" => part > Len(Parts)

NotYetComplete == stage # "ended" => ~Told("complete")

Reporting == errs > 0 \/ \E w \in Workers : worker[w].pc = "report"

(* An invalid first segment has left an error that nobody can overlook.    *)
InvalidIsReported ==
  cancelled => \/ stage = "workers" /\ Reporting
               \/ stage = "ended" /\ ~Told("complete")

JobsTaken ==
  \A w \in Workers :
    worker[w].pc = "get" => worker[w].seg \in 1 .. next - 1 /\ worker[w].attempt < MaxRetries

(* A segment that a server has is sent whole, or not and with an error:    *)
(* no rate is limited, no fragment skipped, and what exists is found.      *)
PlainAnswers == Answers \subseteq {"ok", "bad", "error"}

(* A segment that exists and was taken is on disk or in a worker's hands,  *)
(* and no worker returns before the segments that exist are taken.         *)
Accounted ==
  PlainAnswers /\ stage = "workers" =>
    \/ Reporting \/ cancelled
    \/ /\ \A s \in 1 .. Exist : s < next =>
            s \in got[Part] \/ \E w \in Workers : worker[w].pc = "get" /\ worker[w].seg = s
       /\ (\E w \in Workers : worker[w].pc = "return") => next > Exist

PartsWhole ==
  PlainAnswers /\ stage \notin {"ended", "panic"} =>
    \A i \in 1 .. Len(Parts) : i < part => 1 .. ExistIn(Parts[i]) \subseteq got[Parts[i]]

PlainIsWhole == PlainAnswers => CompleteIsWhole

IInv ==
  /\ TypeOK /\ PartInRange /\ NotYetComplete /\ InvalidIsReported
  /\ JobsTaken /\ Accounted /\ PartsWhole /\ PlainIsWhole

-----------------------------------------------------------------------------
(* Every request but one for subtitles has parts.                          *)
LEMMA SomeParts ==
  ASSUME req \in Requests
  PROVE  /\ Parts \in Seq(PartNames)
         /\ req.kind = "subtitles" => Len(Parts) = 0
         /\ req.kind # "subtitles" => Len(Parts) >= 1
  <1>1. /\ req.video \in BOOLEAN /\ req.audio \in BOOLEAN /\ req.init \in BOOLEAN
        /\ req.kind \in {"hls", "dash", "adaptive", "direct", "subtitles"}
        /\ req.kind = "subtitles" => ~req.video /\ ~req.audio /\ ~req.init
        /\ req.kind # "subtitles" => req.video \/ req.audio
    BY DEF Requests
  <1> DEFINE V == IF req.video THEN <<"video">> ELSE <<>>
             A == IF req.audio THEN <<"audio">> ELSE <<>>
             I == IF req.init THEN <<"init">> ELSE <<>>
  <1>a. /\ V \in Seq(PartNames)
        /\ Len(V) = IF req.video THEN 1 ELSE 0
    <2>1. CASE req.video BY <2>1
    <2>2. CASE ~req.video BY <2>2
    <2> QED BY <2>1, <2>2
  <1>b. /\ A \in Seq(PartNames)
        /\ Len(A) = IF req.audio THEN 1 ELSE 0
    <2>1. CASE req.audio BY <2>1
    <2>2. CASE ~req.audio BY <2>2
    <2> QED BY <2>1, <2>2
  <1>c. /\ I \in Seq(PartNames)
        /\ Len(I) = IF req.init THEN 1 ELSE 0
    <2>1. CASE req.init BY <2>1
    <2>2. CASE ~req.init BY <2>2
    <2> QED BY <2>1, <2>2
  <1>3. Parts = (V \o A) \o I
    BY DEF Parts
  <1> HIDE DEF V, A, I
  <1>4. /\ Parts \in Seq(PartNames)
        /\ Len(Parts) = Len(V) + Len(A) + Len(I)
    <2> HIDE DEF PartNames
    <2>1. V \o A \in Seq(PartNames) /\ Len(V \o A) = Len(V) + Len(A)
      BY <1>a, <1>b, ConcatProperties
    <2> DEFINE VA == V \o A
    <2>2. VA \in Seq(PartNames) /\ Len(VA) = Len(V) + Len(A)
      BY <2>1
    <2> HIDE DEF VA
    <2>3. VA \o I \in Seq(PartNames) /\ Len(VA \o I) = Len(VA) + Len(I)
      BY <2>2, <1>c, ConcatProperties
    <2> QED
      BY <2>2, <2>3, <1>3 DEF VA
  <1> QED
    BY <1>1, <1>a, <1>b, <1>c, <1>4

LEMMA SameParts ==
  ASSUME UNCHANGED req
  PROVE  Parts' = Parts
  BY DEF Parts

(* What an event does to the question whether the stream was said to be    *)
(* complete.                                                               *)
LEMMA SaySaid ==
  ASSUME told \in Seq({"queued", "started", "complete", "error"}), NEW e, Say(e),
         e # "complete"
  PROVE  Told("complete")' <=> Told("complete")
  <1>1. /\ told' = Append(told, e)
        /\ DOMAIN told' = 1 .. Len(told) + 1
        /\ DOMAIN told = 1 .. Len(told)
        /\ \A i \in 1 .. Len(told) : told'[i] = told[i]
        /\ told'[Len(told) + 1] = e
    BY DEF Say
  <1> QED
    BY <1>1 DEF Told
-----------------------------------------------------------------------------
WorkerType == [pc : {"next", "get", "report", "return"}, seg : Nat,
               attempt : 0 .. MaxRetries, lastErr : {"nil", "404", "error"}]

MainType ==
  /\ req \in Requests
  /\ stage \in {"new", "run", "manifest", "part", "workers", "join", "ended", "panic"}
  /\ part \in Nat \ {0}
  /\ told \in Seq({"queued", "started", "complete", "error"})
PoolType ==
  /\ next \in Nat \ {0}
  /\ worker \in [Workers -> WorkerType]
  /\ cancelled \in BOOLEAN
  /\ errs \in 0 .. Cardinality(Workers)
  /\ got \in [PartNames -> SUBSET (1 .. Segments)]

LEMMA WorkerTypes ==
  /\ IdleWorker \in WorkerType /\ NewWorker \in WorkerType
  /\ IdleWorker.pc = "return" /\ NewWorker.pc = "next"
  BY StreamAssumption DEF WorkerType, IdleWorker, NewWorker

LEMMA InitIInv == Init => IInv
  <1> SUFFICES ASSUME Init PROVE IInv
    OBVIOUS
  <1> USE StreamAssumption
  <1>1. Cardinality(Workers) \in Nat
    BY FS_CardinalityType
  <1>2. TypeOK
    <2>1. worker \in [Workers -> WorkerType]
      BY WorkerTypes DEF Init
    <2>2. told \in Seq({"queued", "started", "complete", "error"})
      BY DEF Init
    <2>3. got \in [PartNames -> SUBSET (1 .. Segments)]
      BY DEF Init
    <2>4. 0 \in 0 .. Cardinality(Workers)
      BY <1>1
    <2>5. MainType
      BY <2>2 DEF Init, MainType
    <2>6. next \in Nat \ {0}
      BY DEF Init
    <2>7. PoolType
      BY <2>1, <2>3, <2>4, <2>6 DEF Init, PoolType
    <2> QED
      BY <2>5, <2>7 DEF TypeOK, MainType, PoolType, WorkerType
  <1>3. ~Told("complete")
    BY DEF Init, Told
  <1>4. part = 1 /\ Len(Parts) \in Nat
    BY SomeParts DEF Init
  <1> QED
    BY <1>2, <1>3, <1>4, WorkerTypes DEF Init, IInv, PartInRange, NotYetComplete,
       InvalidIsReported, JobsTaken, Accounted, PartsWhole, PlainIsWhole, CompleteIsWhole

LEMMA PartKnown ==
  ASSUME TypeOK, PartInRange, stage \in {"part", "workers"}
  PROVE  Part \in PartNames
  <1>1. Parts \in Seq(PartNames)
    BY SomeParts DEF TypeOK
  <1>2. part \in 1 .. Len(Parts)
    BY DEF PartInRange
  <1> HIDE DEF PartNames
  <1> QED BY <1>1, <1>2 DEF Part

LEMMA StepTypeOK ==
  ASSUME IInv, Next
  PROVE  TypeOK'
  <1> USE StreamAssumption
  <1>1. Cardinality(Workers) \in Nat
    BY FS_CardinalityType
  <1>a. MainType /\ PoolType
    BY DEF IInv, TypeOK, MainType, PoolType, WorkerType
  <1>b. SUFFICES MainType' /\ PoolType'
    BY DEF TypeOK, MainType, PoolType, WorkerType
  <1>c. ASSUME NEW e \in {"queued", "started", "complete", "error"}, Say(e)
        PROVE  told' \in Seq({"queued", "started", "complete", "error"})
    BY <1>a, <1>c DEF Say, MainType
  <1>2. CASE Start BY <1>a, <1>c, <1>2 DEF Start, pool, MainType, PoolType
  <1>3. CASE Run BY <1>a, <1>c, <1>3 DEF Run, pool, MainType, PoolType
  <1>4. CASE Manifest
    BY <1>a, <1>c, <1>4 DEF Manifest, SubtitlesOnly, Fail, Complete, pool, MainType, PoolType
  <1>5. CASE DownloadFile
    <2>1. MainType'
      BY <1>a, <1>c, <1>5 DEF DownloadFile, Fail, MainType
    <2>2. PoolType'
      BY <1>a, <1>5 DEF DownloadFile, pool, PoolType
    <2> QED BY <2>1, <2>2
  <1>6. CASE StartWorkers
    <2>1. 0 \in 0 .. Cardinality(Workers)
      BY <1>1
    <2>2. worker' \in [Workers -> WorkerType]
      BY <1>6, WorkerTypes DEF StartWorkers
    <2>3. cancelled' \in BOOLEAN
      BY <1>6 DEF StartWorkers
    <2>4. next' \in Nat \ {0}
      BY <1>6 DEF StartWorkers
    <2>5. MainType'
      BY <1>a, <1>6 DEF StartWorkers, MainType
    <2> QED
      BY <1>a, <1>6, <2>1, <2>2, <2>3, <2>4, <2>5 DEF StartWorkers, PoolType
  <1>7. CASE EndPart
    <2>1. told' \in Seq({"queued", "started", "complete", "error"})
      BY <1>a, <1>c, <1>7 DEF EndPart, Fail, MainType
    <2> QED BY <1>a, <1>7, <2>1 DEF EndPart, Fail, pool, MainType, PoolType
  <1>8. CASE Join
    <2>1. stage' = "ended" /\ (Say("complete") \/ Say("error") \/ UNCHANGED told)
      BY <1>8 DEF Join, MuxConcat, MuxSubtitles, Mux, Fail, Complete, Silent
    <2> QED BY <1>a, <1>c, <1>8, <2>1 DEF Join, pool, MainType, PoolType
  <1>9. ASSUME NEW w \in Workers, WorkerStep(w) PROVE MainType' /\ PoolType'
    <2>1. PoolKeeps
      BY <1>9 DEF WorkerStep, NextJob, GiveUp, Report, Succeed, FirstInvalid, Retry
    <2>2. MainType'
      BY <1>a, <2>1 DEF PoolKeeps, MainType
    <2>3. /\ next' = next \/ next' = next + 1
          /\ cancelled' = cancelled \/ cancelled' = TRUE
          /\ errs' = errs \/ (errs' = errs + 1 /\ errs < Cardinality(Workers))
      BY <1>9 DEF WorkerStep, NextJob, GiveUp, Report, Succeed, FirstInvalid, Retry
    <2>a. /\ worker[w] \in WorkerType
          /\ worker[w].pc = "get" => worker[w].seg \in 1 .. next - 1 /\ worker[w].attempt < MaxRetries
      BY <1>a DEF IInv, JobsTaken, PoolType
    <2>b. Part \in PartNames /\ Exist \in Nat /\ Exist <= Segments
      BY <1>9, PartKnown DEF IInv, WorkerStep, Exist, ExistIn
    <2>4. got' \in [PartNames -> SUBSET (1 .. Segments)]
      <3>1. UNCHANGED got
              \/ \E a \in KnownAnswers : Succeed(w, a) \/ FirstInvalid(w, a)
        BY <1>9 DEF WorkerStep, NextJob, GiveUp, Report, Retry
      <3>2. CASE UNCHANGED got
        BY <1>a, <3>2 DEF PoolType
      <3>3. ASSUME NEW a \in KnownAnswers, Succeed(w, a) PROVE got' \in [PartNames -> SUBSET (1 .. Segments)]
        BY <1>a, <2>a, <2>b, <3>3 DEF Succeed, Reply, PoolType
      <3>4. ASSUME NEW a \in KnownAnswers, FirstInvalid(w, a) PROVE got' \in [PartNames -> SUBSET (1 .. Segments)]
        <4>1. 1 \in 1 .. Segments OBVIOUS
        <4>2. got[Part] \cup {1} \in SUBSET (1 .. Segments)
          BY <1>a, <2>b, <4>1 DEF PoolType
        <4> QED BY <1>a, <2>b, <3>4, <4>2 DEF FirstInvalid, PoolType
      <3> QED BY <3>1, <3>2, <3>3, <3>4
    <2>5. worker' \in [Workers -> WorkerType]
      <3>1. worker[w] \in WorkerType
        BY <1>a DEF PoolType
      <3>2. \E r \in WorkerType : WorkerIs(w, r)
        <4>1. CASE NextJob(w)
          BY <1>a, <3>1, <4>1, WorkerTypes DEF NextJob, WorkerTo, WorkerIs, WorkerType, PoolType
        <4>2. CASE GiveUp(w)
          BY <3>1, <4>2 DEF GiveUp, WorkerTo, WorkerIs, WorkerType
        <4>3. CASE Report(w)
          BY <4>3, WorkerTypes DEF Report
        <4>4. CASE \E a \in KnownAnswers : Succeed(w, a) \/ FirstInvalid(w, a)
          BY <3>1, <4>4 DEF Succeed, FirstInvalid, WorkerTo, WorkerIs, WorkerType
        <4>5. ASSUME NEW a \in KnownAnswers, Retry(w, a) PROVE \E r \in WorkerType : WorkerIs(w, r)
          <5>1. a \in {"404", "429", "error"}
            BY <4>5 DEF Retry
          <5>2. (IF a = "429" THEN worker[w].lastErr ELSE a) \in {"nil", "404", "error"}
            BY <3>1, <5>1 DEF WorkerType
          <5>3. worker[w].attempt + 1 \in 0 .. MaxRetries
            BY <2>a, <4>5 DEF Retry, WorkerType
          <5>4. Tried(w, a) \in WorkerType
            BY <3>1, <5>2, <5>3 DEF Tried, WorkerType
          <5> QED BY <4>5, <5>4 DEF Retry
        <4> QED BY <1>9, <4>1, <4>2, <4>3, <4>4, <4>5 DEF WorkerStep
      <3> QED BY <1>a, <3>2 DEF PoolType, WorkerIs
    <2>6. errs' \in 0 .. Cardinality(Workers)
      BY <1>1, <1>a, <2>3 DEF PoolType
    <2>7. next' \in Nat \ {0}
      BY <1>a, <2>3 DEF PoolType
    <2>8. cancelled' \in BOOLEAN
      BY <1>a, <2>3 DEF PoolType
    <2> QED BY <2>2, <2>4, <2>5, <2>6, <2>7, <2>8 DEF PoolType
  <1> QED
    BY <1>2, <1>3, <1>4, <1>5, <1>6, <1>7, <1>8, <1>9 DEF Next, Main
-----------------------------------------------------------------------------
(* The rest of the invariant.                                              *)
Rest ==
  /\ PartInRange /\ NotYetComplete /\ InvalidIsReported
  /\ JobsTaken /\ Accounted /\ PartsWhole /\ PlainIsWhole

LEMMA FailStep ==
  ASSUME IInv, stage \notin {"ended", "panic"}, Fail, UNCHANGED pool
  PROVE  Rest'
  <1>1. ~Told("complete")'
    BY SaySaid DEF IInv, TypeOK, NotYetComplete, Fail
  <1>2. stage' = "ended"
    BY DEF Fail
  <1>3. JobsTaken'
    BY DEF IInv, JobsTaken, pool
  <1> QED
    BY <1>1, <1>2, <1>3 DEF Rest, PartInRange, NotYetComplete, InvalidIsReported, Accounted,
       PartsWhole, PlainIsWhole, CompleteIsWhole

LEMMA CompleteStep ==
  ASSUME IInv, Complete, UNCHANGED <<req, got, pool>>, stage # "workers",
         stage \notin {"ended", "panic"}, part > Len(Parts) \/ Len(Parts) = 0
  PROVE  Rest'
  <1>1. stage' = "ended"
    BY DEF Complete
  <1>2. ~cancelled'
    BY DEF IInv, InvalidIsReported, pool
  <1>3. JobsTaken'
    BY DEF IInv, JobsTaken, pool
  <1>4. Len(Parts) \in Nat /\ part \in Nat
    BY SomeParts DEF IInv, TypeOK
  <1>5. ASSUME PlainAnswers
        PROVE  \A i \in 1 .. Len(Parts) : 1 .. ExistIn(Parts[i]) \subseteq got[Parts[i]]
    BY <1>4, <1>5 DEF IInv, PartsWhole
  <1>6. PlainIsWhole'
    BY <1>5, SameParts DEF PlainIsWhole, CompleteIsWhole, ExistIn
  <1> QED
    BY <1>1, <1>2, <1>3, <1>6 DEF Rest, PartInRange, NotYetComplete, InvalidIsReported,
       Accounted, PartsWhole

(* A step of the main goroutine that neither ends it nor runs workers.     *)
LEMMA GoOnStep ==
  ASSUME IInv, UNCHANGED <<req, got, pool>>, stage \notin {"workers", "ended", "panic"},
         stage' \notin {"workers", "ended"}, UNCHANGED told \/ \E e : e # "complete" /\ Say(e),
         PartInRange', part' = part
  PROVE  Rest'
  <1>1. ~Told("complete")'
    <2>1. ~Told("complete")
      BY DEF IInv, NotYetComplete
    <2>2. CASE UNCHANGED told
      BY <2>1, <2>2 DEF Told
    <2>3. ASSUME NEW e, e # "complete", Say(e) PROVE ~Told("complete")'
      BY <2>1, <2>3, SaySaid DEF IInv, TypeOK
    <2> QED BY <2>2, <2>3
  <1>2. ~cancelled'
    BY DEF IInv, InvalidIsReported, pool
  <1>3. JobsTaken'
    BY DEF IInv, JobsTaken, pool
  <1>4. PartsWhole'
    BY SameParts DEF IInv, PartsWhole, ExistIn
  <1> QED
    BY <1>1, <1>2, <1>3, <1>4 DEF Rest, NotYetComplete, InvalidIsReported, Accounted,
       PlainIsWhole, CompleteIsWhole

LEMMA DownloadFileStep ==
  ASSUME IInv, DownloadFile
  PROVE  Rest'
  <1>1. CASE Fail
    BY <1>1, FailStep DEF DownloadFile
  <1>2. ASSUME ~Fail PROVE Rest'
    <2>1. /\ stage = "part" /\ part' = part + 1 /\ UNCHANGED <<req, told, pool>>
          /\ got' = [got EXCEPT ![Part] = 1 .. Segments]
          /\ stage' = IF part < Len(Parts) THEN "part" ELSE "join"
      BY <1>2 DEF DownloadFile
    <2>2. Len(Parts) \in Nat /\ part \in 1 .. Len(Parts) /\ got \in [PartNames -> SUBSET (1 .. Segments)]
      BY <2>1, SomeParts DEF IInv, TypeOK, PartInRange
    <2>3. Part \in PartNames
      BY <2>1, PartKnown DEF IInv
    <2>4. Parts' = Parts
      BY <2>1, SameParts
    <2>5. PartInRange'
      BY <2>1, <2>2, <2>4 DEF PartInRange
    <2>6. ~Told("complete")'
      BY <2>1 DEF IInv, NotYetComplete, Told
    <2>7. ~cancelled'
      BY <2>1 DEF IInv, InvalidIsReported, pool
    <2>8. JobsTaken'
      BY <2>1 DEF IInv, JobsTaken, pool
    <2>9. ASSUME PlainAnswers, NEW i \in 1 .. Len(Parts), i < part + 1
          PROVE  1 .. ExistIn(Parts[i]) \subseteq got'[Parts[i]]
      <3>1. Parts[i] \in PartNames
        <4> HIDE DEF PartNames
        <4> QED BY SomeParts DEF IInv, TypeOK
      <3>2. ExistIn(Parts[i]) \in Nat /\ ExistIn(Parts[i]) <= Segments
        BY StreamAssumption DEF ExistIn
      <3>3. CASE Parts[i] = Part
        <4>1. got'[Part] = 1 .. Segments
          BY <2>1, <2>2, <2>3
        <4> DEFINE n == ExistIn(Parts[i])
        <4>2. n \in Nat /\ n <= Segments
          BY <3>2
        <4> HIDE DEF n
        <4>3. 1 .. n \subseteq 1 .. Segments
          BY <4>2, StreamAssumption
        <4> QED BY <3>3, <4>1, <4>3 DEF n
      <3>4. CASE Parts[i] # Part
        <4>1. i < part
          BY <2>2, <2>9, <3>4 DEF Part
        <4>2. 1 .. ExistIn(Parts[i]) \subseteq got[Parts[i]]
          BY <2>1, <2>9, <4>1 DEF IInv, PartsWhole
        <4> QED BY <2>1, <2>2, <2>3, <3>1, <3>4, <4>2
      <3> QED BY <3>3, <3>4
    <2>10. PartsWhole'
      BY <2>1, <2>4, <2>9 DEF PartsWhole, ExistIn
    <2>11. stage' \notin {"workers", "ended"}
      BY <2>1
    <2> QED
      BY <2>5, <2>6, <2>7, <2>8, <2>10, <2>11 DEF Rest, NotYetComplete, InvalidIsReported,
         Accounted, PlainIsWhole, CompleteIsWhole
  <1> QED BY <1>1, <1>2

LEMMA StartWorkersStep ==
  ASSUME IInv, StartWorkers
  PROVE  Rest'
  <1> USE StreamAssumption
  <1>1. /\ stage = "part" /\ stage' = "workers" /\ next' = 1 /\ ~cancelled'
        /\ \A w \in Workers : worker'[w].pc = "next"
        /\ UNCHANGED <<req, part, got, told>>
    BY WorkerTypes DEF StartWorkers
  <1>2. PartInRange'
    BY <1>1, SameParts DEF IInv, PartInRange
  <1>3. ~Told("complete")'
    BY <1>1 DEF IInv, NotYetComplete, Told
  <1>4. JobsTaken'
    BY <1>1 DEF JobsTaken
  <1>5. PartsWhole'
    BY <1>1, SameParts DEF IInv, PartsWhole, ExistIn
  <1>6. Exist' \in Nat
    BY DEF Exist, ExistIn
  <1>7. Accounted'
    BY <1>1, <1>6 DEF Accounted
  <1> QED
    BY <1>1, <1>2, <1>3, <1>4, <1>5, <1>7 DEF Rest, NotYetComplete, InvalidIsReported,
       PlainIsWhole, CompleteIsWhole

(* When all workers have returned and no error is in errs, every segment   *)
(* that exists is on disk.                                                 *)
LEMMA EndPartStep ==
  ASSUME IInv, EndPart
  PROVE  Rest'
  <1> USE StreamAssumption
  <1>1. /\ stage = "workers" /\ part' = part + 1 /\ UNCHANGED <<req, pool, got>>
        /\ \A w \in Workers : worker[w].pc = "return"
    BY DEF EndPart
  <1>2. CASE Fail
    BY <1>1, <1>2, FailStep
  <1>3. ASSUME ~Fail PROVE Rest'
    <2>1. /\ errs = 0 /\ UNCHANGED told
          /\ \/ stage' = "panic"
             \/ stage' = IF part < Len(Parts) THEN "part" ELSE "join"
      <3>1. errs \in Nat
        BY FS_CardinalityType DEF IInv, TypeOK
      <3> QED BY <1>3, <3>1 DEF EndPart, PartFails
    <2>2. ~Reporting
      BY <1>1, <2>1 DEF Reporting
    <2>3. ~cancelled
      BY <1>1, <2>2 DEF IInv, InvalidIsReported
    <2>4. Len(Parts) \in Nat /\ part \in 1 .. Len(Parts) /\ Parts' = Parts
      BY <1>1, SomeParts, SameParts DEF IInv, TypeOK, PartInRange
    <2>5. PartInRange'
      BY <1>1, <2>1, <2>4 DEF PartInRange
    <2>6. ~Told("complete")'
      BY <1>1, <2>1 DEF IInv, NotYetComplete, Told
    <2>7. ~cancelled' /\ JobsTaken'
      BY <1>1, <2>3 DEF IInv, JobsTaken, pool
    <2>8. ASSUME PlainAnswers
          PROVE  1 .. Exist \subseteq got[Part]
      <3>1. next > Exist /\ \A t \in 1 .. Exist : t < next => t \in got[Part]
        BY <1>1, <2>2, <2>3, <2>8 DEF IInv, Accounted
      <3>2. Exist \in Nat /\ next \in Nat
        BY DEF Exist, ExistIn, IInv, TypeOK
      <3> QED BY <3>1, <3>2
    <2>9. ASSUME PlainAnswers, NEW i \in 1 .. Len(Parts), i < part + 1
          PROVE  1 .. ExistIn(Parts[i]) \subseteq got[Parts[i]]
      <3>1. CASE i = part
        BY <2>8, <2>9, <3>1 DEF Exist, Part
      <3>2. CASE i < part
        BY <1>1, <2>9, <3>2 DEF IInv, PartsWhole
      <3> QED BY <2>4, <2>9, <3>1, <3>2
    <2>10. PartsWhole'
      BY <1>1, <2>4, <2>9 DEF PartsWhole, ExistIn
    <2>11. stage' \notin {"workers", "ended"}
      BY <2>1
    <2> QED
      BY <2>5, <2>6, <2>7, <2>10, <2>11 DEF Rest, NotYetComplete, InvalidIsReported,
         Accounted, PlainIsWhole, CompleteIsWhole
  <1> QED BY <1>2, <1>3

LEMMA MainStep ==
  ASSUME IInv, Main
  PROVE  Rest'
  <1>a. Len(Parts) \in Nat /\ (req.kind = "subtitles" => Len(Parts) = 0)
          /\ (req.kind # "subtitles" => Len(Parts) >= 1)
    BY SomeParts DEF IInv, TypeOK
  <1>1. CASE Start
    <2>1. PartInRange' /\ part' = part /\ stage = "new" /\ stage' = "run"
      BY <1>1, SameParts DEF Start, IInv, PartInRange
    <2> QED BY <1>1, <2>1, GoOnStep DEF Start
  <1>2. CASE Run
    <2>1. /\ UNCHANGED <<req, part>> /\ stage = "run"
          /\ stage' = "manifest" \/ (stage' = "part" /\ req.kind # "subtitles")
      BY <1>2 DEF Run
    <2>2. Parts' = Parts /\ part = 1
      BY <2>1, SameParts DEF IInv, PartInRange
    <2>3. PartInRange'
      BY <1>a, <2>1, <2>2 DEF PartInRange
    <2> QED BY <1>2, <2>1, <2>3, GoOnStep DEF Run
  <1>3. CASE Manifest
    <2>1. CASE Fail
      BY <1>3, <2>1, FailStep DEF Manifest
    <2>2. CASE Complete /\ req.kind = "subtitles"
      BY <1>a, <1>3, <2>2, CompleteStep DEF Manifest, SubtitlesOnly
    <2>3. CASE req.kind # "subtitles" /\ stage' = "part" /\ UNCHANGED told
      <3>1. Parts' = Parts /\ part = 1 /\ part' = part /\ stage = "manifest"
        BY <1>3, SameParts DEF Manifest, IInv, PartInRange
      <3>2. PartInRange'
        BY <1>a, <2>3, <3>1 DEF PartInRange
      <3> QED BY <1>3, <2>3, <3>1, <3>2, GoOnStep DEF Manifest
    <2> QED BY <1>3, <2>1, <2>2, <2>3 DEF Manifest, SubtitlesOnly
  <1>4. CASE DownloadFile BY <1>4, DownloadFileStep
  <1>5. CASE StartWorkers BY <1>5, StartWorkersStep
  <1>6. CASE EndPart BY <1>6, EndPartStep
  <1>7. CASE Join
    <2>1. stage = "join" /\ UNCHANGED <<req, part, pool, got>> /\ (Fail \/ Complete \/ Silent)
      BY <1>7 DEF Join, MuxConcat, MuxSubtitles, Mux
    <2>2. CASE Fail BY <2>1, <2>2, FailStep
    <2>3. CASE Complete
      BY <2>1, <2>3, CompleteStep DEF IInv, PartInRange
    <2>4. CASE Silent
      <3>1. ~Told("complete")' /\ stage' = "ended"
        BY <2>1, <2>4 DEF Silent, IInv, NotYetComplete, Told
      <3>2. JobsTaken'
        BY <2>1 DEF IInv, JobsTaken, pool
      <3> QED
        BY <3>1, <3>2 DEF Rest, PartInRange, NotYetComplete, InvalidIsReported, Accounted,
           PartsWhole, PlainIsWhole, CompleteIsWhole
    <2> QED BY <2>1, <2>2, <2>3, <2>4
  <1> QED BY <1>1, <1>2, <1>3, <1>4, <1>5, <1>6, <1>7 DEF Main

-----------------------------------------------------------------------------
(* A step of a worker changes neither the main goroutine nor the other     *)
(* workers, and takes nothing from the disk.                               *)
LEMMA WorkerFrame ==
  ASSUME IInv, NEW w \in Workers, WorkerStep(w)
  PROVE  /\ stage = "workers" /\ UNCHANGED <<req, stage, part, told>>
         /\ \A v \in Workers \ {w} : worker'[v] = worker[v]
         /\ errs' \in Nat /\ errs \in Nat /\ errs' >= errs
         /\ (cancelled => cancelled')
         /\ next \in Nat \ {0} /\ (next' = next \/ next' = next + 1)
         /\ Part \in PartNames /\ Part' = Part
         /\ got[Part] \subseteq got'[Part]
         /\ \A p \in PartNames : got[p] \subseteq got'[p]
  <1> USE StreamAssumption
  <1>1. stage = "workers" /\ PoolKeeps
    BY DEF WorkerStep, NextJob, GiveUp, Report, Succeed, FirstInvalid, Retry
  <1>2. Cardinality(Workers) \in Nat
    BY FS_CardinalityType
  <1>3. worker \in [Workers -> WorkerType] /\ next \in Nat \ {0} /\ errs \in Nat
        /\ got \in [PartNames -> SUBSET (1 .. Segments)]
    BY <1>2 DEF IInv, TypeOK, WorkerType
  <1>4. \A v \in Workers \ {w} : worker'[v] = worker[v]
    BY <1>3 DEF WorkerStep, NextJob, GiveUp, Report, Succeed, FirstInvalid, Retry, WorkerIs, WorkerTo
  <1>5. errs' = errs \/ errs' = errs + 1
    BY DEF WorkerStep, NextJob, GiveUp, Report, Succeed, FirstInvalid, Retry
  <1>6. cancelled' = cancelled \/ cancelled'
    BY DEF WorkerStep, NextJob, GiveUp, Report, Succeed, FirstInvalid, Retry
  <1>7. next' = next \/ next' = next + 1
    BY DEF WorkerStep, NextJob, GiveUp, Report, Succeed, FirstInvalid, Retry
  <1>8. Part \in PartNames
    BY <1>1, PartKnown DEF IInv
  <1>9. Part' = Part
    BY <1>1, SameParts DEF PoolKeeps, Part
  <1>10. got' = got \/ \E S : got' = [got EXCEPT ![Part] = S] /\ got[Part] \subseteq S
    BY DEF WorkerStep, NextJob, GiveUp, Report, Succeed, FirstInvalid, Retry
  <1>11. \A p \in PartNames : got[p] \subseteq got'[p]
    BY <1>3, <1>10
  <1> QED
    BY <1>1, <1>3, <1>4, <1>5, <1>6, <1>7, <1>8, <1>9, <1>11 DEF PoolKeeps

(* The parts of the invariant a worker hardly touches.                     *)
LEMMA WorkerKeeps ==
  ASSUME IInv, NEW w \in Workers, WorkerStep(w)
  PROVE  PartInRange' /\ NotYetComplete' /\ PartsWhole' /\ PlainIsWhole'
  <1>1. /\ stage = "workers" /\ UNCHANGED <<req, stage, part, told>>
        /\ \A p \in PartNames : got[p] \subseteq got'[p]
    BY WorkerFrame
  <1>2. Parts' = Parts
    BY <1>1, SameParts
  <1>3. PartInRange'
    BY <1>1, <1>2 DEF IInv, PartInRange
  <1>4. ~Told("complete")'
    BY <1>1 DEF IInv, NotYetComplete, Told
  <1>5. ASSUME PlainAnswers, NEW i \in 1 .. Len(Parts), i < part
        PROVE  1 .. ExistIn(Parts[i]) \subseteq got'[Parts[i]]
    <2>1. Parts[i] \in PartNames
      <3> HIDE DEF PartNames
      <3> QED BY SomeParts DEF IInv, TypeOK
    <2>2. 1 .. ExistIn(Parts[i]) \subseteq got[Parts[i]]
      BY <1>1, <1>5 DEF IInv, PartsWhole
    <2> QED BY <1>1, <2>1, <2>2
  <1>6. PartsWhole'
    BY <1>1, <1>2, <1>5 DEF PartsWhole, ExistIn
  <1> QED
    BY <1>3, <1>4, <1>6 DEF NotYetComplete, PlainIsWhole, CompleteIsWhole

LEMMA WorkerIsTyped ==
  ASSUME IInv, NEW w \in Workers
  PROVE  worker[w] \in WorkerType /\ worker \in [Workers -> WorkerType]
  BY DEF IInv, TypeOK, WorkerType

LEMMA WorkerToFields ==
  ASSUME IInv, NEW w \in Workers, NEW l, WorkerTo(w, l)
  PROVE  worker'[w].pc = l
  <1>1. worker'[w] = [worker[w] EXCEPT !.pc = l]
    BY WorkerIsTyped DEF WorkerTo
  <1> QED BY <1>1, WorkerIsTyped DEF WorkerType

LEMMA WorkerIsThat ==
  ASSUME IInv, NEW w \in Workers, NEW r, WorkerIs(w, r)
  PROVE  worker'[w] = r
  BY WorkerIsTyped DEF WorkerIs

(* What has been reported stays so, and an error page is reported.         *)
LEMMA WorkerReports ==
  ASSUME IInv, NEW w \in Workers, WorkerStep(w)
  PROVE  /\ Reporting => Reporting'
         /\ InvalidIsReported'
  <1>1. /\ stage = "workers" /\ stage' = "workers"
        /\ \A v \in Workers \ {w} : worker'[v] = worker[v]
        /\ errs' \in Nat /\ errs \in Nat /\ errs' >= errs
    BY WorkerFrame
  <1>2. ASSUME Reporting PROVE Reporting'
    <2>1. CASE errs > 0
      BY <1>1, <2>1 DEF Reporting
    <2>2. CASE \E v \in Workers \ {w} : worker[v].pc = "report"
      BY <1>1, <2>2 DEF Reporting
    <2>3. CASE worker[w].pc = "report"
      <3>1. Report(w)
        BY <2>3 DEF WorkerStep, NextJob, Report, Succeed, FirstInvalid, Retry, GiveUp
      <3>2. errs' > 0
        BY <1>1, <3>1 DEF Report
      <3> QED BY <3>2 DEF Reporting
    <2> QED BY <1>2, <2>1, <2>2, <2>3 DEF Reporting
  <1>3. cancelled' => cancelled \/ \E a \in KnownAnswers : FirstInvalid(w, a)
    BY DEF WorkerStep, NextJob, GiveUp, Report, Succeed, Retry
  <1>4. CASE cancelled
    BY <1>1, <1>2, <1>4 DEF IInv, InvalidIsReported
  <1>5. CASE \E a \in KnownAnswers : FirstInvalid(w, a)
    <2>1. WorkerTo(w, "report")
      BY <1>5 DEF FirstInvalid
    <2>2. worker'[w].pc = "report"
      BY <2>1, WorkerToFields
    <2> QED BY <1>1, <2>2 DEF InvalidIsReported, Reporting
  <1> QED BY <1>2, <1>3, <1>4, <1>5 DEF InvalidIsReported

(* A worker that fetches a segment has taken it from the channel.          *)
LEMMA WorkerJobs ==
  ASSUME IInv, NEW w \in Workers, WorkerStep(w)
  PROVE  JobsTaken'
  <1> USE StreamAssumption
  <1>1. /\ \A v \in Workers \ {w} : worker'[v] = worker[v]
        /\ next \in Nat \ {0} /\ (next' = next \/ next' = next + 1)
    BY WorkerFrame
  <1>2. ASSUME NEW v \in Workers \ {w}, worker'[v].pc = "get"
        PROVE  worker'[v].seg \in 1 .. next' - 1 /\ worker'[v].attempt < MaxRetries
    <2>1. worker[v].seg \in 1 .. next - 1 /\ worker[v].attempt < MaxRetries
      BY <1>1, <1>2 DEF IInv, JobsTaken
    <2> QED BY <1>1, <1>2, <2>1
  <1>3. ASSUME worker'[w].pc = "get"
        PROVE  worker'[w].seg \in 1 .. next' - 1 /\ worker'[w].attempt < MaxRetries
    <2>1. CASE NextJob(w)
      <3>1. next <= SegmentCount
        <4>1. CASE next > SegmentCount
          <5>1. WorkerTo(w, "return")
            BY <2>1, <4>1 DEF NextJob
          <5>2. worker'[w].pc = "return"
            BY <5>1, WorkerToFields
          <5> QED BY <1>3, <5>2
        <4> QED BY <1>1, <4>1 DEF SegmentCount
      <3>2. /\ next' = next + 1
            /\ worker'[w] = IF cancelled THEN IdleWorker
                 ELSE [pc |-> "get", seg |-> next, attempt |-> 0, lastErr |-> "nil"]
        <4>1. ~(next > SegmentCount)
          BY <1>1, <3>1 DEF SegmentCount
        <4> QED BY <2>1, <4>1, WorkerIsThat DEF NextJob
      <3>3. worker'[w].seg = next /\ worker'[w].attempt = 0
        BY <1>3, <3>2, WorkerTypes
      <3> QED BY <1>1, <3>2, <3>3
    <2>2. ASSUME NEW a \in KnownAnswers, Retry(w, a)
          PROVE  worker'[w].seg \in 1 .. next' - 1 /\ worker'[w].attempt < MaxRetries
      <3>1. worker'[w] = Tried(w, a) /\ worker[w].pc = "get" /\ next' = next
        BY <2>2, WorkerIsThat DEF Retry
      <3>2. worker[w].attempt \in Nat /\ worker[w] \in WorkerType
        BY WorkerIsTyped DEF WorkerType
      <3>3. worker'[w].seg = worker[w].seg /\ worker'[w].attempt = worker[w].attempt + 1
        BY <3>1, <3>2 DEF Tried, WorkerType
      <3>4. worker[w].attempt + 1 < MaxRetries
        BY <1>3, <3>1, <3>2 DEF Tried, WorkerType
      <3> QED BY <3>1, <3>3, <3>4 DEF IInv, JobsTaken
    <2>3. CASE GiveUp(w) \/ Report(w)
                 \/ \E a \in KnownAnswers : Succeed(w, a) \/ FirstInvalid(w, a)
      <3>1. worker'[w] = IdleWorker \/ \E l \in {"next", "report", "return"} : WorkerTo(w, l)
        BY <2>3, WorkerIsThat DEF GiveUp, Report, Succeed, FirstInvalid
      <3>2. worker'[w].pc # "get"
        BY <3>1, WorkerToFields, WorkerTypes
      <3> QED BY <1>3, <3>2
    <2> QED BY <2>1, <2>2, <2>3 DEF WorkerStep
  <1> QED BY <1>2, <1>3 DEF JobsTaken

(* A worker lets go of a segment that exists when it is on disk or after   *)
(* an error, and it returns when none that exists is left in the channel,  *)
(* or none that exists comes before the one it does not find.              *)
LEMMA WorkerAccounts ==
  ASSUME IInv, NEW w \in Workers, WorkerStep(w)
  PROVE  Accounted'
  <1> USE StreamAssumption
  <1> DEFINE Held(s) == worker[w].pc = "get" /\ worker[w].seg = s
             Settled == Reporting' \/ cancelled'
  <1>1. /\ stage = "workers" /\ UNCHANGED <<req, stage, part, told>>
        /\ \A v \in Workers \ {w} : worker'[v] = worker[v]
        /\ next \in Nat \ {0} /\ (next' = next \/ next' = next + 1)
        /\ cancelled => cancelled'
        /\ Part \in PartNames /\ Part' = Part /\ got[Part] \subseteq got'[Part]
    BY WorkerFrame
  <1>2. Exist' = Exist /\ Exist \in Nat /\ Exist <= SegmentCount /\ SegmentCount \in Nat
    BY <1>1 DEF Exist, ExistIn, SegmentCount
  <1>3. SUFFICES ASSUME ~Settled, PlainAnswers PROVE Accounted'
    BY DEF Accounted
  <1>4. ~Reporting /\ ~cancelled
    BY <1>1, <1>3, WorkerReports
  <1>5. /\ \A s \in 1 .. Exist : s < next =>
             s \in got[Part] \/ \E v \in Workers : worker[v].pc = "get" /\ worker[v].seg = s
        /\ (\E v \in Workers : worker[v].pc = "return") => next > Exist
    BY <1>1, <1>3, <1>4 DEF IInv, Accounted
  (* What has to be shown of the worker that takes the step.               *)
  <1>6. ASSUME \A s \in 1 .. Exist : s < next' =>
                 \/ s < next /\ (Held(s) => s \in got'[Part] \/ Held(s)')
                 \/ Held(s)',
               worker'[w].pc = "return" => next' > Exist
        PROVE  Accounted'
    <2>1. ASSUME NEW s \in 1 .. Exist, s < next'
          PROVE  s \in got'[Part] \/ \E v \in Workers : worker'[v].pc = "get" /\ worker'[v].seg = s
      <3>1. CASE Held(s)'
        BY <3>1
      <3>2. CASE s < next /\ (Held(s) => s \in got'[Part] \/ Held(s)')
        <4>1. CASE s \in got[Part]
          BY <1>1, <4>1
        <4>2. ASSUME NEW v \in Workers, worker[v].pc = "get", worker[v].seg = s
              PROVE  s \in got'[Part] \/ \E u \in Workers : worker'[u].pc = "get" /\ worker'[u].seg = s
          <5>1. CASE v = w
            BY <3>2, <4>2, <5>1
          <5>2. CASE v # w
            BY <1>1, <4>2, <5>2
          <5> QED BY <5>1, <5>2
        <4> QED BY <1>5, <2>1, <3>2, <4>1, <4>2
      <3> QED BY <1>6, <2>1, <3>1, <3>2
    <2>2. ASSUME NEW v \in Workers, worker'[v].pc = "return"
          PROVE  next' > Exist
      <3>1. CASE v = w
        BY <1>6, <2>2, <3>1
      <3>2. CASE v # w
        BY <1>1, <1>2, <1>5, <2>2, <3>2
      <3> QED BY <3>1, <3>2
    <2> QED BY <1>1, <1>2, <2>1, <2>2 DEF Accounted
  <1>7. CASE NextJob(w)
    <2>1. ~Held(0) /\ \A s : ~Held(s)
      BY <1>7 DEF NextJob
    <2>2. CASE next > SegmentCount
      <3>1. next' = next
        BY <1>7, <2>2 DEF NextJob
      <3> HIDE DEF Held
      <3> QED BY <1>1, <1>2, <1>6, <2>1, <2>2, <3>1
    <2>3. CASE ~(next > SegmentCount)
      <3>1. /\ next' = next + 1
            /\ worker'[w] = [pc |-> "get", seg |-> next, attempt |-> 0, lastErr |-> "nil"]
        BY <1>4, <1>7, <2>3, WorkerIsThat DEF NextJob
      <3>2. worker'[w].pc # "return"
        BY <3>1
      <3>3. ASSUME NEW s \in 1 .. Exist, s < next'
            PROVE  s < next \/ Held(s)'
        <4>1. s < next \/ s = next
          BY <1>1, <1>2, <3>1, <3>3
        <4>2. s = next => Held(s)'
          BY <3>1
        <4> QED BY <4>1, <4>2
      <3> HIDE DEF Held
      <3> QED BY <1>6, <2>1, <3>2, <3>3
    <2> QED BY <2>2, <2>3
  <1>8. CASE GiveUp(w)
    BY <1>4, <1>8 DEF GiveUp
  <1>9. CASE Report(w)
    BY <1>4, <1>9 DEF Report, Reporting
  <1>10. ASSUME NEW a \in KnownAnswers, Succeed(w, a)
         PROVE  Accounted'
    <2>1. a = "ok" /\ next' = next
      BY <1>3, <1>10 DEF Succeed, Reply, PlainAnswers
    <2>2. worker[w].seg \in got'[Part]
      <3>1. got \in [PartNames -> SUBSET (1 .. Segments)]
        BY DEF IInv, TypeOK
      <3> QED BY <1>1, <1>10, <2>1, <3>1 DEF Succeed
    <2>3. worker'[w].pc # "return"
      <3>1. worker'[w].pc = "next"
        BY <1>10, WorkerToFields DEF Succeed
      <3> QED BY <3>1
    <2> QED BY <1>6, <2>1, <2>2, <2>3
  <1>11. ASSUME NEW a \in KnownAnswers, FirstInvalid(w, a)
         PROVE  Accounted'
    BY <1>3, <1>11 DEF FirstInvalid
  <1>12. ASSUME NEW a \in KnownAnswers, Retry(w, a)
         PROVE  Accounted'
    <2>1. /\ worker[w].pc = "get" /\ next' = next /\ worker'[w] = Tried(w, a)
          /\ a \in {"404", "429", "error"} \cap Reply(worker[w].seg)
      BY <1>12, WorkerIsThat DEF Retry
    <2>2. worker[w] \in WorkerType /\ worker[w].seg \in 1 .. next - 1
      BY <2>1, WorkerIsTyped DEF IInv, JobsTaken
    <2>3. worker'[w].seg = worker[w].seg
      BY <2>1, <2>2 DEF Tried, WorkerType
    <2>4. CASE worker[w].seg > Exist
      <3>1. next' > Exist
        BY <1>1, <1>2, <2>1, <2>2, <2>4
      <3>2. \A s \in 1 .. Exist : ~Held(s)
        BY <1>2, <2>2, <2>4
      <3> HIDE DEF Held
      <3> QED BY <1>6, <2>1, <3>1, <3>2
    <2>5. CASE ~(worker[w].seg > Exist)
      <3>1. a = "error"
        BY <1>3, <2>1, <2>5 DEF Reply, PlainAnswers
      <3>2. worker'[w].pc \in {"get", "report"}
        BY <2>1, <2>2, <3>1 DEF Tried, WorkerType
      <3>3. worker'[w].pc = "get"
        BY <1>3, <3>2 DEF Reporting
      <3> QED BY <1>6, <2>1, <2>3, <3>3
    <2> QED BY <2>4, <2>5
  <1> QED
    BY <1>7, <1>8, <1>9, <1>10, <1>11, <1>12 DEF WorkerStep

-----------------------------------------------------------------------------
LEMMA StepIInv ==
  ASSUME IInv, [Next]_vars
  PROVE  IInv'
  <1>1. CASE Next
    <2>1. TypeOK'
      BY <1>1, StepTypeOK
    <2>2. Rest'
      <3>1. CASE Main
        BY <3>1, MainStep
      <3>2. ASSUME NEW w \in Workers, WorkerStep(w) PROVE Rest'
        BY <3>2, WorkerKeeps, WorkerReports, WorkerJobs, WorkerAccounts DEF Rest
      <3> QED BY <1>1, <3>1, <3>2 DEF Next
    <2> QED BY <2>1, <2>2 DEF IInv, Rest
  <1>2. CASE UNCHANGED vars
    <2>1. Parts' = Parts /\ Part' = Part
      BY <1>2 DEF vars, Parts, Part
    <2>2. TypeOK'
      BY <1>2 DEF vars, IInv, TypeOK
    <2>3. PartInRange' /\ NotYetComplete' /\ InvalidIsReported' /\ JobsTaken'
      BY <1>2, <2>1 DEF vars, IInv, PartInRange, NotYetComplete, InvalidIsReported, JobsTaken,
         Told, Reporting
    <2>4. Accounted' /\ PartsWhole' /\ PlainIsWhole'
      BY <1>2, <2>1 DEF vars, IInv, Accounted, PartsWhole, PlainIsWhole, CompleteIsWhole, Told,
         Reporting, Exist, ExistIn
    <2> QED BY <2>2, <2>3, <2>4 DEF IInv
  <1> QED BY <1>1, <1>2

(* When every segment a server has is either sent whole or fails, a stream *)
(* that is said to be complete is whole, for any number of workers,        *)
(* segments, missing segments and retries.                                 *)
THEOREM CompleteStreamsAreWhole ==
  ASSUME PlainAnswers
  PROVE  Spec => []CompleteIsWhole
  <1>1. Init => IInv
    BY InitIInv
  <1>2. IInv /\ [Next]_vars => IInv'
    BY StepIInv
  <1>3. IInv => CompleteIsWhole
    BY DEF IInv, PlainIsWhole
  <1> QED BY <1>1, <1>2, <1>3, PTL DEF Spec

(* Whatever the servers answer, the state is well typed, at most one error *)
(* of each worker is in errs, and a stream whose first segment is an error *)
(* page is never said to be complete.                                      *)
THEOREM InvalidIsAlwaysRefused == Spec => [](TypeOK /\ InvalidIsRefused)
  <1>1. Init => IInv
    BY InitIInv
  <1>2. IInv /\ [Next]_vars => IInv'
    BY StepIInv
  <1>3. IInv => TypeOK /\ InvalidIsRefused
    BY DEF IInv, InvalidIsReported, NotYetComplete, InvalidIsRefused
  <1> QED BY <1>1, <1>2, <1>3, PTL DEF Spec
-----------------------------------------------------------------------------
(* What a goroutine has told while it runs, and when it has ended.         *)
ToldSoFar ==
  /\ stage = "new" => told = <<>>
  /\ stage = "run" => told = <<"queued">>
  /\ stage \in {"manifest", "part", "workers", "join"} => told = <<"queued", "started">>
EndTold ==
  stage = "ended" =>
    \/ told \in {<<"queued", "started", e>> : e \in {"complete", "error"}}
    \/ RenamesOnly /\ told = <<"queued", "started">>
EndInv == IInv /\ stage # "panic" /\ ToldSoFar /\ EndTold

(* A bounded set of numbers has a greatest one.                            *)
LEMMA Greatest ==
  ASSUME NEW b \in Nat, NEW S \in SUBSET (1 .. b), S # {}
  PROVE  \E m \in S : \A n \in S : m >= n
  <1> DEFINE R == OpToRel(<, Nat)
             T == {b - n : n \in S}
  <1>1. IsWellFoundedOn(R, Nat)
    BY NatLessThanWellFounded
  <1>2. T \subseteq Nat /\ T # {}
    <2>1. \A n \in S : b - n \in Nat
      OBVIOUS
    <2>2. T \subseteq Nat
      BY <2>1
    <2>3. PICK n \in S : TRUE
      OBVIOUS
    <2>4. b - n \in T
      BY <2>3
    <2> QED BY <2>2, <2>4
  <1>3. \A x, y \in Nat : <<y, x>> \in R <=> y < x
    BY DEF OpToRel
  <1> HIDE DEF R, T
  <1>4. PICK x \in T : \A y \in T : ~ (<<y, x>> \in R)
    BY <1>1, <1>2, WFMin
  <1>5. \A y \in T : ~ (y < x)
    BY <1>2, <1>3, <1>4
  <1>6. PICK m \in S : x = b - m
    BY <1>4 DEF T
  <1>7. \A n \in S : b - n \in T
    BY DEF T
  <1> QED BY <1>5, <1>6, <1>7

(* The first segment of a playlist, if it exists, is on disk when all      *)
(* workers have returned without an error: no segFiles is empty.           *)
LEMMA NoPanic ==
  ASSUME IInv, EndPart, PlainAnswers, Absent < Segments
  PROVE  ~(~PartFails /\ PartPanics)
  <1> USE StreamAssumption
  <1>1. SUFFICES ASSUME ~PartFails, PartPanics PROVE FALSE
    OBVIOUS
  <1>2. stage = "workers" /\ \A w \in Workers : worker[w].pc = "return"
    BY DEF EndPart
  <1>3. errs = 0
    <2>1. errs \in Nat
      BY FS_CardinalityType DEF IInv, TypeOK
    <2> QED BY <1>1, <2>1 DEF PartFails
  <1>4. ~Reporting /\ ~cancelled
    BY <1>2, <1>3 DEF Reporting, IInv, InvalidIsReported
  <1>5. next > Exist /\ \A s \in 1 .. Exist : s < next => s \in got[Part]
    BY <1>2, <1>4 DEF IInv, Accounted
  <1>6. Exist \in Nat \ {0} /\ next \in Nat
    BY DEF Exist, ExistIn, IInv, TypeOK
  <1>7. 1 \in got[Part]
    BY <1>5, <1>6
  <1>8. got[Part] \in SUBSET (1 .. Segments)
    BY <1>2, PartKnown DEF IInv, TypeOK
  <1>9. Max(got[Part]) \in got[Part]
    <2>1. \E m \in got[Part] : \A n \in got[Part] : m >= n
      BY <1>7, <1>8, Greatest
    <2> QED BY <2>1 DEF Max
  <1>10. Kept(Part) > 0
    BY <1>7, <1>8, <1>9 DEF Kept
  <1> QED BY <1>1, <1>10 DEF PartPanics

(* What is told after nothing, one event or two.                           *)
LEMMA Appended ==
  ASSUME NEW S, NEW s \in Seq(S), NEW u \in Seq(S), NEW e \in S,
         Len(u) = Len(s) + 1, \A i \in 1 .. Len(s) : u[i] = s[i], u[Len(s) + 1] = e
  PROVE  Append(s, e) = u
  <1> DEFINE t == Append(s, e)
  <1>1. /\ t \in Seq(S) /\ Len(t) = Len(s) + 1 /\ Len(s) \in Nat
        /\ \A i \in 1 .. Len(s) : t[i] = s[i]
        /\ t[Len(s) + 1] = e
    BY AppendProperties
  <1> HIDE DEF t
  <1>2. \A i \in 1 .. Len(t) : t[i] = u[i]
    BY <1>1
  <1>3. t = u
    BY <1>1, <1>2, SeqEqual
  <1> QED BY <1>3 DEF t

LEMMA AppendsLiterally ==
  /\ Append(<<>>, "queued") = <<"queued">>
  /\ Append(<<"queued">>, "started") = <<"queued", "started">>
  /\ \A e \in {"complete", "error"} :
       Append(<<"queued", "started">>, e) = <<"queued", "started", e>>
  <1> DEFINE S == {"queued", "started", "complete", "error"}
  <1>1. ASSUME NEW s \in Seq(S), NEW u \in Seq(S), NEW e \in S,
               Len(u) = Len(s) + 1, \A i \in 1 .. Len(s) : u[i] = s[i], u[Len(s) + 1] = e
        PROVE  Append(s, e) = u
    BY <1>1, Appended
  <1>2. Append(<<>>, "queued") = <<"queued">>
    BY <1>1
  <1>3. Append(<<"queued">>, "started") = <<"queued", "started">>
    <2> DEFINE s == <<"queued">>
               u == <<"queued", "started">>
    <2>1. /\ s \in Seq(S) /\ Len(s) = 1 /\ s[1] = "queued"
          /\ u \in Seq(S) /\ Len(u) = 2 /\ u[1] = "queued" /\ u[2] = "started"
      OBVIOUS
    <2> HIDE DEF s, u
    <2>2. Append(s, "started") = u
      BY <1>1, <2>1
    <2> QED BY <2>2 DEF s, u
  <1>4. ASSUME NEW e \in {"complete", "error"}
        PROVE  Append(<<"queued", "started">>, e) = <<"queued", "started", e>>
    <2> DEFINE s == <<"queued", "started">>
               u == <<"queued", "started", e>>
    <2>1. /\ s \in Seq(S) /\ Len(s) = 2 /\ s[1] = "queued" /\ s[2] = "started"
          /\ u \in Seq(S) /\ Len(u) = 3 /\ u[1] = "queued" /\ u[2] = "started" /\ u[3] = e
      OBVIOUS
    <2> HIDE DEF s, u
    <2>2. /\ Len(u) = Len(s) + 1 /\ u[Len(s) + 1] = e /\ e \in S
          /\ \A i \in 1 .. Len(s) : u[i] = s[i]
      BY <2>1
    <2>3. Append(s, e) = u
      BY <1>1, <2>1, <2>2
    <2> QED BY <2>3 DEF s, u
  <1> QED BY <1>2, <1>3, <1>4

LEMMA SameInputs ==
  ASSUME UNCHANGED req
  PROVE  RenamesOnly' <=> RenamesOnly
  <1>1. Parts' = Parts
    BY SameParts
  <1>2. Inputs' = Inputs
    BY <1>1 DEF Inputs
  <1> QED BY <1>2 DEF RenamesOnly

LEMMA FirstTold ==
  ASSUME IInv, Init
  PROVE  EndInv
  BY DEF Init, EndInv, ToldSoFar, EndTold

LEMMA FailTold ==
  ASSUME EndInv, Fail, stage \in {"manifest", "part", "workers", "join"}
  PROVE  stage' # "panic" /\ ToldSoFar' /\ EndTold'
  <1>1. told' = <<"queued", "started", "error">> /\ stage' = "ended"
    BY AppendsLiterally DEF Fail, Say, EndInv, ToldSoFar
  <1> QED BY <1>1 DEF ToldSoFar, EndTold

LEMMA CompleteTold ==
  ASSUME EndInv, Complete, stage \in {"manifest", "part", "workers", "join"}
  PROVE  stage' # "panic" /\ ToldSoFar' /\ EndTold'
  <1>1. told' = <<"queued", "started", "complete">> /\ stage' = "ended"
    BY AppendsLiterally DEF Complete, Say, EndInv, ToldSoFar
  <1> QED BY <1>1 DEF ToldSoFar, EndTold

LEMMA GoOnTold ==
  ASSUME EndInv, UNCHANGED told, stage \in {"manifest", "part", "workers", "join"},
         stage' \in {"manifest", "part", "workers", "join"}
  PROVE  stage' # "panic" /\ ToldSoFar' /\ EndTold'
  BY DEF EndInv, ToldSoFar, EndTold

LEMMA StepTold ==
  ASSUME EndInv, [Next]_vars, PlainAnswers, Absent < Segments
  PROVE  stage' # "panic" /\ ToldSoFar' /\ EndTold'
  <1> DEFINE Goal == stage' # "panic" /\ ToldSoFar' /\ EndTold'
             Running == {"manifest", "part", "workers", "join"}
  <1>1. CASE Start
    <2>1. told' = <<"queued">> /\ stage' = "run"
      BY <1>1, AppendsLiterally DEF Start, Say, EndInv, ToldSoFar
    <2> QED BY <2>1 DEF ToldSoFar, EndTold
  <1>2. CASE Run
    <2>1. told' = <<"queued", "started">> /\ stage' \in {"part", "manifest"}
      BY <1>2, AppendsLiterally DEF Run, Say, EndInv, ToldSoFar
    <2> QED BY <2>1 DEF ToldSoFar, EndTold
  <1>3. CASE Manifest
    BY <1>3, FailTold, CompleteTold, GoOnTold DEF Manifest, SubtitlesOnly
  <1>4. CASE DownloadFile
    BY <1>4, FailTold, GoOnTold DEF DownloadFile
  <1>5. CASE StartWorkers
    BY <1>5, GoOnTold DEF StartWorkers
  <1>6. CASE EndPart
    <2>1. \/ Fail
          \/ UNCHANGED told /\ stage' \in {"part", "join"}
      BY <1>6, NoPanic DEF EndPart, EndInv
    <2> QED BY <1>6, <2>1, FailTold, GoOnTold DEF EndPart
  <1>7. CASE Join
    <2>1. CASE Fail \/ Complete
      BY <1>7, <2>1, FailTold, CompleteTold DEF Join
    <2>2. CASE ~(Fail \/ Complete)
      <3>1. Silent /\ RenamesOnly /\ req' = req /\ stage = "join"
        BY <1>7, <2>2 DEF Join, MuxConcat, MuxSubtitles, Mux, RenamesOnly
      <3>2. RenamesOnly'
        BY <3>1, SameInputs
      <3>3. told' = <<"queued", "started">> /\ stage' = "ended"
        BY <3>1 DEF Silent, EndInv, ToldSoFar
      <3> QED BY <3>2, <3>3 DEF ToldSoFar, EndTold
    <2> QED BY <2>1, <2>2
  <1>8. ASSUME NEW w \in Workers, WorkerStep(w) PROVE Goal
    <2>1. stage = "workers" /\ UNCHANGED <<stage, told>>
      BY <1>8, WorkerFrame DEF EndInv
    <2> QED BY <2>1, GoOnTold
  <1>9. CASE UNCHANGED vars
    <2>1. RenamesOnly' <=> RenamesOnly
      BY <1>9, SameInputs DEF vars
    <2> QED BY <1>9, <2>1 DEF vars, EndInv, ToldSoFar, EndTold
  <1> QED BY <1>1, <1>2, <1>3, <1>4, <1>5, <1>6, <1>7, <1>8, <1>9 DEF Next, Main

(* A goroutine that ends has told how, exactly once and after what it told *)
(* before, and none panics on an empty list of segments, for any number of *)
(* workers, segments and retries, when each segment a server has is sent   *)
(* or fails and a playlist lists one that exists (without one, or with     *)
(* more rate-limited answers than retries, PartPanics can be reached).     *)
THEOREM EveryEndIsTold ==
  ASSUME PlainAnswers, Absent < Segments
  PROVE  Spec => []EndIsTold
  <1>1. Init => EndInv
    BY InitIInv, FirstTold
  <1>2. EndInv /\ [Next]_vars => EndInv'
    <2> SUFFICES ASSUME EndInv, [Next]_vars PROVE EndInv'
      OBVIOUS
    <2>1. IInv'
      BY StepIInv DEF EndInv
    <2> QED BY <2>1, StepTold DEF EndInv
  <1>3. EndInv => EndIsTold
    BY DEF EndInv, EndTold, EndIsTold
  <1> QED BY <1>1, <1>2, <1>3, PTL DEF Spec
=============================================================================
