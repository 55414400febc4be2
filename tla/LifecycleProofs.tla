-------------------------- MODULE LifecycleProofs --------------------------
(***************************************************************************)
(* Proofs about Lifecycle, for any number of downloads, workers, callers,  *)
(* file names, events, calls, failures and stops of the program, when none *)
(* of KnownRaces happens.                                                  *)
(***************************************************************************)
EXTENDS Lifecycle, SequenceTheorems, TLAPS

Removals == {"removed", "removedDone"}
Ends == {"complete", "error", "removed", "removedDone"}

(* What is on its way to the event worker about a download.                *)
Ended(d) == \E i \in DOMAIN evs : evs[i].d = d /\ evs[i].kind \in Ends
Removed(d) == \E i \in DOMAIN evs : evs[i].d = d /\ evs[i].kind \in Removals
OnlyRemovals(d) == \A i \in DOMAIN evs : evs[i].d = d => evs[i].kind \in Removals
ErrorPending(d) == \E i \in DOMAIN evs : evs[i].d = d /\ evs[i].kind = "error"
StartPending(d) == \E i \in DOMAIN evs : evs[i].d = d /\ evs[i].kind = "started"
Unstarted(d) ==
  \E i \in DOMAIN evs :
    /\ evs[i].d = d /\ evs[i].kind = "complete"
    /\ \A j \in DOMAIN evs : evs[j].d = d /\ evs[j].kind = "started" => j > i
Unsettled(d) ==
  \E i \in DOMAIN evs :
    /\ evs[i].d = d /\ evs[i].kind \in {"queued", "started"}
    /\ \A j \in DOMAIN evs : evs[j].d = d => j <= i

(* Where a download is.                                                    *)
Early == {"new", "final?", "surge?", "reserve"}
On(d) == \E w \in Workers : run[w].d = d
Called(d) == \E c \in Callers : call[c].d = d
CalledTo(d, l) == \E c \in Callers : call[c].d = d /\ call[c].pc = l

(* A download that runs, or will run without any further request.          *)
Engaged(d) == d \in queued \cup toResume \/ entry[d] # "none" \/ On(d) \/ CalledTo(d, "add")

-----------------------------------------------------------------------------
(* The invariant of who works on a download.  One worker at most runs it,  *)
(* and entered it in p.downloads, ...                                      *)
RunOf(w, d) ==
  /\ run[w].pc # "idle"
  /\ holder[d] = w
  /\ \/ entry[d] = "active" /\ run[w].stop = "no"
     \/ entry[d] = "pausing" /\ run[w].stop = "pause"
     \/ entry[d] = "none" /\ run[w].stop # "no" /\ CalledTo(d, "wait")

(* ... one call at most is made for it, ...                                *)
CallOf(c, d) ==
  /\ call[c].pc # "idle"
  /\ \A b \in Callers : call[b].d = d => b = c
  /\ entry[d] = "none" /\ d \notin queued \cup toResume
  /\ call[c].pc # "add" => d \in asked
  /\ call[c].pc = "wait" => holder[d] \in Workers
  /\ call[c].pc # "wait" => ~On(d)
  /\ ~Removed(d)

(* ... and it is in one place at a time.                                   *)
PlaceOf(d) ==
  /\ d \in queued \cup toResume => entry[d] = "none" /\ ~On(d)
  /\ d \notin queued \cap toResume
  /\ entry[d] = "paused" => ~On(d)
  /\ entry[d] \in {"active", "pausing"} => holder[d] \in Workers /\ run[holder[d]].d = d
  /\ d \in toResume => ~Pending(d) /\ row[d] \in {"queued", "paused"}

(* A request that was not dispatched has left no trace, and until it has   *)
(* told that it is queued nobody calls for it and it does not end.         *)
NewOf(d) ==
  /\ enq[d] \in Early \cup {"dispatch"} =>
       row[d] = "none" /\ ~Engaged(d) /\ ~Pending(d) /\ d \notin stored \cup failed
  /\ enq[d] \in Early \cup {"dispatch", "publish"} =>
       /\ ~Called(d) /\ ~Ended(d)
       /\ row[d] # "completed" /\ d \notin asked \cup gone \cup toResume
  /\ enq[d] = "publish" /\ phase = "up" => Engaged(d)

(* A download whose end is on its way is nobody's, and one whose removal   *)
(* is was asked to be removed.                                             *)
EndOf(d) ==
  /\ Ended(d) => ~Engaged(d)
  /\ Removed(d) => d \in asked
  /\ row[d] = "completed" => ~Engaged(d) /\ OnlyRemovals(d)
  /\ d \in gone => row[d] = "none" /\ d \in asked /\ ~Engaged(d) /\ ~Called(d)

At(d) ==
  /\ \A w \in Workers : run[w].d = d => RunOf(w, d)
  /\ \A c \in Callers : call[c].d = d => CallOf(c, d)
  /\ PlaceOf(d) /\ NewOf(d) /\ EndOf(d)

(* Who has no download is idle; when the program is down nobody has one.   *)
Idlers ==
  /\ \A w \in Workers : run[w].d = Nobody => run[w].pc = "idle"
  /\ \A c \in Callers : call[c].d = Nobody => call[c].pc = "idle"
Nothing ==
  /\ evs = <<>> /\ ~half /\ queued = {} /\ toResume = {}
  /\ run = [w \in Workers |-> IdleRun]
  /\ call = [c \in Callers |-> IdleCall]
  /\ \A d \in Downloads : entry[d] = "none" /\ enq[d] \in {"new", "aborted", "done"}

(* An end is the last that is told of a download, but for its removal; the *)
(* event worker is in the middle of an end, and what it removes is gone.   *)
EndsLast ==
  \A i, j \in DOMAIN evs :
    i < j /\ evs[i].d = evs[j].d /\ evs[i].kind \in Ends =>
      evs[i].kind \notin Removals /\ evs[j].kind \in Removals
Halves ==
  /\ half => /\ evs # <<>> /\ Head(evs).kind \in Ends \ {"error"}
             /\ Head(evs).kind \in Removals => Head(evs).d \in gone
  /\ \A d \in gone : Pending(d) => half /\ Head(evs).d = d /\ Head(evs).kind \in Removals

Places == \A d \in Downloads : At(d)
WorkInv ==
  /\ TypeOK /\ Idlers
  /\ Places /\ EndsLast /\ Halves
  /\ phase = "down" => Nothing

-----------------------------------------------------------------------------
(* The channel of events: what telling one, and taking the first, does to  *)
(* what is on its way about a download.                                    *)
EventType == [kind : EventKinds, d : Downloads, name : Names \cup {NoName}]

SameEvents(d) ==
  /\ Pending(d)' <=> Pending(d)
  /\ Ended(d)' <=> Ended(d)
  /\ Removed(d)' <=> Removed(d)
  /\ OnlyRemovals(d)' <=> OnlyRemovals(d)
  /\ ErrorPending(d)' <=> ErrorPending(d)
  /\ StartPending(d)' <=> StartPending(d)
  /\ Unstarted(d)' <=> Unstarted(d)
  /\ Unsettled(d)' <=> Unsettled(d)

LEMMA TellAppends ==
  ASSUME TypeOK, NEW e \in EventType, Tell(e)
  PROVE  /\ DOMAIN evs = 1 .. Len(evs) /\ DOMAIN evs' = 1 .. Len(evs) + 1 /\ Len(evs) \in Nat
         /\ \A i \in 1 .. Len(evs) : evs'[i] = evs[i]
         /\ evs'[Len(evs) + 1] = e
         /\ evs' \in Seq(EventType) /\ evs' # <<>>
         /\ evs # <<>> => Head(evs') = Head(evs)
  <1>1. evs \in Seq(EventType) /\ evs' = Append(evs, e)
    BY DEF TypeOK, EventType, Tell
  <1>2. /\ evs' \in Seq(EventType) /\ Len(evs') = Len(evs) + 1 /\ evs' # <<>>
        /\ \A i \in 1 .. Len(evs) : evs'[i] = evs[i]
        /\ evs'[Len(evs) + 1] = e
    BY <1>1, AppendProperties
  <1>3. evs # <<>> => Head(evs') = Head(evs)
    <2>1. ASSUME evs # <<>> PROVE Head(evs) = evs[1] /\ Head(evs') = evs'[1] /\ 1 \in 1 .. Len(evs)
      BY <1>1, <1>2, <2>1
    <2> QED BY <1>2, <2>1
  <1> QED BY <1>1, <1>2, <1>3

LEMMA HandledTails ==
  ASSUME TypeOK, evs # <<>>, Handled
  PROVE  /\ Len(evs) \in Nat /\ Len(evs) >= 1
         /\ DOMAIN evs = 1 .. Len(evs) /\ DOMAIN evs' = 1 .. Len(evs) - 1
         /\ \A i \in 1 .. Len(evs) - 1 : evs'[i] = evs[i + 1]
         /\ Head(evs) = evs[1] /\ Head(evs) \in EventType
         /\ evs' \in Seq(EventType)
  <1>1. evs \in Seq(EventType) /\ evs' = Tail(evs)
    BY DEF TypeOK, EventType, Handled
  <1> QED BY <1>1

LEMMA TellKeepsOthers ==
  ASSUME TypeOK, NEW e \in EventType, Tell(e), NEW d \in Downloads, e.d # d
  PROVE  SameEvents(d)
  <1>1. /\ DOMAIN evs = 1 .. Len(evs) /\ DOMAIN evs' = 1 .. Len(evs) + 1 /\ Len(evs) \in Nat
        /\ \A i \in 1 .. Len(evs) : evs'[i] = evs[i]
        /\ evs'[Len(evs) + 1] = e
    BY TellAppends
  <1>2. \A i \in DOMAIN evs' : evs'[i].d = d => i \in DOMAIN evs /\ evs'[i] = evs[i]
    BY <1>1
  <1>3. \A i \in DOMAIN evs : i \in DOMAIN evs' /\ evs'[i] = evs[i]
    BY <1>1
  <1>4. DOMAIN evs \subseteq Int /\ DOMAIN evs' \subseteq Int
    BY <1>1
  <1>5. Pending(d)' <=> Pending(d)
    BY <1>2, <1>3 DEF Pending
  <1>6. Ended(d)' <=> Ended(d)
    BY <1>2, <1>3 DEF Ended
  <1>7. Removed(d)' <=> Removed(d)
    BY <1>2, <1>3 DEF Removed
  <1>8. OnlyRemovals(d)' <=> OnlyRemovals(d)
    BY <1>2, <1>3 DEF OnlyRemovals
  <1>9. ErrorPending(d)' <=> ErrorPending(d)
    BY <1>2, <1>3 DEF ErrorPending
  <1>10. StartPending(d)' <=> StartPending(d)
    BY <1>2, <1>3 DEF StartPending
  <1>11. Unstarted(d)' <=> Unstarted(d)
    BY <1>2, <1>3 DEF Unstarted
  <1>12. Unsettled(d)' <=> Unsettled(d)
    BY <1>2, <1>3 DEF Unsettled
  <1> QED
    BY <1>5, <1>6, <1>7, <1>8, <1>9, <1>10, <1>11, <1>12 DEF SameEvents

(* What is told of a download comes last.                                  *)
LEMMA TellTells ==
  ASSUME TypeOK, NEW e \in EventType, Tell(e), NEW d \in Downloads, e.d = d
  PROVE  /\ Pending(d)'
         /\ Ended(d)' <=> Ended(d) \/ e.kind \in Ends
         /\ Removed(d)' <=> Removed(d) \/ e.kind \in Removals
         /\ OnlyRemovals(d)' <=> OnlyRemovals(d) /\ e.kind \in Removals
         /\ ErrorPending(d)' <=> ErrorPending(d) \/ e.kind = "error"
         /\ StartPending(d)' <=> StartPending(d) \/ e.kind = "started"
         /\ Unstarted(d)' => Unstarted(d) \/ (e.kind = "complete" /\ ~StartPending(d))
         /\ Unsettled(d)' <=> e.kind \in {"queued", "started"}
  <1>1. /\ DOMAIN evs = 1 .. Len(evs) /\ DOMAIN evs' = 1 .. Len(evs) + 1 /\ Len(evs) \in Nat
        /\ \A i \in 1 .. Len(evs) : evs'[i] = evs[i]
        /\ evs'[Len(evs) + 1] = e
    BY TellAppends
  <1> DEFINE n == Len(evs) + 1
  <1>2. /\ n \in DOMAIN evs' /\ n \in Int
        /\ \A i \in DOMAIN evs' : i \in Int /\ i <= n /\ (i = n \/ (i \in DOMAIN evs /\ evs'[i] = evs[i]))
        /\ \A i \in DOMAIN evs : i \in DOMAIN evs' /\ evs'[i] = evs[i] /\ i < n /\ i \in Int
    BY <1>1
  <1>a. evs'[n].d = d /\ evs'[n].kind = e.kind
    BY <1>1
  <1> HIDE DEF n
  <1>3. Pending(d)'
    BY <1>2, <1>a DEF Pending
  <1>4. Ended(d)' <=> Ended(d) \/ e.kind \in Ends
    BY <1>2, <1>a DEF Ended
  <1>5. Removed(d)' <=> Removed(d) \/ e.kind \in Removals
    BY <1>2, <1>a DEF Removed
  <1>6. OnlyRemovals(d)' <=> OnlyRemovals(d) /\ e.kind \in Removals
    BY <1>2, <1>a DEF OnlyRemovals
  <1>7. ErrorPending(d)' <=> ErrorPending(d) \/ e.kind = "error"
    BY <1>2, <1>a DEF ErrorPending
  <1>8. StartPending(d)' <=> StartPending(d) \/ e.kind = "started"
    BY <1>2, <1>a DEF StartPending
  <1>9. Unstarted(d)' => Unstarted(d) \/ (e.kind = "complete" /\ ~StartPending(d))
    BY <1>2, <1>a DEF Unstarted, StartPending
  <1>10. Unsettled(d)' <=> e.kind \in {"queued", "started"}
    BY <1>2, <1>a DEF Unsettled
  <1> QED
    BY <1>3, <1>4, <1>5, <1>6, <1>7, <1>8, <1>9, <1>10

LEMMA HandledKeepsOthers ==
  ASSUME TypeOK, evs # <<>>, Handled, NEW d \in Downloads, Head(evs).d # d
  PROVE  SameEvents(d)
  <1>1. /\ Len(evs) \in Nat /\ Len(evs) >= 1
        /\ DOMAIN evs = 1 .. Len(evs) /\ DOMAIN evs' = 1 .. Len(evs) - 1
        /\ \A i \in 1 .. Len(evs) - 1 : evs'[i] = evs[i + 1]
        /\ Head(evs) = evs[1]
    BY HandledTails
  <1>2. \A i \in DOMAIN evs' : i \in Int /\ i + 1 \in DOMAIN evs /\ evs'[i] = evs[i + 1]
    BY <1>1
  <1>3. \A i \in DOMAIN evs : evs[i].d = d => i \in Int /\ i - 1 \in DOMAIN evs' /\ evs'[i - 1] = evs[i]
    BY <1>1
  <1>5. Pending(d)' <=> Pending(d)
    BY <1>2, <1>3 DEF Pending
  <1>6. Ended(d)' <=> Ended(d)
    BY <1>2, <1>3 DEF Ended
  <1>7. Removed(d)' <=> Removed(d)
    BY <1>2, <1>3 DEF Removed
  <1>8. OnlyRemovals(d)' <=> OnlyRemovals(d)
    BY <1>2, <1>3 DEF OnlyRemovals
  <1>9. ErrorPending(d)' <=> ErrorPending(d)
    BY <1>2, <1>3 DEF ErrorPending
  <1>10. StartPending(d)' <=> StartPending(d)
    BY <1>2, <1>3 DEF StartPending
  <1>11. Unstarted(d)' <=> Unstarted(d)
    <2>1. ASSUME Unstarted(d)' PROVE Unstarted(d)
      <3>1. PICK i \in DOMAIN evs' : evs'[i].d = d /\ evs'[i].kind = "complete"
                /\ \A j \in DOMAIN evs' : evs'[j].d = d /\ evs'[j].kind = "started" => j > i
        BY <2>1 DEF Unstarted
      <3>2. ASSUME NEW j \in DOMAIN evs, evs[j].d = d, evs[j].kind = "started" PROVE j > i + 1
        <4>1. j - 1 > i
          BY <1>3, <3>1, <3>2
        <4> QED BY <1>1, <1>2, <4>1
      <3> QED BY <1>2, <3>1, <3>2 DEF Unstarted
    <2>2. ASSUME Unstarted(d) PROVE Unstarted(d)'
      <3>1. PICK i \in DOMAIN evs : evs[i].d = d /\ evs[i].kind = "complete"
                /\ \A j \in DOMAIN evs : evs[j].d = d /\ evs[j].kind = "started" => j > i
        BY <2>2 DEF Unstarted
      <3>2. ASSUME NEW j \in DOMAIN evs', evs'[j].d = d, evs'[j].kind = "started" PROVE j > i - 1
        <4>1. j + 1 > i
          BY <1>2, <3>1, <3>2
        <4> QED BY <1>1, <1>2, <4>1
      <3> QED BY <1>3, <3>1, <3>2 DEF Unstarted
    <2> QED BY <2>1, <2>2
  <1>12. Unsettled(d)' <=> Unsettled(d)
    <2>1. ASSUME Unsettled(d)' PROVE Unsettled(d)
      <3>1. PICK i \in DOMAIN evs' : evs'[i].d = d /\ evs'[i].kind \in {"queued", "started"}
                /\ \A j \in DOMAIN evs' : evs'[j].d = d => j <= i
        BY <2>1 DEF Unsettled
      <3>2. ASSUME NEW j \in DOMAIN evs, evs[j].d = d PROVE j <= i + 1
        <4>1. j - 1 <= i
          BY <1>3, <3>1, <3>2
        <4> QED BY <1>1, <1>2, <4>1
      <3> QED BY <1>2, <3>1, <3>2 DEF Unsettled
    <2>2. ASSUME Unsettled(d) PROVE Unsettled(d)'
      <3>1. PICK i \in DOMAIN evs : evs[i].d = d /\ evs[i].kind \in {"queued", "started"}
                /\ \A j \in DOMAIN evs : evs[j].d = d => j <= i
        BY <2>2 DEF Unsettled
      <3>2. ASSUME NEW j \in DOMAIN evs', evs'[j].d = d PROVE j <= i - 1
        <4>1. j + 1 <= i
          BY <1>2, <3>1, <3>2
        <4> QED BY <1>1, <1>2, <4>1
      <3> QED BY <1>3, <3>1, <3>2 DEF Unsettled
    <2> QED BY <2>1, <2>2
  <1> QED
    BY <1>5, <1>6, <1>7, <1>8, <1>9, <1>10, <1>11, <1>12 DEF SameEvents

(* The first event is taken.                                               *)
LEMMA HandledTakes ==
  ASSUME TypeOK, EndsLast, evs # <<>>, Handled, NEW d \in Downloads, Head(evs).d = d
  PROVE  /\ Pending(d)
         /\ Ended(d)' => Ended(d)
         /\ Removed(d)' => Removed(d)
         /\ OnlyRemovals(d) => OnlyRemovals(d)'
         /\ ErrorPending(d)' => ErrorPending(d)
         /\ StartPending(d)' => StartPending(d)
         /\ StartPending(d) => StartPending(d)' \/ Head(evs).kind = "started"
         /\ Unstarted(d)' => Unstarted(d) \/ Head(evs).kind = "started"
         /\ Unsettled(d)' => Unsettled(d)
         /\ Unsettled(d) => Unsettled(d)' \/ ~Pending(d)'
         /\ ~Pending(d)' /\ Head(evs).kind \in {"queued", "started"} => Unsettled(d)
         /\ Head(evs).kind \in Ends => Ended(d) /\ OnlyRemovals(d)'
         /\ Head(evs).kind \in Removals => Removed(d) /\ ~Pending(d)'
         /\ Head(evs).kind = "error" => ErrorPending(d)
         /\ Head(evs).kind = "complete" => Unstarted(d)
  <1>1. /\ Len(evs) \in Nat /\ Len(evs) >= 1
        /\ DOMAIN evs = 1 .. Len(evs) /\ DOMAIN evs' = 1 .. Len(evs) - 1
        /\ \A i \in 1 .. Len(evs) - 1 : evs'[i] = evs[i + 1]
        /\ Head(evs) = evs[1]
    BY HandledTails
  <1>2. \A i \in DOMAIN evs' : i \in Int /\ i >= 1 /\ i + 1 \in DOMAIN evs /\ evs'[i] = evs[i + 1]
    BY <1>1
  <1>3. \A i \in DOMAIN evs : i \in Int /\ i >= 1 /\ (i = 1 \/ (i - 1 \in DOMAIN evs' /\ evs'[i - 1] = evs[i]))
    BY <1>1
  <1>4. 1 \in DOMAIN evs /\ evs[1].d = d /\ evs[1].kind = Head(evs).kind
    BY <1>1
  <1>5. /\ Pending(d)
        /\ Ended(d)' => Ended(d)
        /\ Removed(d)' => Removed(d)
        /\ OnlyRemovals(d) => OnlyRemovals(d)'
        /\ ErrorPending(d)' => ErrorPending(d)
        /\ StartPending(d)' => StartPending(d)
    BY <1>2, <1>4 DEF Pending, Ended, Removed, OnlyRemovals, ErrorPending, StartPending
  <1>6. StartPending(d) => StartPending(d)' \/ Head(evs).kind = "started"
    BY <1>3, <1>4 DEF StartPending
  <1>7. Unstarted(d)' => Unstarted(d) \/ Head(evs).kind = "started"
    <2>1. SUFFICES ASSUME Unstarted(d)', Head(evs).kind # "started" PROVE Unstarted(d)
      OBVIOUS
    <2>2. PICK i \in DOMAIN evs' : evs'[i].d = d /\ evs'[i].kind = "complete"
              /\ \A j \in DOMAIN evs' : evs'[j].d = d /\ evs'[j].kind = "started" => j > i
      BY <2>1 DEF Unstarted
    <2>3. ASSUME NEW j \in DOMAIN evs, evs[j].d = d, evs[j].kind = "started" PROVE j > i + 1
      <3>1. j - 1 > i
        BY <1>3, <1>4, <2>1, <2>2, <2>3
      <3> QED BY <1>1, <1>2, <3>1
    <2> QED BY <1>2, <2>2, <2>3 DEF Unstarted
  <1>8. Unsettled(d)' => Unsettled(d)
    <2>1. SUFFICES ASSUME Unsettled(d)' PROVE Unsettled(d)
      OBVIOUS
    <2>2. PICK i \in DOMAIN evs' : evs'[i].d = d /\ evs'[i].kind \in {"queued", "started"}
              /\ \A j \in DOMAIN evs' : evs'[j].d = d => j <= i
      BY <2>1 DEF Unsettled
    <2>3. ASSUME NEW j \in DOMAIN evs, evs[j].d = d PROVE j <= i + 1
      <3>1. j = 1 \/ j - 1 <= i
        BY <1>3, <2>2, <2>3
      <3> QED BY <1>2, <1>3, <2>2, <3>1
    <2> QED BY <1>2, <2>2, <2>3 DEF Unsettled
  <1>9. Unsettled(d) => Unsettled(d)' \/ ~Pending(d)'
    <2>1. SUFFICES ASSUME Unsettled(d), Pending(d)' PROVE Unsettled(d)'
      OBVIOUS
    <2>2. PICK i \in DOMAIN evs : evs[i].d = d /\ evs[i].kind \in {"queued", "started"}
              /\ \A j \in DOMAIN evs : evs[j].d = d => j <= i
      BY <2>1 DEF Unsettled
    <2>3. PICK k \in DOMAIN evs' : evs'[k].d = d
      BY <2>1 DEF Pending
    <2>4. i # 1
      BY <1>2, <1>3, <2>2, <2>3
    <2>5. ASSUME NEW j \in DOMAIN evs', evs'[j].d = d PROVE j <= i - 1
      <3>1. j + 1 <= i
        BY <1>2, <2>2, <2>5
      <3> QED BY <1>2, <1>3, <3>1
    <2> QED BY <1>3, <2>2, <2>4, <2>5 DEF Unsettled
  <1>10. ~Pending(d)' /\ Head(evs).kind \in {"queued", "started"} => Unsettled(d)
    <2>1. SUFFICES ASSUME ~Pending(d)', Head(evs).kind \in {"queued", "started"} PROVE Unsettled(d)
      OBVIOUS
    <2>2. \A j \in DOMAIN evs : evs[j].d = d => j = 1
      BY <1>3, <2>1 DEF Pending
    <2> QED BY <1>3, <1>4, <2>1, <2>2 DEF Unsettled
  <1>11. Head(evs).kind \in Ends => Ended(d) /\ OnlyRemovals(d)'
    <2>1. SUFFICES ASSUME evs[1].kind \in Ends PROVE Ended(d) /\ OnlyRemovals(d)'
      BY <1>4
    <2>2. ASSUME NEW i \in DOMAIN evs', evs'[i].d = d PROVE evs'[i].kind \in Removals
      <3>1. i + 1 \in DOMAIN evs /\ 1 < i + 1 /\ evs[i + 1].d = evs[1].d /\ evs'[i] = evs[i + 1]
        BY <1>2, <1>4, <2>2
      <3> QED BY <1>4, <2>1, <3>1 DEF EndsLast
    <2> QED BY <1>4, <2>1, <2>2 DEF Ended, OnlyRemovals
  <1>12. Head(evs).kind \in Removals => Removed(d) /\ ~Pending(d)'
    <2>1. SUFFICES ASSUME evs[1].kind \in Removals PROVE Removed(d) /\ ~Pending(d)'
      BY <1>4
    <2>2. ASSUME NEW i \in DOMAIN evs', evs'[i].d = d PROVE FALSE
      <3>1. i + 1 \in DOMAIN evs /\ 1 < i + 1 /\ evs[i + 1].d = evs[1].d
        BY <1>2, <1>4, <2>2
      <3> QED BY <1>4, <2>1, <3>1 DEF EndsLast, Ends, Removals
    <2> QED BY <1>4, <2>1, <2>2 DEF Removed, Pending
  <1>13. Head(evs).kind = "error" => ErrorPending(d)
    BY <1>4 DEF ErrorPending
  <1>14. Head(evs).kind = "complete" => Unstarted(d)
    <2>1. SUFFICES ASSUME evs[1].kind = "complete" PROVE Unstarted(d)
      BY <1>4
    <2>2. \A j \in DOMAIN evs : evs[j].kind = "started" => j > 1
      BY <1>3, <2>1
    <2> QED BY <1>4, <2>1, <2>2 DEF Unstarted
  <1> QED
    BY <1>5, <1>6, <1>7, <1>8, <1>9, <1>10, <1>11, <1>12, <1>13, <1>14

LEMMA TellKeepsLast ==
  ASSUME TypeOK, EndsLast, NEW e \in EventType, Tell(e),
         Ended(e.d) => e.kind \in Removals /\ ~Removed(e.d)
  PROVE  EndsLast'
  <1>1. /\ DOMAIN evs = 1 .. Len(evs) /\ DOMAIN evs' = 1 .. Len(evs) + 1 /\ Len(evs) \in Nat
        /\ \A i \in 1 .. Len(evs) : evs'[i] = evs[i]
        /\ evs'[Len(evs) + 1] = e
    BY TellAppends
  <1>2. SUFFICES ASSUME NEW i \in DOMAIN evs', NEW j \in DOMAIN evs',
                        i < j, evs'[i].d = evs'[j].d, evs'[i].kind \in Ends
                 PROVE  evs'[i].kind \notin Removals /\ evs'[j].kind \in Removals
    BY DEF EndsLast
  <1>3. i \in DOMAIN evs /\ evs'[i] = evs[i]
    BY <1>1, <1>2
  <1>4. CASE j \in DOMAIN evs
    BY <1>1, <1>2, <1>3, <1>4 DEF EndsLast
  <1>5. CASE j \notin DOMAIN evs
    <2>1. evs'[j] = e
      BY <1>1, <1>5
    <2>2. Ended(e.d) /\ (evs[i].kind \in Removals => Removed(e.d))
      BY <1>2, <1>3, <2>1 DEF Ended, Removed
    <2> QED BY <1>3, <2>1, <2>2
  <1> QED BY <1>4, <1>5

LEMMA HandledKeepsLast ==
  ASSUME TypeOK, EndsLast, evs # <<>>, Handled
  PROVE  EndsLast'
  <1>1. /\ Len(evs) \in Nat
        /\ DOMAIN evs = 1 .. Len(evs) /\ DOMAIN evs' = 1 .. Len(evs) - 1
        /\ \A i \in 1 .. Len(evs) - 1 : evs'[i] = evs[i + 1]
    BY HandledTails
  <1>2. SUFFICES ASSUME NEW i \in DOMAIN evs', NEW j \in DOMAIN evs',
                        i < j, evs'[i].d = evs'[j].d, evs'[i].kind \in Ends
                 PROVE  evs'[i].kind \notin Removals /\ evs'[j].kind \in Removals
    BY DEF EndsLast
  <1>3. /\ i + 1 \in DOMAIN evs /\ j + 1 \in DOMAIN evs /\ i + 1 < j + 1
        /\ evs'[i] = evs[i + 1] /\ evs'[j] = evs[j + 1]
    BY <1>1, <1>2
  <1> QED BY <1>2, <1>3 DEF EndsLast

LEMMA SilentKeepsEvents ==
  ASSUME UNCHANGED evs, NEW d \in Downloads
  PROVE  SameEvents(d)
  BY DEF SameEvents, Pending, Ended, Removed, OnlyRemovals, ErrorPending, StartPending, Unstarted,
     Unsettled

-----------------------------------------------------------------------------
(* A step that does nothing to a download.                                 *)
SameHistory(d) ==
  /\ d \in stored' <=> d \in stored
  /\ d \in asked' <=> d \in asked
  /\ d \in gone' <=> d \in gone
  /\ d \in failed' <=> d \in failed
SameState(d) ==
  /\ row'[d] = row[d] /\ dest'[d] = dest[d]
  /\ d \in queued' <=> d \in queued
  /\ entry'[d] = entry[d] /\ holder'[d] = holder[d]
  /\ enq'[d] = enq[d] /\ cand'[d] = cand[d]
  /\ d \in toResume' <=> d \in toResume
SameRuns(d) == \A w \in Workers : run'[w].d = d \/ run[w].d = d => run'[w] = run[w]
SameCalls(d) == \A c \in Callers : call'[c].d = d \/ call[c].d = d => call'[c] = call[c]
Same(d) == SameHistory(d) /\ SameState(d) /\ SameRuns(d) /\ SameCalls(d) /\ SameEvents(d)
OnlyAt(d) == \A e \in Downloads \ {d} : Same(e)

LEMMA SamePlaces ==
  ASSUME NEW d, SameRuns(d), SameCalls(d)
  PROVE  /\ On(d)' <=> On(d)
         /\ Called(d)' <=> Called(d)
         /\ \A l : CalledTo(d, l)' <=> CalledTo(d, l)
  BY DEF SameRuns, SameCalls, On, Called, CalledTo

LEMMA SameEngaged ==
  ASSUME NEW d, SameState(d), SameRuns(d), SameCalls(d)
  PROVE  Engaged(d)' <=> Engaged(d)
  <1>1. /\ On(d)' <=> On(d)
        /\ CalledTo(d, "add")' <=> CalledTo(d, "add")
    BY SamePlaces
  <1> QED BY <1>1 DEF Engaged, SameState

LEMMA OthersStay ==
  ASSUME NEW d \in Downloads, At(d), Same(d), phase' = "up" => phase = "up"
  PROVE  At(d)'
  <1>1. /\ On(d)' <=> On(d)
        /\ Called(d)' <=> Called(d)
        /\ \A l : CalledTo(d, l)' <=> CalledTo(d, l)
        /\ Engaged(d)' <=> Engaged(d)
    BY SamePlaces, SameEngaged DEF Same
  <1>2. ASSUME NEW w \in Workers, run'[w].d = d PROVE RunOf(w, d)'
    <2>1. run'[w] = run[w] /\ RunOf(w, d)
      BY <1>2 DEF Same, SameRuns, At
    <2> QED BY <1>1, <2>1 DEF RunOf, Same, SameState
  <1>3. ASSUME NEW c \in Callers, call'[c].d = d PROVE CallOf(c, d)'
    <2>1. call'[c] = call[c] /\ CallOf(c, d)
      BY <1>3 DEF Same, SameCalls, At
    <2>2. ASSUME NEW b \in Callers, call'[b].d = d PROVE b = c
      BY <2>1, <2>2 DEF CallOf, Same, SameCalls
    <2> QED BY <1>1, <2>1, <2>2 DEF CallOf, Same, SameState, SameHistory, SameEvents
  <1>4. PlaceOf(d)'
    <2>1. entry[d] \in {"active", "pausing"} => holder[d] \in Workers /\ run'[holder[d]].d = d
      BY DEF At, PlaceOf, Same, SameRuns
    <2> QED BY <1>1, <2>1 DEF At, PlaceOf, Same, SameState, SameEvents
  <1>5. NewOf(d)'
    BY <1>1 DEF At, NewOf, Same, SameState, SameHistory, SameEvents
  <1>6. EndOf(d)'
    BY <1>1 DEF At, EndOf, Same, SameState, SameHistory, SameEvents
  <1> QED BY <1>2, <1>3, <1>4, <1>5, <1>6 DEF At

-----------------------------------------------------------------------------
(* Types, for any races.                                                   *)
DiskType ==
  /\ surge \in [Names -> Downloads \cup {Nobody}]
  /\ final \in [Names -> Downloads \cup {Nobody}]
  /\ row \in [Downloads -> Statuses]
  /\ dest \in [Downloads -> Names \cup {NoName}]
PoolType ==
  /\ queued \subseteq Downloads
  /\ entry \in [Downloads -> {"none", "active", "pausing", "paused"}]
  /\ holder \in [Downloads -> Workers \cup {Nobody}]
RunRecord == [pc : {"idle", "open", "transfer", "complete", "error", "stopped"},
              d : Downloads \cup {Nobody}, stop : {"no", "pause", "cancel"}]
RunType == run \in [Workers -> RunRecord]
EnqType ==
  /\ enq \in [Downloads -> {"new", "final?", "surge?", "reserve", "dispatch", "publish",
                            "done", "aborted"}]
  /\ cand \in [Downloads -> Names \cup {NoName}]
CallRecord == [pc : {"idle", "add", "wait", "look", "publish"}, d : Downloads \cup {Nobody}]
CallType == call \in [Callers -> CallRecord]
EvsType == evs \in Seq(EventType) /\ half \in BOOLEAN
ProgramType == phase \in {"up", "stopping", "closed", "down"} /\ toResume \subseteq Downloads
HistoryType ==
  stored \subseteq Downloads /\ asked \subseteq Downloads /\ gone \subseteq Downloads /\ failed \subseteq Downloads
UsedType == used \in [calls : Nat, errors : Nat, rejects : Nat, stops : Nat]

LEMMA TypeParts ==
  TypeOK <=> /\ DiskType /\ PoolType /\ RunType /\ EnqType /\ CallType
             /\ EvsType /\ ProgramType /\ HistoryType /\ UsedType
  BY DEF TypeOK, DiskType, PoolType, RunType, RunRecord, EnqType, CallType, CallRecord, EvsType,
     EventType, ProgramType, HistoryType, UsedType

LEMMA TypePartsNext ==
  TypeOK' <=> /\ DiskType' /\ PoolType' /\ RunType' /\ EnqType' /\ CallType'
              /\ EvsType' /\ ProgramType' /\ HistoryType' /\ UsedType'
  BY DEF TypeOK, DiskType, PoolType, RunType, RunRecord, EnqType, CallType, CallRecord, EvsType,
     EventType, ProgramType, HistoryType, UsedType

LEMMA TellTypes ==
  ASSUME TypeOK, NEW e \in EventType, Tell(e), UNCHANGED half
  PROVE  EvsType'
  BY TellAppends, TypeParts DEF EvsType

LEMMA EventTypes ==
  ASSUME TypeOK, NEW k \in EventKinds, NEW d \in Downloads
  PROVE  Event(k, d) \in EventType
  BY DEF TypeOK, Event, EventType

LEMMA UseTypes ==
  ASSUME TypeOK, NEW k \in {"calls", "errors", "rejects", "stops"}, Use(k)
  PROVE  UsedType'
  <1>1. used \in [calls : Nat, errors : Nat, rejects : Nat, stops : Nat]
    BY DEF TypeOK
  <1>2. used[k] + 1 \in Nat
    BY <1>1
  <1> QED BY <1>1, <1>2 DEF Use, UsedType

LEMMA EnqueueTypes ==
  ASSUME TypeOK, Idlers, NEW d \in Downloads, Request(d) \/ EnqueueStep(d)
  PROVE  TypeOK' /\ Idlers'
  <1> USE LifecycleAssumption DEF Names, NoName
  <1>1. SUFFICES /\ DiskType' /\ PoolType' /\ RunType' /\ EnqType' /\ CallType'
                 /\ EvsType' /\ ProgramType' /\ HistoryType' /\ UsedType' /\ Idlers'
    BY TypePartsNext
  <1>2. DiskType /\ PoolType /\ RunType /\ EnqType /\ CallType
        /\ EvsType /\ ProgramType /\ HistoryType /\ UsedType
    BY TypeParts
  <1>3. UNCHANGED <<run, call, half, program, history, used, final, row, entry, holder>>
    BY DEF EnqueueStep, Request, LookForFinal, LookForSurge, Reserve, Dispatch, PublishQueued, pool, disk
  <1>4. cand[d] \in Names \cup {NoName} /\ BaseName(d) \in Names /\ (cand[d] < MaxName => cand[d] + 1 \in Names)
    BY <1>2 DEF EnqType, BaseName
  <1>5. DiskType'
    <2>1. \/ UNCHANGED <<surge, dest>>
          \/ /\ surge' = [surge EXCEPT ![cand[d]] = d]
             /\ dest' = [dest EXCEPT ![d] = cand[d]]
      BY DEF EnqueueStep, Request, LookForFinal, LookForSurge, Reserve, Dispatch, PublishQueued, disk
    <2>2. surge' \in [Names -> Downloads \cup {Nobody}]
      BY <1>2, <2>1 DEF DiskType
    <2>3. dest' \in [Downloads -> Names \cup {NoName}]
      BY <1>2, <1>4, <2>1 DEF DiskType
    <2> QED BY <1>2, <1>3, <2>2, <2>3 DEF DiskType
  <1>6. PoolType'
    BY <1>2, <1>3 DEF EnqueueStep, Request, LookForFinal, LookForSurge, Reserve, Dispatch,
       PublishQueued, pool, PoolType
  <1>7. EnqType'
    <2>1. \E l \in {"final?", "surge?", "reserve", "dispatch", "publish", "done"} : EnqTo(d, l)
      BY DEF EnqueueStep, Request, LookForFinal, LookForSurge, Reserve, Dispatch, PublishQueued,
         NextCandidate
    <2>2. UNCHANGED cand \/ \E n \in Names \cup {NoName} : cand' = [cand EXCEPT ![d] = n]
      BY <1>4 DEF EnqueueStep, Request, LookForFinal, LookForSurge, Reserve, Dispatch,
         PublishQueued, NextCandidate
    <2> QED BY <1>2, <2>1, <2>2 DEF EnqType, EnqTo
  <1>8. EvsType'
    <2>1. UNCHANGED evs \/ Tell(Event("queued", d))
      BY DEF EnqueueStep, Request, LookForFinal, LookForSurge, Reserve, Dispatch, PublishQueued
    <2>2. Event("queued", d) \in EventType
      BY EventTypes DEF EventKinds
    <2> QED BY <1>2, <1>3, <2>1, <2>2, TellTypes DEF EvsType
  <1> QED
    BY <1>2, <1>3, <1>5, <1>6, <1>7, <1>8 DEF RunType, CallType, ProgramType, HistoryType,
       UsedType, program, history, Idlers

LEMMA AbortTypes ==
  ASSUME TypeOK, Idlers, NEW d \in Downloads, Abort(d)
  PROVE  TypeOK' /\ Idlers'
  <1>1. DiskType /\ PoolType /\ RunType /\ EnqType /\ CallType
        /\ EvsType /\ ProgramType /\ HistoryType /\ UsedType
    BY TypeParts
  <1>2. InferredName(d) \in Names
    BY LifecycleAssumption DEF InferredName
  <1>3. DiskType'
    BY <1>1, <1>2 DEF Abort, DiskType, Statuses
  <1>4. EvsType'
    <2>1. [kind |-> "error", d |-> d, name |-> InferredName(d)] \in EventType
      BY <1>2 DEF EventType, EventKinds
    <2> QED BY <2>1, TellTypes DEF Abort
  <1>5. UsedType'
    BY UseTypes DEF Abort
  <1>6. EnqType' /\ HistoryType'
    BY <1>1 DEF Abort, EnqType, EnqTo, HistoryType
  <1>7. PoolType' /\ RunType' /\ CallType' /\ ProgramType' /\ Idlers'
    BY <1>1 DEF Abort, pool, PoolType, RunType, CallType, program, ProgramType, Idlers
  <1> QED
    BY <1>3, <1>4, <1>5, <1>6, <1>7, TypePartsNext

LEMMA WorkerTypes ==
  ASSUME TypeOK, Idlers, NEW w \in Workers, WorkerStep(w) \/ TransferFails(w)
  PROVE  TypeOK' /\ Idlers'
  <1>1. DiskType /\ PoolType /\ RunType /\ EnqType /\ CallType
        /\ EvsType /\ ProgramType /\ HistoryType /\ UsedType
    BY TypeParts
  <1> USE DEF WorkerStep, Take, OpenWorkingFile, Transferred, TransferFails, TransferStops, Finish
  <1>2. UNCHANGED <<disk, enq, cand, call, half, phase, toResume, stored, asked, gone>>
    BY DEF requests, program, history
  <1>3. run[w] \in RunRecord
    BY <1>1 DEF RunType
  <1>a. CASE \E d \in Downloads : Take(w, d)
    <2>1. PICK d \in Downloads : Take(w, d)
      BY <1>a
    <2>2. /\ queued' = queued \ {d} /\ entry' = [entry EXCEPT ![d] = "active"]
          /\ holder' = [holder EXCEPT ![d] = w] /\ Tell(Event("started", d))
          /\ run' = [run EXCEPT ![w] = [pc |-> "open", d |-> d, stop |-> "no"]]
          /\ UNCHANGED <<failed, used, half>>
      BY <2>1 DEF history
    <2> HIDE DEF WorkerStep, Take, OpenWorkingFile, Transferred, TransferFails, TransferStops, Finish
    <2>3. PoolType' /\ RunType' /\ HistoryType' /\ UsedType'
      BY <1>1, <1>2, <2>2 DEF PoolType, RunType, RunRecord, HistoryType, UsedType
    <2>5. Idlers'
      BY <1>1, <1>2, <2>2, LifecycleAssumption DEF Idlers, RunType
    <2>4. EvsType'
      BY <2>2, EventTypes, TellTypes DEF EventKinds
    <2> QED
      BY <1>1, <1>2, <2>3, <2>4, <2>5, TypePartsNext DEF disk, DiskType, EnqType, CallType, ProgramType
  <1>b. CASE Finish(w)
    <2>1. /\ run[w].pc \in {"complete", "error", "stopped"}
          /\ UNCHANGED evs \/ \E k \in Outcome(w) : Tell(Event(k, run[w].d))
          /\ \E x : entry' = [entry EXCEPT ![run[w].d] = x]
                      /\ x \in {"none", "paused", entry[run[w].d]}
          /\ run' = [run EXCEPT ![w] = IdleRun]
          /\ UNCHANGED <<queued, holder, failed, used, half>>
      BY <1>b DEF history
    <2> HIDE DEF WorkerStep, Take, OpenWorkingFile, Transferred, TransferFails, TransferStops, Finish
    <2>a. IdleRun \in RunRecord
      BY DEF IdleRun, RunRecord
    <2>b. RunType'
      BY <1>1, <2>1, <2>a DEF RunType
    <2>c. HistoryType' /\ UsedType'
      BY <1>1, <1>2, <2>1 DEF HistoryType, UsedType
    <2>d. PoolType'
      <3>1. PICK x : entry' = [entry EXCEPT ![run[w].d] = x] /\ x \in {"none", "paused", entry[run[w].d]}
        BY <2>1
      <3>2. run[w].d \in Downloads
        BY <1>3, <2>1 DEF RunRecord, Idlers
      <3> QED BY <1>1, <2>1, <3>1, <3>2 DEF PoolType
    <2>2. PoolType' /\ RunType' /\ HistoryType' /\ UsedType'
      BY <2>b, <2>c, <2>d
    <2>3. Outcome(w) \subseteq EventKinds /\ run[w].d \in Downloads
      BY <1>3, <2>1 DEF Outcome, RunRecord, EventKinds, Idlers
    <2>4. EvsType'
      BY <1>1, <1>2, <2>1, <2>3, EventTypes, TellTypes DEF EvsType
    <2>5. Idlers'
      BY <1>1, <1>2, <2>1 DEF Idlers, RunType, IdleRun
    <2> QED
      BY <1>1, <1>2, <2>2, <2>4, <2>5, TypePartsNext DEF disk, DiskType, EnqType, CallType, ProgramType
  <1>c. CASE OpenWorkingFile(w) \/ Transferred(w) \/ TransferFails(w) \/ TransferStops(w)
    <2>1. /\ run[w].pc \in {"open", "transfer"}
          /\ \E l \in {"transfer", "complete", "error", "stopped"} : RunTo(w, l)
          /\ UNCHANGED failed \/ failed' = failed \cup {run[w].d}
          /\ UNCHANGED used \/ Use("errors")
          /\ UNCHANGED <<queued, entry, holder, evs, half>>
      BY <1>c DEF history, pool
    <2> HIDE DEF WorkerStep, Take, OpenWorkingFile, Transferred, TransferFails, TransferStops, Finish
    <2>2. run[w].d \in Downloads
      BY <1>3, <2>1 DEF RunRecord, Idlers
    <2>3. RunType' /\ Idlers'
      BY <1>1, <1>2, <2>1, <2>2 DEF RunType, RunRecord, RunTo, Idlers
    <2>4. UsedType'
      BY <1>1, <2>1, UseTypes DEF UsedType
    <2>5. PoolType' /\ HistoryType'
      BY <1>1, <1>2, <2>1, <2>2 DEF PoolType, HistoryType
    <2> QED
      BY <1>1, <1>2, <2>1, <2>3, <2>4, <2>5, TypePartsNext DEF disk, DiskType, EnqType, CallType,
         ProgramType, EvsType
  <1> QED
    BY <1>a, <1>b, <1>c

(* What the event worker may do to the disk.                               *)
LEMMA EventStepTypes ==
  ASSUME TypeOK, Idlers, EventStep
  PROVE  TypeOK' /\ Idlers'
  <1>1. DiskType /\ PoolType /\ RunType /\ EnqType /\ CallType
        /\ EvsType /\ ProgramType /\ HistoryType /\ UsedType
    BY TypeParts
  <1> DEFINE d == Head(evs).d
  <1> USE DEF EventStep, StoreQueued, StoreStarted, StorePaused, StorePausedRow, Promote,
              StoreCompleted, PromoteFails, StoreError, DeleteRow, DeleteWorkingFile, HeadIs
  <1>2. evs # <<>> /\ UNCHANGED <<pool, run, enq, cand, call, phase, toResume, asked, used>>
    BY DEF HandlerKeeps, requests, program
  <1>3. d \in Downloads /\ Head(evs).name \in Names \cup {NoName}
    <2>1. Head(evs) \in EventType
      BY <1>1, <1>2 DEF EvsType
    <2> QED BY <2>1 DEF EventType
  <1>4. UNCHANGED row \/ \E s \in Statuses : SetRow(d, s)
    BY DEF Statuses
  <1>5. \/ UNCHANGED <<surge, final>>
        \/ UNCHANGED final /\ \E n \in {dest[d], Head(evs).name} : surge' = Without(n)
        \/ Promote
    OBVIOUS
  <1>6. UNCHANGED dest \/ \E n \in {NoName, dest[d]} : dest' = [dest EXCEPT ![d] = n]
    OBVIOUS
  <1>7. UNCHANGED <<stored, gone, failed>>
          \/ (UNCHANGED <<stored, gone>> /\ failed' = failed \cup {d})
          \/ (UNCHANGED <<failed, gone>> /\ stored' = stored \cup {d})
          \/ (UNCHANGED <<stored, failed>> /\ gone' = gone \cup {d})
    BY DEF HandlerKeeps
  <1>8. Handled \/ (UNCHANGED evs /\ half' = TRUE)
    OBVIOUS
  <1>a. dest[d] \in Names \cup {NoName}
    BY <1>1, <1>3 DEF DiskType
  <1>9. surge' \in [Names -> Downloads \cup {Nobody}] /\ final' \in [Names -> Downloads \cup {Nobody}]
    <2>1. CASE Promote
      <3> DEFINE n == dest[d]
      <3>1. /\ n \in Names
            /\ final' = [final EXCEPT ![n] = surge[n]] /\ surge' = [surge EXCEPT ![n] = Nobody]
        BY <2>1, <1>a
      <3> HIDE DEF n
      <3> QED BY <1>1, <3>1 DEF DiskType
    <2>2. ASSUME UNCHANGED final, NEW n \in {dest[d], Head(evs).name}, surge' = Without(n)
          PROVE  surge' \in [Names -> Downloads \cup {Nobody}]
      BY <1>1, <1>3, <1>a, <2>2 DEF DiskType, Without
    <2> QED BY <1>1, <1>5, <2>1, <2>2 DEF DiskType
  <1> HIDE DEF d, EventStep, StoreQueued, StoreStarted, StorePaused, StorePausedRow, Promote,
               StoreCompleted, PromoteFails, StoreError, DeleteRow, DeleteWorkingFile, HeadIs
  <1>10. row' \in [Downloads -> Statuses]
    BY <1>1, <1>4 DEF DiskType, SetRow
  <1>11. dest' \in [Downloads -> Names \cup {NoName}]
    BY <1>1, <1>a, <1>6 DEF DiskType
  <1>12. HistoryType'
    BY <1>1, <1>2, <1>3, <1>7 DEF HistoryType
  <1>13. EvsType'
    <2>1. CASE Handled
      <3>1. evs' \in Seq(EventType)
        BY <1>2, <2>1, HandledTails
      <3> QED BY <2>1, <3>1 DEF EvsType, Handled
    <2>2. CASE UNCHANGED evs /\ half' = TRUE
      BY <1>1, <2>2 DEF EvsType
    <2> QED BY <1>8, <2>1, <2>2
  <1> QED
    BY <1>1, <1>2, <1>9, <1>10, <1>11, <1>12, <1>13, TypePartsNext DEF DiskType, PoolType, pool,
       RunType, EnqType, CallType, ProgramType, UsedType, Idlers

LEMMA CallerTypes ==
  ASSUME TypeOK, Idlers, NEW c \in Callers,
         CallerStep(c) \/ \E d \in Downloads : Calls(c, d)
  PROVE  TypeOK' /\ Idlers'
  <1>1. DiskType /\ PoolType /\ RunType /\ EnqType /\ CallType
        /\ EvsType /\ ProgramType /\ HistoryType /\ UsedType
    BY TypeParts
  <1> USE DEF Add, CancelWaited, NotFound, PublishRemoved, ResumeStored, Pause, PauseStored,
              ResumeHot, ResumeCold, Cancel
  <1>2. UNCHANGED <<disk, enq, cand, half, phase, holder, stored, gone, failed>>
    BY DEF CallerStep, Calls, requests, pool, history, program
  <1>3. call[c].d \in Downloads \cup {Nobody} /\ (call[c].pc # "idle" => call[c].d \in Downloads)
    BY <1>1 DEF CallType, CallRecord, Idlers
  <1>4. ASSUME CallerStep(c) PROVE TypeOK' /\ Idlers'
    <2>1. /\ UNCHANGED <<entry, run, used, asked>>
          /\ queued' = queued \/ (queued' = queued \cup {call[c].d} /\ call[c].pc # "idle")
          /\ toResume' = toResume \/ \E d \in Downloads : toResume' = toResume \ {d}
      BY <1>4 DEF CallerStep, pool, history, program
    <2>2. \/ UNCHANGED call
          \/ call' = [call EXCEPT ![c] = IdleCall]
          \/ \E d \in Downloads : CallTo(c, "add", d)
          \/ CallTo(c, "publish", call[c].d) /\ call[c].pc # "idle"
      BY <1>4 DEF CallerStep
    <2>3. UNCHANGED evs \/ (call[c].pc # "idle" /\ \E k \in EventKinds : Tell(Event(k, call[c].d)))
      BY <1>4 DEF CallerStep, EventKinds
    <2> HIDE DEF Add, CancelWaited, NotFound, PublishRemoved, ResumeStored, Pause, PauseStored,
                 ResumeHot, ResumeCold, Cancel
    <2>4. PoolType' /\ ProgramType'
      BY <1>1, <1>2, <1>3, <2>1 DEF PoolType, ProgramType
    <2>5. CallType' /\ Idlers'
      BY <1>1, <1>2, <1>3, <2>1, <2>2, LifecycleAssumption DEF CallType, CallRecord, CallTo, IdleCall, Idlers
    <2>6. EvsType'
      BY <1>1, <1>2, <1>3, <2>3, EventTypes, TellTypes DEF EvsType
    <2> QED
      BY <1>1, <1>2, <2>1, <2>4, <2>5, <2>6, TypePartsNext DEF disk, DiskType, RunType, EnqType,
         HistoryType, UsedType
  <1>5. ASSUME NEW d \in Downloads, Calls(c, d) PROVE TypeOK' /\ Idlers'
    <2>1. /\ UNCHANGED <<toResume>> /\ Use("calls")
          /\ queued' = queued \/ queued' = queued \ {d}
          /\ asked' = asked \/ asked' = asked \cup {d}
          /\ entry' = entry \/ \E x \in {"none", "pausing"} : entry' = [entry EXCEPT ![d] = x]
      BY <1>5 DEF Calls, pool, history, program
    <2>2. UNCHANGED run \/ \E x \in {"pause", "cancel", run[holder[d]].stop} :
                               run' = [run EXCEPT ![holder[d]].stop = x]
      BY <1>5 DEF Calls
    <2>3. UNCHANGED call \/ \E l \in {"add", "wait", "look", "publish"} : CallTo(c, l, d)
      BY <1>5 DEF Calls, requests
    <2>4. UNCHANGED evs \/ Tell(Event("pausedRow", d))
      BY <1>5 DEF Calls
    <2> HIDE DEF Add, CancelWaited, NotFound, PublishRemoved, ResumeStored, Pause, PauseStored,
                 ResumeHot, ResumeCold, Cancel
    <2>5. PoolType' /\ ProgramType' /\ HistoryType' /\ UsedType'
      BY <1>1, <1>2, <2>1, UseTypes DEF PoolType, ProgramType, HistoryType
    <2>6. RunType' /\ \A w \in Workers : run'[w].d = run[w].d /\ run'[w].pc = run[w].pc
      BY <1>1, <2>2 DEF RunType, RunRecord
    <2>7. CallType' /\ Idlers'
      BY <1>1, <2>3, <2>6, LifecycleAssumption DEF CallType, CallRecord, CallTo, Idlers
    <2>8. EvsType'
      BY <1>1, <1>2, <2>4, EventTypes, TellTypes DEF EvsType, EventKinds
    <2> QED
      BY <1>1, <1>2, <2>5, <2>6, <2>7, <2>8, TypePartsNext DEF disk, DiskType, EnqType
  <1> QED
    BY <1>4, <1>5

LEMMA ProgramTypes ==
  ASSUME TypeOK, Idlers, Shutdown \/ CloseInput \/ Exit \/ Kill \/ Start
  PROVE  TypeOK' /\ Idlers'
  <1>1. DiskType /\ PoolType /\ RunType /\ EnqType /\ CallType
        /\ EvsType /\ ProgramType /\ HistoryType /\ UsedType
    BY TypeParts
  <1>2. CASE Shutdown
    <2>1. PoolType'
      BY <1>1, <1>2 DEF Shutdown, PoolType
    <2>2. \A w \in Workers : run'[w] \in RunRecord /\ run'[w].d = run[w].d /\ run'[w].pc = run[w].pc
      <3> SUFFICES ASSUME NEW w \in Workers
                   PROVE  run'[w] \in RunRecord /\ run'[w].d = run[w].d /\ run'[w].pc = run[w].pc
        OBVIOUS
      <3>1. run'[w] = run[w] \/ run'[w] = [run[w] EXCEPT !.stop = "pause"]
        BY <1>2 DEF Shutdown
      <3>2. run[w] \in RunRecord
        BY <1>1 DEF RunType
      <3> QED BY <3>1, <3>2 DEF RunRecord
    <2>3. RunType' /\ Idlers'
      <3>1. run' = [w \in Workers |-> run'[w]]
        BY <1>2 DEF Shutdown
      <3> QED BY <1>2, <2>2, <3>1 DEF RunType, Shutdown, requests, Idlers
    <2>4. UsedType' /\ ProgramType'
      BY <1>1, <1>2, UseTypes DEF Shutdown, ProgramType
    <2> QED
      BY <1>1, <1>2, <2>1, <2>3, <2>4, TypePartsNext DEF Shutdown, disk, requests, history, DiskType,
         EnqType, CallType, EvsType, HistoryType
  <1>3. CASE CloseInput
    <2>1. ProgramType'
      BY <1>1, <1>3 DEF CloseInput, ProgramType
    <2> QED
      BY <1>1, <1>3, <2>1, TypePartsNext DEF CloseInput, disk, pool, requests, history, DiskType,
         PoolType, RunType, EnqType, CallType, EvsType, HistoryType, UsedType, Idlers
  <1>4. CASE Exit \/ Kill
    <2>1. Gone /\ (UNCHANGED used \/ Use("stops"))
      BY <1>4 DEF Exit, Kill
    <2>2. UsedType'
      BY <1>1, <2>1, UseTypes DEF UsedType
    <2>3. PoolType' /\ ProgramType' /\ DiskType' /\ HistoryType'
      BY <1>1, <2>1 DEF Gone, PoolType, ProgramType, disk, history, DiskType, HistoryType
    <2>4. IdleRun \in RunRecord /\ IdleCall \in CallRecord /\ IdleRun.pc = "idle" /\ IdleCall.pc = "idle"
      BY DEF IdleRun, IdleCall, RunRecord, CallRecord
    <2>5. RunType' /\ CallType' /\ Idlers'
      BY <2>1, <2>4 DEF Gone, RunType, CallType, Idlers
    <2>6. EnqType'
      BY <1>1, <2>1 DEF Gone, EnqType
    <2>7. EvsType'
      BY <2>1, EmptySeq DEF Gone, EvsType
    <2> QED BY <2>2, <2>3, <2>5, <2>6, <2>7, TypePartsNext
  <1>5. CASE Start
    <2> DEFINE r == IF Integrity THEN Validated(Normalized) ELSE row
    <2>1. /\ row' = r /\ toResume' \subseteq Downloads /\ phase' = "up"
          /\ surge' = IF Integrity THEN KnownFiles(Normalized) ELSE surge
          /\ UNCHANGED <<final, dest, pool, run, requests, evs, half, history, used>>
      BY <1>5 DEF Start
    <2>2. Normalized \in [Downloads -> Statuses]
      BY <1>1 DEF Normalized, DiskType, Statuses
    <2>3. Validated(Normalized) \in [Downloads -> Statuses]
      BY <2>2 DEF Validated, Statuses
    <2>4. KnownFiles(Normalized) \in [Names -> Downloads \cup {Nobody}]
      BY <1>1 DEF KnownFiles, DiskType
    <2>5. r \in [Downloads -> Statuses]
      BY <1>1, <2>3 DEF DiskType
    <2> HIDE DEF r
    <2>6. DiskType' /\ ProgramType'
      BY <1>1, <2>1, <2>4, <2>5 DEF DiskType, ProgramType
    <2> QED
      BY <1>1, <2>1, <2>6, TypePartsNext DEF pool, requests, history, PoolType, RunType, EnqType,
         CallType, EvsType, HistoryType, UsedType, Idlers
  <1> QED BY <1>2, <1>3, <1>4, <1>5

LEMMA InitTypes == Init => TypeOK /\ Idlers
  <1> SUFFICES ASSUME Init PROVE TypeOK /\ Idlers
    OBVIOUS
  <1>1. IdleRun \in RunRecord /\ IdleCall \in CallRecord /\ IdleRun.pc = "idle" /\ IdleCall.pc = "idle"
    BY DEF IdleRun, IdleCall, RunRecord, CallRecord
  <1>2. RunType /\ CallType /\ Idlers
    BY <1>1 DEF Init, RunType, CallType, Idlers
  <1>3. DiskType /\ PoolType /\ EnqType
    BY DEF Init, DiskType, PoolType, EnqType, Statuses
  <1>4. EvsType /\ ProgramType /\ HistoryType /\ UsedType
    <2>1. EvsType
      BY EmptySeq DEF Init, EvsType
    <2> QED BY <2>1 DEF Init, ProgramType, HistoryType, UsedType, Unused
  <1> QED BY <1>2, <1>3, <1>4, TypeParts

LEMMA StepTypes ==
  ASSUME TypeOK, Idlers, [Next]_vars
  PROVE  TypeOK' /\ Idlers'
  <1>1. CASE UNCHANGED vars
    BY <1>1, TypeParts, TypePartsNext DEF vars, disk, pool, requests, program, history, DiskType,
       PoolType, RunType, EnqType, CallType, EvsType, ProgramType, HistoryType, UsedType, Idlers
  <1>2. CASE Next
    BY <1>2, EnqueueTypes, AbortTypes, WorkerTypes, EventStepTypes, CallerTypes, ProgramTypes DEF Next
  <1> QED BY <1>1, <1>2

(* The state is well typed whatever races happen.                          *)
THEOREM LifecycleTypes == Spec => []TypeOK
  <1>1. Init => TypeOK /\ Idlers
    BY InitTypes
  <1>2. TypeOK /\ Idlers /\ [Next]_vars => TypeOK' /\ Idlers'
    BY StepTypes
  <1> QED BY <1>1, <1>2, PTL DEF Spec

-----------------------------------------------------------------------------
(* The rest of the invariant, for steps that do something to one download. *)
Rest == Places /\ EndsLast /\ Halves /\ (phase = "down" => Nothing)

LEMMA OneStep ==
  ASSUME WorkInv, NEW d \in Downloads, \A e \in Downloads \ {d} : Same(e), At(d)',
         UNCHANGED phase, phase # "down", EndsLast', Halves'
  PROVE  Rest'
  <1>1. ASSUME NEW e \in Downloads PROVE At(e)'
    <2>1. CASE e = d
      BY <2>1
    <2>2. CASE e # d
      BY <2>2, OthersStay DEF WorkInv, Places
    <2> QED BY <2>1, <2>2
  <1> QED BY <1>1 DEF Rest, Places

LEMMA SilentStays ==
  ASSUME WorkInv, UNCHANGED <<evs, half, gone>>
  PROVE  EndsLast' /\ Halves'
  BY DEF WorkInv, EndsLast, Halves, Pending

LEMMA TellStays ==
  ASSUME WorkInv, UNCHANGED <<half, gone>>, NEW e \in EventType, Tell(e), e.d \notin gone,
         Ended(e.d) => e.kind \in Removals /\ ~Removed(e.d)
  PROVE  EndsLast' /\ Halves'
  <1>1. EndsLast'
    BY TellKeepsLast DEF WorkInv
  <1>2. evs' # <<>> /\ (evs # <<>> => Head(evs') = Head(evs))
    BY TellAppends DEF WorkInv
  <1>3. ASSUME NEW d \in gone, Pending(d)'
        PROVE  half /\ Head(evs').d = d /\ Head(evs').kind \in Removals
    <2>1. d \in Downloads /\ e.d # d
      BY DEF WorkInv, TypeOK
    <2>2. Pending(d)
      BY <1>3, <2>1, TellKeepsOthers DEF WorkInv, SameEvents
    <2>3. half => evs # <<>>
      BY DEF WorkInv, Halves
    <2> QED BY <1>2, <2>2, <2>3 DEF WorkInv, Halves
  <1>4. half => evs # <<>> /\ Head(evs).kind \in Ends \ {"error"}
                  /\ (Head(evs).kind \in Removals => Head(evs).d \in gone)
    BY DEF WorkInv, Halves
  <1> QED BY <1>1, <1>2, <1>3, <1>4 DEF Halves

-----------------------------------------------------------------------------
(* The steps of an enqueue.                                                *)
LEMMA NamingEffect ==
  ASSUME TypeOK, NEW d \in Downloads, Request(d) \/ LookForFinal(d) \/ LookForSurge(d) \/ Reserve(d)
  PROVE  /\ enq[d] \in Early /\ enq'[d] \in (Early \cup {"dispatch"}) \ {"new"}
         /\ UNCHANGED <<final, row, pool, run, call, evs, half, program, history, used>>
         /\ \A e \in Downloads \ {d} : Same(e)
  <1> USE DEF Request, LookForFinal, LookForSurge, Reserve, NextCandidate, EnqTo
  <1>1. /\ enq \in [Downloads -> {"new", "final?", "surge?", "reserve", "dispatch", "publish",
                                  "done", "aborted"}]
        /\ cand \in [Downloads -> Names \cup {NoName}] /\ dest \in [Downloads -> Names \cup {NoName}]
    BY DEF TypeOK
  <1>2. UNCHANGED <<final, row, pool, run, call, evs, half, program, history, used>>
    BY DEF disk
  <1>3. /\ enq[d] \in Early
        /\ \E l \in (Early \cup {"dispatch"}) \ {"new"} : enq' = [enq EXCEPT ![d] = l]
    BY DEF Early
  <1>4. /\ UNCHANGED cand \/ \E n : cand' = [cand EXCEPT ![d] = n]
        /\ UNCHANGED dest \/ \E n : dest' = [dest EXCEPT ![d] = n]
    BY DEF disk
  <1>5. ASSUME NEW e \in Downloads \ {d} PROVE Same(e)
    <2>1. SameEvents(e)
      BY <1>2, SilentKeepsEvents
    <2>2. enq'[e] = enq[e] /\ cand'[e] = cand[e] /\ dest'[e] = dest[e]
      BY <1>1, <1>3, <1>4
    <2> QED
      BY <1>2, <2>1, <2>2 DEF Same, SameHistory, SameState, SameRuns, SameCalls, pool, program, history
  <1>6. enq'[d] \in (Early \cup {"dispatch"}) \ {"new"}
    BY <1>1, <1>3
  <1> QED BY <1>2, <1>3, <1>5, <1>6

LEMMA NamingStep ==
  ASSUME WorkInv, phase # "down", NEW d \in Downloads,
         Request(d) \/ LookForFinal(d) \/ LookForSurge(d) \/ Reserve(d)
  PROVE  Rest' /\ OnlyAt(d)
  <1>1. /\ enq[d] \in Early /\ enq'[d] \in Early \cup {"dispatch"}
        /\ UNCHANGED <<row, pool, run, call, evs, half, program, history>>
        /\ \A e \in Downloads \ {d} : Same(e)
    BY NamingEffect DEF WorkInv
  <1>2. At(d)'
    <2>1. At(d)
      BY DEF WorkInv, Places
    <2>2. SameEvents(d)
      BY <1>1, SilentKeepsEvents
    <2>3. /\ On(d)' <=> On(d)
          /\ Called(d)' <=> Called(d)
          /\ \A l : CalledTo(d, l)' <=> CalledTo(d, l)
      BY <1>1 DEF On, Called, CalledTo
    <2>4. Engaged(d)' <=> Engaged(d)
      BY <1>1, <2>3 DEF Engaged, pool, program
    <2>5. ~Engaged(d) /\ ~Called(d)
      BY <1>1, <2>1 DEF At, NewOf
    <2>6. (\A w \in Workers : run'[w].d # d) /\ (\A c \in Callers : call'[c].d # d)
      BY <2>3, <2>4, <2>5 DEF Engaged, On, Called
    <2>7. PlaceOf(d)' /\ EndOf(d)'
      BY <1>1, <2>1, <2>2, <2>3, <2>4 DEF At, PlaceOf, EndOf, SameEvents, pool, program, history
    <2>8. NewOf(d)'
      BY <1>1, <2>1, <2>2, <2>3, <2>4 DEF At, NewOf, SameEvents, program, history, Early
    <2> QED BY <2>6, <2>7, <2>8 DEF At
  <1> QED BY <1>1, <1>2, OneStep, SilentStays DEF program, history, OnlyAt

LEMMA DispatchStep ==
  ASSUME WorkInv, phase # "down", NEW d \in Downloads, Dispatch(d)
  PROVE  Rest' /\ OnlyAt(d)
  <1>1. /\ enq[d] = "dispatch" /\ queued' = queued \cup {d} /\ enq' = [enq EXCEPT ![d] = "publish"]
        /\ UNCHANGED <<disk, entry, holder, run, cand, call, evs, half, program, history, used>>
    BY DEF Dispatch, EnqTo
  <1>2. enq'[d] = "publish" /\ \A e \in Downloads \ {d} : enq'[e] = enq[e]
    BY <1>1 DEF WorkInv, TypeOK
  <1>3. ASSUME NEW e \in Downloads \ {d} PROVE Same(e)
    <2>1. SameEvents(e)
      BY <1>1, SilentKeepsEvents
    <2> QED
      BY <1>1, <1>2, <2>1 DEF Same, SameHistory, SameState, SameRuns, SameCalls, disk, program, history
  <1>4. At(d)'
    <2>1. SameEvents(d)
      BY <1>1, SilentKeepsEvents
    <2>2. /\ On(d)' <=> On(d)
          /\ Called(d)' <=> Called(d)
          /\ \A l : CalledTo(d, l)' <=> CalledTo(d, l)
      BY <1>1 DEF On, Called, CalledTo
    <2>3. /\ row[d] = "none" /\ ~Engaged(d) /\ ~Pending(d) /\ ~Called(d) /\ ~Ended(d)
          /\ d \notin asked \cup gone \cup toResume
      BY <1>1 DEF WorkInv, Places, At, NewOf
    <2>4. (\A w \in Workers : run'[w].d # d) /\ (\A c \in Callers : call'[c].d # d)
      BY <2>2, <2>3 DEF Engaged, On, Called
    <2>5. entry'[d] = "none" /\ ~On(d)' /\ row'[d] = "none" /\ Engaged(d)'
      BY <1>1, <2>2, <2>3 DEF Engaged, disk
    <2>6. PlaceOf(d)'
      BY <1>1, <2>3, <2>5 DEF PlaceOf, program
    <2>7. EndOf(d)'
      BY <1>1, <2>1, <2>3, <2>5 DEF EndOf, SameEvents, history, WorkInv, Places, At
    <2>8. NewOf(d)'
      BY <1>1, <1>2, <2>1, <2>2, <2>3, <2>5 DEF NewOf, Early, SameEvents, history, program
    <2> QED BY <2>4, <2>6, <2>7, <2>8 DEF At
  <1> QED BY <1>1, <1>3, <1>4, OneStep, SilentStays DEF program, history, OnlyAt

LEMMA PublishQueuedStep ==
  ASSUME WorkInv, phase # "down", NEW d \in Downloads, PublishQueued(d)
  PROVE  Rest' /\ OnlyAt(d)
  <1>1. /\ enq[d] = "publish" /\ Tell(Event("queued", d)) /\ enq' = [enq EXCEPT ![d] = "done"]
        /\ UNCHANGED <<disk, pool, run, cand, call, half, program, history, used>>
    BY DEF PublishQueued, EnqTo
  <1>2. enq'[d] = "done" /\ \A e \in Downloads \ {d} : enq'[e] = enq[e]
    BY <1>1 DEF WorkInv, TypeOK
  <1>3. /\ Event("queued", d) \in EventType /\ Event("queued", d).d = d
        /\ Event("queued", d).kind = "queued"
    BY EventTypes DEF EventKinds, WorkInv, Event
  <1>4. /\ Ended(d)' <=> Ended(d)
        /\ Removed(d)' <=> Removed(d)
    BY <1>1, <1>3, TellTells DEF WorkInv, Ends, Removals
  <1>5. ASSUME NEW e \in Downloads \ {d} PROVE Same(e)
    <2>1. SameEvents(e)
      BY <1>1, <1>3, TellKeepsOthers DEF WorkInv
    <2> QED
      BY <1>1, <1>2, <2>1 DEF Same, SameHistory, SameState, SameRuns, SameCalls, disk, pool, program, history
  <1>6. At(d)
    BY DEF WorkInv, Places
  <1>7. ~Called(d) /\ ~Ended(d) /\ d \notin gone \cup toResume /\ row[d] # "completed"
    BY <1>1, <1>6 DEF At, NewOf
  <1>8. At(d)'
    <2>1. /\ On(d)' <=> On(d)
          /\ Called(d)' <=> Called(d)
          /\ \A l : CalledTo(d, l)' <=> CalledTo(d, l)
      BY <1>1 DEF On, Called, CalledTo
    <2>2. \A w \in Workers : run'[w].d = d => RunOf(w, d)'
      BY <1>1, <1>6, <2>1 DEF At, RunOf, pool
    <2>3. \A c \in Callers : call'[c].d # d
      BY <1>1, <1>7 DEF Called
    <2>4. PlaceOf(d)'
      BY <1>1, <1>6, <1>7, <2>1 DEF At, PlaceOf, pool, program
    <2>5. NewOf(d)'
      BY <1>2 DEF NewOf, Early
    <2>6. EndOf(d)'
      BY <1>1, <1>4, <1>6, <1>7, <2>1 DEF At, EndOf, Ended, Removed, Removals, Ends, disk, history
    <2> QED BY <2>2, <2>3, <2>4, <2>5, <2>6 DEF At
  <1> QED BY <1>1, <1>3, <1>5, <1>7, <1>8, OneStep, TellStays DEF program, history, OnlyAt

LEMMA AbortStep ==
  ASSUME WorkInv, phase # "down", NEW d \in Downloads, Abort(d)
  PROVE  Rest' /\ OnlyAt(d)
  <1> DEFINE x == [kind |-> "error", d |-> d, name |-> InferredName(d)]
  <1>1. /\ enq[d] \in Early /\ row' = [row EXCEPT ![d] = "error"] /\ Tell(x)
        /\ enq' = [enq EXCEPT ![d] = "aborted"] /\ dest' = [dest EXCEPT ![d] = InferredName(d)]
        /\ failed' = failed \cup {d}
        /\ UNCHANGED <<pool, run, cand, call, half, program, stored, asked, gone>>
    BY DEF Abort, EnqTo, Early
  <1>2. /\ enq'[d] = "aborted" /\ row'[d] = "error"
        /\ \A e \in Downloads \ {d} : enq'[e] = enq[e] /\ row'[e] = row[e] /\ dest'[e] = dest[e]
    BY <1>1 DEF WorkInv, TypeOK
  <1>3. x \in EventType /\ x.d = d /\ x.kind = "error"
    BY LifecycleAssumption DEF EventType, EventKinds, InferredName
  <1> HIDE DEF x
  <1>4. Removed(d)' <=> Removed(d)
    BY <1>1, <1>3, TellTells DEF WorkInv, Removals
  <1>5. ASSUME NEW e \in Downloads \ {d} PROVE Same(e)
    <2>1. SameEvents(e)
      BY <1>1, <1>3, TellKeepsOthers DEF WorkInv
    <2> QED
      BY <1>1, <1>2, <2>1 DEF Same, SameHistory, SameState, SameRuns, SameCalls, pool, program
  <1>6. ~Called(d) /\ ~Engaged(d) /\ ~Ended(d) /\ d \notin gone \cup toResume
    BY <1>1 DEF WorkInv, Places, At, NewOf
  <1>7. At(d)'
    <2>1. /\ On(d)' <=> On(d)
          /\ Called(d)' <=> Called(d)
          /\ \A l : CalledTo(d, l)' <=> CalledTo(d, l)
      BY <1>1 DEF On, Called, CalledTo
    <2>2. ~Engaged(d)'
      BY <1>1, <1>6, <2>1 DEF Engaged, pool, program
    <2>3. (\A w \in Workers : run'[w].d # d) /\ (\A c \in Callers : call'[c].d # d)
      BY <1>6, <2>1, <2>2 DEF Engaged, On, Called
    <2>4. PlaceOf(d)'
      BY <2>2 DEF PlaceOf, Engaged
    <2>5. NewOf(d)'
      BY <1>2 DEF NewOf, Early
    <2>6. ~Removed(d)
      BY <1>6 DEF Ended, Removed, Ends, Removals
    <2>7. EndOf(d)'
      BY <1>1, <1>2, <1>4, <1>6, <2>1, <2>2, <2>6 DEF EndOf
    <2> QED BY <2>3, <2>4, <2>5, <2>7 DEF At
  <1> QED BY <1>1, <1>3, <1>5, <1>6, <1>7, OneStep, TellStays DEF program, OnlyAt

-----------------------------------------------------------------------------
(* The steps of a worker.                                                  *)
LEMMA OneRunOf ==
  ASSUME WorkInv, NEW w \in Workers, run[w].pc # "idle", NEW d, d = run[w].d
  PROVE  /\ d \in Downloads /\ RunOf(w, d) /\ At(d) /\ Engaged(d)
         /\ \A v \in Workers \ {w} : run[v].d # d
         /\ d \notin queued \cup toResume \cup gone /\ entry[d] # "paused" /\ ~Ended(d)
         /\ row[d] # "completed" /\ enq[d] \notin Early \cup {"dispatch"}
         /\ \A c \in Callers : call[c].d = d => call[c].pc = "wait"
  <1>1. d \in Downloads
    BY DEF WorkInv, TypeOK, Idlers
  <1>2. At(d) /\ RunOf(w, d) /\ On(d) /\ Engaged(d)
    BY <1>1 DEF WorkInv, Places, At, On, Engaged
  <1>3. ASSUME NEW v \in Workers \ {w} PROVE run[v].d # d
    BY <1>2 DEF At, RunOf
  <1>4. \A c \in Callers : call[c].d = d => call[c].pc = "wait"
    BY <1>2 DEF At, CallOf
  <1>5. /\ d \notin queued \cup toResume \cup gone /\ entry[d] # "paused" /\ ~Ended(d)
        /\ row[d] # "completed" /\ enq[d] \notin Early \cup {"dispatch"}
    BY <1>2 DEF At, PlaceOf, EndOf, NewOf
  <1> QED BY <1>1, <1>2, <1>3, <1>4, <1>5

LEMMA TransferStep ==
  ASSUME WorkInv, phase # "down", NEW w \in Workers,
         OpenWorkingFile(w) \/ Transferred(w) \/ TransferFails(w) \/ TransferStops(w)
  PROVE  Rest' /\ OnlyAt(run[w].d)
  <1>0. PICK d : d = run[w].d
    OBVIOUS
  <1>1. /\ run[w].pc \in {"open", "transfer"}
        /\ \E l \in {"transfer", "complete", "error", "stopped"} : RunTo(w, l)
        /\ UNCHANGED <<disk, pool, requests, evs, half, program, stored, asked, gone>>
        /\ failed' = failed \/ failed' = failed \cup {d}
    BY <1>0 DEF OpenWorkingFile, Transferred, TransferFails, TransferStops, history
  <1>2. /\ d \in Downloads /\ RunOf(w, d) /\ At(d) /\ Engaged(d)
        /\ \A v \in Workers \ {w} : run[v].d # d
        /\ enq[d] \notin Early \cup {"dispatch"}
    BY <1>0, <1>1, OneRunOf
  <1>3. /\ run'[w].d = d /\ run'[w].stop = run[w].stop /\ run'[w].pc # "idle"
        /\ \A v \in Workers \ {w} : run'[v] = run[v]
    BY <1>0, <1>1 DEF RunTo, WorkInv, TypeOK
  <1>4. ASSUME NEW e \in Downloads \ {d} PROVE Same(e)
    <2>1. SameEvents(e)
      BY <1>1, SilentKeepsEvents
    <2>2. SameRuns(e)
      BY <1>0, <1>3 DEF SameRuns
    <2> QED
      BY <1>1, <2>1, <2>2 DEF Same, SameHistory, SameState, SameCalls, disk, pool, requests, program
  <1>5. At(d)'
    <2>1. SameEvents(d)
      BY <1>1, <1>2, SilentKeepsEvents
    <2>2. /\ On(d)' <=> On(d)
          /\ Called(d)' <=> Called(d)
          /\ \A l : CalledTo(d, l)' <=> CalledTo(d, l)
      BY <1>0, <1>1, <1>3 DEF On, Called, CalledTo, requests
    <2>3. Engaged(d)' <=> Engaged(d)
      BY <1>1, <2>2 DEF Engaged, pool, program
    <2>4. ASSUME NEW v \in Workers, run'[v].d = d PROVE RunOf(v, d)'
      <3>1. v = w
        BY <1>2, <1>3, <2>4
      <3> QED BY <1>1, <1>2, <1>3, <2>2, <3>1 DEF RunOf, pool
    <2>5. ASSUME NEW c \in Callers, call'[c].d = d PROVE CallOf(c, d)'
      BY <1>1, <1>2, <2>1, <2>2, <2>5 DEF At, CallOf, SameEvents, pool, requests, program
    <2>6. PlaceOf(d)'
      BY <1>1, <1>2, <1>3, <2>1, <2>2 DEF At, PlaceOf, SameEvents, pool, disk, program
    <2>7. NewOf(d)'
      BY <1>1, <1>2, <2>1, <2>2, <2>3 DEF At, NewOf, Early, SameEvents, disk, requests, program
    <2>8. EndOf(d)'
      BY <1>1, <1>2, <2>1, <2>2, <2>3 DEF At, EndOf, SameEvents, disk
    <2> QED BY <2>4, <2>5, <2>6, <2>7, <2>8 DEF At
  <1> QED BY <1>0, <1>1, <1>2, <1>4, <1>5, OneStep, SilentStays DEF program, OnlyAt

LEMMA TakeStep ==
  ASSUME WorkInv, phase # "down", NEW w \in Workers, NEW d \in Downloads, Take(w, d)
  PROVE  Rest' /\ OnlyAt(d)
  <1>1. /\ run[w].pc = "idle" /\ d \in queued
        /\ queued' = queued \ {d} /\ entry' = [entry EXCEPT ![d] = "active"]
        /\ holder' = [holder EXCEPT ![d] = w]
        /\ run' = [run EXCEPT ![w] = [pc |-> "open", d |-> d, stop |-> "no"]]
        /\ Tell(Event("started", d))
        /\ UNCHANGED <<disk, requests, half, program, history>>
    BY DEF Take
  <1>2. /\ entry'[d] = "active" /\ holder'[d] = w
        /\ \A e \in Downloads \ {d} : entry'[e] = entry[e] /\ holder'[e] = holder[e]
    BY <1>1 DEF WorkInv, TypeOK
  <1>3. /\ run'[w] = [pc |-> "open", d |-> d, stop |-> "no"]
        /\ \A v \in Workers \ {w} : run'[v] = run[v]
    BY <1>1 DEF WorkInv, TypeOK
  <1>4. /\ Event("started", d) \in EventType /\ Event("started", d).d = d
        /\ Event("started", d).kind = "started"
    BY EventTypes DEF EventKinds, WorkInv, Event
  <1>5. /\ Ended(d)' <=> Ended(d)
        /\ Removed(d)' <=> Removed(d)
    BY <1>1, <1>4, TellTells DEF WorkInv, Ends, Removals
  <1>6. ASSUME NEW e \in Downloads PROVE run[w].d # e
    BY <1>1 DEF WorkInv, Places, At, RunOf
  <1>7. ASSUME NEW e \in Downloads \ {d} PROVE Same(e)
    <2>1. SameEvents(e)
      BY <1>1, <1>4, TellKeepsOthers DEF WorkInv
    <2>2. SameRuns(e)
      BY <1>3, <1>6 DEF SameRuns
    <2> QED
      BY <1>1, <1>2, <2>1, <2>2 DEF Same, SameHistory, SameState, SameCalls, disk, requests, program, history
  <1>8. At(d) /\ Engaged(d)
    BY <1>1 DEF WorkInv, Places, Engaged
  <1>9. /\ ~On(d) /\ d \notin toResume \cup gone /\ ~Ended(d) /\ row[d] # "completed"
        /\ \A c \in Callers : call[c].d # d
        /\ enq[d] \notin Early \cup {"dispatch"}
    BY <1>1, <1>8 DEF At, PlaceOf, EndOf, CallOf, NewOf
  <1>10. At(d)'
    <2>1. \A c \in Callers : call'[c].d # d
      BY <1>1, <1>9 DEF requests
    <2>2. ASSUME NEW v \in Workers, run'[v].d = d PROVE RunOf(v, d)'
      <3>1. v = w
        BY <1>3, <1>9, <2>2 DEF On
      <3> QED BY <1>2, <1>3, <3>1 DEF RunOf
    <2>3. PlaceOf(d)'
      BY <1>1, <1>2, <1>3, <1>9 DEF PlaceOf, program
    <2>4. Engaged(d)'
      BY <1>2 DEF Engaged
    <2>5. NewOf(d)'
      BY <1>1, <1>5, <1>8, <1>9, <2>1, <2>4 DEF At, NewOf, Early, Called, requests, disk, history, program
    <2>6. ~Removed(d)
      BY <1>9 DEF Ended, Removed, Ends, Removals
    <2>7. EndOf(d)'
      BY <1>1, <1>5, <1>9, <2>6 DEF EndOf, disk, history
    <2> QED BY <2>1, <2>2, <2>3, <2>5, <2>7 DEF At
  <1> QED BY <1>1, <1>4, <1>7, <1>9, <1>10, OneStep, TellStays DEF program, history, OnlyAt

(* A worker is done with its download.                                     *)
LEMMA FinishEffect ==
  ASSUME WorkInv, Races = {}, NEW w \in Workers, Finish(w)
  PROVE  LET d == run[w].d IN
         /\ run[w].pc \in {"complete", "error", "stopped"} /\ enq[d] # "publish"
         /\ run' = [run EXCEPT ![w] = IdleRun]
         /\ entry'[d] \in {"none", "paused"}
         /\ entry'[d] = "paused" => run[w].stop = "pause"
         /\ \A e \in Downloads \ {d} : entry'[e] = entry[e]
         /\ UNCHANGED <<disk, queued, holder, requests, half, program, history>>
         /\ \/ UNCHANGED evs
            \/ \E k \in {"paused", "complete", "error"} :
                 /\ Tell(Event(k, d))
                 /\ run[w].stop = "pause" <=> k = "paused"
                 /\ k # "paused" => k = run[w].pc
         /\ CalledTo(d, "wait") => entry'[d] = "none"
  <1> DEFINE d == run[w].d
  <1>1. /\ run[w].pc \in {"complete", "error", "stopped"} /\ enq[d] # "publish"
        /\ UNCHANGED evs \/ \E k \in Outcome(w) : Tell(Event(k, d))
        /\ entry' = [entry EXCEPT ![d] =
             IF run[w].stop # "pause" THEN "none"
             ELSE IF holder[d] = w /\ @ = "pausing" THEN "paused" ELSE @]
        /\ run' = [run EXCEPT ![w] = IdleRun]
        /\ UNCHANGED <<disk, queued, holder, requests, half, program, history>>
    BY DEF Finish
  <1>2. d \in Downloads /\ RunOf(w, d) /\ At(d)
    BY <1>1, OneRunOf
  <1>3. entry \in [Downloads -> {"none", "active", "pausing", "paused"}]
    BY DEF WorkInv, TypeOK
  <1>4. /\ entry'[d] = IF run[w].stop # "pause" THEN "none"
                       ELSE IF holder[d] = w /\ entry[d] = "pausing" THEN "paused" ELSE entry[d]
        /\ \A e \in Downloads \ {d} : entry'[e] = entry[e]
    BY <1>1, <1>2, <1>3
  <1>5. CalledTo(d, "wait") => entry[d] = "none"
    BY <1>2 DEF CalledTo, At, CallOf
  <1>6. Outcome(w) \subseteq {"paused", "complete", "error"}
        /\ \A k \in Outcome(w) : /\ run[w].stop = "pause" <=> k = "paused"
                                 /\ k # "paused" => k = run[w].pc
    BY <1>1 DEF Outcome
  <1> HIDE DEF d
  <1>7. /\ entry'[d] \in {"none", "paused"}
        /\ entry'[d] = "paused" => run[w].stop = "pause"
        /\ CalledTo(d, "wait") => entry'[d] = "none"
    BY <1>2, <1>4, <1>5 DEF RunOf
  <1>8. \/ UNCHANGED evs
        \/ \E k \in {"paused", "complete", "error"} :
             /\ Tell(Event(k, d))
             /\ run[w].stop = "pause" <=> k = "paused"
             /\ k # "paused" => k = run[w].pc
    BY <1>1, <1>6
  <1> QED BY <1>1, <1>4, <1>7, <1>8 DEF d

LEMMA FinishStep ==
  ASSUME WorkInv, Races = {}, phase # "down", NEW w \in Workers, Finish(w)
  PROVE  Rest' /\ OnlyAt(run[w].d)
  <1>0. PICK d : d = run[w].d
    OBVIOUS
  <1>1. /\ run[w].pc \in {"complete", "error", "stopped"} /\ enq[d] # "publish"
        /\ run' = [run EXCEPT ![w] = IdleRun]
        /\ entry'[d] \in {"none", "paused"}
        /\ \A e \in Downloads \ {d} : entry'[e] = entry[e]
        /\ UNCHANGED <<disk, queued, holder, requests, half, program, history>>
    BY <1>0, FinishEffect
  <1>2. /\ \/ UNCHANGED evs
           \/ \E k \in {"paused", "complete", "error"} :
                /\ Tell(Event(k, d))
                /\ run[w].stop = "pause" <=> k = "paused"
        /\ CalledTo(d, "wait") => entry'[d] = "none"
        /\ entry'[d] = "paused" => run[w].stop = "pause"
    BY <1>0, FinishEffect
  <1>3. /\ d \in Downloads /\ RunOf(w, d) /\ At(d)
        /\ \A v \in Workers \ {w} : run[v].d # d
        /\ d \notin queued \cup toResume \cup gone /\ ~Ended(d)
        /\ row[d] # "completed" /\ enq[d] \notin Early \cup {"dispatch"}
        /\ \A c \in Callers : call[c].d = d => call[c].pc = "wait"
    BY <1>0, <1>1, OneRunOf
  <1>4. run'[w].d = Nobody /\ \A v \in Workers \ {w} : run'[v] = run[v]
    BY <1>1 DEF IdleRun, WorkInv, TypeOK
  <1>5. d # Nobody
    BY <1>3, LifecycleAssumption
  <1>6. \A k \in {"paused", "complete", "error"} :
          Event(k, d) \in EventType /\ Event(k, d).d = d /\ Event(k, d).kind = k
    BY <1>3, EventTypes DEF EventKinds, WorkInv, Event
  <1>7. /\ Removed(d)' <=> Removed(d)
        /\ Ended(d)' => run[w].stop # "pause"
    <2>1. CASE UNCHANGED evs
      BY <1>3, <2>1, SilentKeepsEvents DEF SameEvents
    <2>2. ASSUME NEW k \in {"paused", "complete", "error"}, Tell(Event(k, d)),
                 run[w].stop = "pause" <=> k = "paused"
          PROVE  (Removed(d)' <=> Removed(d)) /\ (Ended(d)' => run[w].stop # "pause")
      BY <1>3, <1>6, <2>2, TellTells DEF WorkInv, Ends, Removals
    <2> QED BY <1>2, <2>1, <2>2
  <1>8. ASSUME NEW e \in Downloads \ {d} PROVE Same(e)
    <2>1. SameEvents(e)
      BY <1>2, <1>6, TellKeepsOthers, SilentKeepsEvents DEF WorkInv
    <2>2. SameRuns(e)
      <3>1. run[w].d # e /\ run'[w].d # e
        BY <1>0, <1>4, LifecycleAssumption
      <3> QED BY <1>4, <3>1 DEF SameRuns
    <2> QED
      BY <1>1, <2>1, <2>2 DEF Same, SameHistory, SameState, SameCalls, disk, requests, program, history
  <1>9. EndsLast' /\ Halves'
    <2>1. CASE UNCHANGED evs
      BY <1>1, <2>1, SilentStays DEF history
    <2>2. ASSUME NEW k \in {"paused", "complete", "error"}, Tell(Event(k, d))
          PROVE  EndsLast' /\ Halves'
      BY <1>1, <1>3, <1>6, <2>2, TellStays DEF history
    <2> QED BY <1>2, <2>1, <2>2
  <1>10. At(d)'
    <2>1. \A v \in Workers : run'[v].d # d
      BY <1>3, <1>4, <1>5
    <2>2. ~On(d)'
      BY <2>1 DEF On
    <2>3. /\ Called(d)' <=> Called(d)
          /\ \A l : CalledTo(d, l)' <=> CalledTo(d, l)
      BY <1>1 DEF Called, CalledTo, requests
    <2>4. ~CalledTo(d, "add")
      BY <1>3 DEF CalledTo
    <2>5. ASSUME NEW c \in Callers, call'[c].d = d PROVE CallOf(c, d)'
      <3>1. call[c].d = d /\ call[c].pc = "wait" /\ CallOf(c, d)
        BY <1>1, <1>3, <2>5 DEF requests, At
      <3>2. entry'[d] = "none"
        BY <1>2, <3>1 DEF CalledTo
      <3> QED BY <1>1, <1>7, <2>2, <3>1, <3>2 DEF CallOf, requests, program, history
    <2>6. PlaceOf(d)'
      BY <1>1, <1>3, <2>2 DEF PlaceOf, program
    <2>7. NewOf(d)'
      BY <1>1, <1>3 DEF NewOf, requests
    <2>8. Ended(d)' => ~Engaged(d)'
      BY <1>1, <1>2, <1>3, <1>7, <2>2, <2>3, <2>4 DEF Engaged, program
    <2>9. EndOf(d)'
      BY <1>1, <1>3, <1>7, <2>8 DEF At, EndOf, disk, history
    <2> QED BY <2>1, <2>5, <2>6, <2>7, <2>9 DEF At
  <1> QED BY <1>0, <1>1, <1>3, <1>8, <1>9, <1>10, OneStep DEF program, OnlyAt

-----------------------------------------------------------------------------
(* The steps of the event worker.                                          *)
LEMMA HandledStep ==
  ASSUME WorkInv, phase # "down", evs # <<>>, Handled, NEW d, d = Head(evs).d,
         UNCHANGED <<pool, run, requests, program, asked, gone>>,
         \A e \in Downloads \ {d} :
           /\ row'[e] = row[e] /\ dest'[e] = dest[e]
           /\ e \in stored' <=> e \in stored
           /\ e \in failed' <=> e \in failed,
         Head(evs).kind \in Removals => row' = row,
         row'[d] = "completed" => Head(evs).kind = "complete" \/ row[d] = "completed"
  PROVE  Rest' /\ OnlyAt(d)
  <1>1. d \in Downloads /\ Head(evs).kind \in EventKinds
    <2>1. Head(evs) \in EventType
      BY HandledTails DEF WorkInv
    <2> QED BY <2>1 DEF EventType
  <1>2. At(d)
    BY <1>1 DEF WorkInv, Places
  <1>3. /\ Pending(d)
        /\ Ended(d)' => Ended(d)
        /\ Removed(d)' => Removed(d)
        /\ OnlyRemovals(d) => OnlyRemovals(d)'
        /\ Head(evs).kind \in Ends => Ended(d) /\ OnlyRemovals(d)'
        /\ Head(evs).kind \in Removals => Removed(d) /\ ~Pending(d)'
    BY <1>1, HandledTakes DEF WorkInv
  <1>4. ASSUME NEW e \in Downloads \ {d} PROVE Same(e)
    <2>1. SameEvents(e)
      BY <1>4, HandledKeepsOthers DEF WorkInv
    <2> QED
      BY <2>1 DEF Same, SameHistory, SameState, SameRuns, SameCalls, pool, requests, program
  <1>5. EndsLast'
    BY HandledKeepsLast DEF WorkInv
  <1>6. Halves'
    <2>1. ASSUME NEW g \in gone PROVE ~Pending(g)'
      <3>0. g \in Downloads
        BY DEF WorkInv, TypeOK
      <3>1. Pending(g) => Head(evs).d = g /\ Head(evs).kind \in Removals
        BY <2>1 DEF WorkInv, Halves
      <3>2. CASE g = d
        BY <1>3, <3>1, <3>2
      <3>3. CASE g # d
        BY <1>4, <3>0, <3>1, <3>3 DEF Same, SameEvents
      <3> QED BY <3>2, <3>3
    <2> QED BY <2>1 DEF Halves, Handled
  <1>7. /\ d \notin toResume /\ enq[d] \notin Early \cup {"dispatch"}
        /\ d \in gone => Head(evs).kind \in Removals
    BY <1>2, <1>3 DEF At, PlaceOf, NewOf, WorkInv, Halves
  <1>8. At(d)'
    <2>1. /\ On(d)' <=> On(d)
          /\ Called(d)' <=> Called(d)
          /\ \A l : CalledTo(d, l)' <=> CalledTo(d, l)
      BY DEF On, Called, CalledTo, requests
    <2>2. Engaged(d)' <=> Engaged(d)
      BY <2>1 DEF Engaged, pool, program
    <2>3. \A w \in Workers : run'[w].d = d => RunOf(w, d)'
      BY <1>2, <2>1 DEF At, RunOf, pool
    <2>4. \A c \in Callers : call'[c].d = d => CallOf(c, d)'
      BY <1>2, <1>3, <2>1 DEF At, CallOf, pool, requests, program
    <2>5. PlaceOf(d)'
      BY <1>2, <1>7, <2>1 DEF At, PlaceOf, pool, program
    <2>6. NewOf(d)'
      <3>1. ASSUME enq[d] = "publish" PROVE row'[d] # "completed"
        <4>1. ~Ended(d) /\ row[d] # "completed"
          BY <1>2, <3>1 DEF At, NewOf
        <4> QED BY <1>3, <4>1 DEF Ends
      <3> QED BY <1>2, <1>3, <1>7, <2>1, <2>2, <3>1 DEF At, NewOf, requests, program
    <2>7. EndOf(d)'
      <3>1. ASSUME row'[d] = "completed" PROVE ~Engaged(d) /\ OnlyRemovals(d)'
        BY <1>2, <1>3, <3>1 DEF At, EndOf, Ends
      <3>2. ASSUME d \in gone PROVE row'[d] = "none"
        BY <1>2, <1>7, <3>2 DEF At, EndOf
      <3> QED BY <1>2, <1>3, <2>1, <2>2, <3>1, <3>2 DEF At, EndOf
    <2> QED BY <2>3, <2>4, <2>5, <2>6, <2>7 DEF At
  <1> QED BY <1>1, <1>4, <1>5, <1>6, <1>8, OneStep DEF program, OnlyAt

LEMMA StoreStep ==
  ASSUME WorkInv, phase # "down",
         \/ StoreQueued \/ StoreStarted \/ StorePaused \/ StorePausedRow
         \/ StoreCompleted \/ PromoteFails \/ StoreError \/ DeleteWorkingFile
  PROVE  Rest' /\ OnlyAt(Head(evs).d)
  <1>0. PICK d : d = Head(evs).d
    OBVIOUS
  <1>1. row \in [Downloads -> Statuses] /\ dest \in [Downloads -> Names \cup {NoName}]
    BY DEF WorkInv, TypeOK
  <1> USE DEF StoreQueued, StoreStarted, StorePaused, StorePausedRow, StoreCompleted, PromoteFails,
              StoreError, DeleteWorkingFile, HeadIs
  <1>2. /\ evs # <<>> /\ Handled
        /\ UNCHANGED <<pool, run, requests, program, asked, gone>>
    BY DEF HandlerKeeps
  <1>3. /\ row' = row \/ \E s : row' = [row EXCEPT ![d] = s]
        /\ dest' = dest \/ \E s : dest' = [dest EXCEPT ![d] = s]
        /\ stored' = stored \/ stored' = stored \cup {d}
        /\ failed' = failed \/ failed' = failed \cup {d}
    BY <1>0 DEF HandlerKeeps, SetRow
  <1>4. Head(evs).kind \in Removals => row' = row
    BY DEF Removals
  <1>5. \/ row' = row
        \/ Head(evs).kind = "complete"
        \/ \E s \in Statuses \ {"completed"} : row' = [row EXCEPT ![d] = s]
    BY <1>0 DEF SetRow, Statuses
  <1> HIDE DEF StoreQueued, StoreStarted, StorePaused, StorePausedRow, StoreCompleted, PromoteFails,
               StoreError, DeleteWorkingFile, HeadIs
  <1>6. d \in Downloads
    <2>1. Head(evs) \in EventType
      BY <1>2, HandledTails DEF WorkInv
    <2> QED BY <1>0, <2>1 DEF EventType
  <1>7. \A e \in Downloads \ {d} : /\ row'[e] = row[e] /\ dest'[e] = dest[e]
                                   /\ e \in stored' <=> e \in stored
                                   /\ e \in failed' <=> e \in failed
    BY <1>1, <1>3
  <1>8. row'[d] = "completed" => Head(evs).kind = "complete" \/ row[d] = "completed"
    BY <1>1, <1>5, <1>6
  <1> QED BY <1>0, <1>2, <1>4, <1>7, <1>8, HandledStep

(* The first of the two writes of a completion, and of a removal.          *)
LEMMA PromoteStep ==
  ASSUME WorkInv, phase # "down", Promote
  PROVE  Rest' /\ OnlyAt(Head(evs).d)
  <1>0. PICK d : d = Head(evs).d
    OBVIOUS
  <1>1. /\ evs # <<>> /\ Head(evs).kind = "complete" /\ ~half /\ half'
        /\ UNCHANGED <<row, dest, evs, stored, gone, pool, run, requests, program, asked, failed>>
    BY DEF Promote, HeadIs, HandlerKeeps
  <1>2. d \in Downloads
    <2>1. evs \in Seq(EventType)
      BY DEF WorkInv, TypeOK, EventType
    <2>2. Head(evs) \in EventType
      BY <1>1, <2>1
    <2> QED BY <1>0, <2>2 DEF EventType
  <1>3. ASSUME NEW e \in Downloads PROVE Same(e)
    <2>1. SameEvents(e)
      BY <1>1, SilentKeepsEvents
    <2> QED
      BY <1>1, <2>1 DEF Same, SameHistory, SameState, SameRuns, SameCalls, pool, requests, program
  <1>4. EndsLast' /\ Halves'
    BY <1>1 DEF WorkInv, EndsLast, Halves, Pending, Ends, Removals
  <1>5. At(d)'
    BY <1>1, <1>2, <1>3, OthersStay DEF WorkInv, Places, program
  <1> QED BY <1>0, <1>1, <1>2, <1>3, <1>4, <1>5, OneStep DEF program, OnlyAt

LEMMA DeleteRowStep ==
  ASSUME WorkInv, phase # "down", DeleteRow
  PROVE  Rest' /\ OnlyAt(Head(evs).d)
  <1>0. PICK d : d = Head(evs).d
    OBVIOUS
  <1>1. /\ evs # <<>> /\ Head(evs).kind \in Removals /\ ~half /\ half'
        /\ row' = [row EXCEPT ![d] = "none"] /\ gone' = gone \cup {d}
        /\ UNCHANGED <<dest, evs, stored, pool, run, requests, program, asked, failed>>
    BY <1>0 DEF DeleteRow, HeadIs, HandlerKeeps, SetRow, Removals
  <1>2. d \in Downloads /\ 1 \in DOMAIN evs /\ evs[1] = Head(evs)
    <2>1. evs \in Seq(EventType)
      BY DEF WorkInv, TypeOK, EventType
    <2>2. Head(evs) \in EventType /\ 1 \in DOMAIN evs /\ evs[1] = Head(evs)
      BY <1>1, <2>1
    <2> QED BY <1>0, <2>2 DEF EventType
  <1>3. Removed(d) /\ Ended(d) /\ Pending(d)
    BY <1>0, <1>1, <1>2 DEF Removed, Ended, Ends, Removals, Pending
  <1>4. row'[d] = "none" /\ \A e \in Downloads \ {d} : row'[e] = row[e]
    BY <1>1, <1>2 DEF WorkInv, TypeOK
  <1>5. ASSUME NEW e \in Downloads \ {d} PROVE Same(e)
    <2>1. SameEvents(e)
      BY <1>1, SilentKeepsEvents
    <2> QED
      BY <1>1, <1>4, <2>1 DEF Same, SameHistory, SameState, SameRuns, SameCalls, pool, requests, program
  <1>6. EndsLast' /\ Halves'
    <2>1. EndsLast'
      BY <1>1 DEF WorkInv, EndsLast
    <2>2. \A g \in gone : ~Pending(g)
      BY <1>1 DEF WorkInv, Halves
    <2>3. Head(evs).kind \in Ends \ {"error"}
      BY <1>1 DEF Ends, Removals
    <2> QED BY <1>0, <1>1, <2>1, <2>2, <2>3 DEF Halves, Pending
  <1>7. At(d)
    BY <1>2 DEF WorkInv, Places
  <1>8. /\ ~Engaged(d) /\ d \in asked
        /\ enq[d] \notin Early \cup {"dispatch", "publish"}
        /\ \A c \in Callers : call[c].d # d
    BY <1>3, <1>7 DEF At, EndOf, NewOf, CallOf
  <1>9. At(d)'
    <2>1. SameEvents(d)
      BY <1>1, <1>2, SilentKeepsEvents
    <2>2. /\ On(d)' <=> On(d)
          /\ Called(d)' <=> Called(d)
          /\ \A l : CalledTo(d, l)' <=> CalledTo(d, l)
      BY <1>1 DEF On, Called, CalledTo, requests
    <2>3. ~Engaged(d)'
      BY <1>1, <1>8, <2>2 DEF Engaged, pool, program
    <2>4. ~Called(d)' /\ \A c \in Callers : call'[c].d # d
      BY <1>1, <1>8, <2>2 DEF Called, requests
    <2>5. \A w \in Workers : run'[w].d # d
      BY <2>3 DEF Engaged, On
    <2>6. PlaceOf(d)'
      BY <2>3 DEF PlaceOf, Engaged
    <2>7. NewOf(d)'
      BY <1>1, <1>8 DEF NewOf, requests
    <2>8. EndOf(d)'
      BY <1>1, <1>4, <1>8, <2>1, <2>3, <2>4 DEF EndOf
    <2> QED BY <2>4, <2>5, <2>6, <2>7, <2>8 DEF At
  <1> QED BY <1>0, <1>1, <1>2, <1>5, <1>6, <1>9, OneStep DEF program, OnlyAt

LEMMA EventStepStays ==
  ASSUME WorkInv, EventStep
  PROVE  Rest' /\ OnlyAt(Head(evs).d)
  BY StoreStep, PromoteStep, DeleteRowStep DEF EventStep

-----------------------------------------------------------------------------
(* The calls: one that is made for a download, ...                         *)
LEMMA OneCallOf ==
  ASSUME WorkInv, NEW c \in Callers, call[c].pc # "idle", NEW d, d = call[c].d
  PROVE  /\ d \in Downloads /\ CallOf(c, d) /\ At(d)
         /\ d \notin gone /\ enq[d] \notin Early \cup {"dispatch", "publish"}
         /\ \A l : CalledTo(d, l) <=> call[c].pc = l
  <1>1. d \in Downloads
    BY DEF WorkInv, TypeOK, Idlers
  <1>2. At(d) /\ CallOf(c, d) /\ Called(d)
    BY <1>1 DEF WorkInv, Places, At, Called
  <1>3. \A l : CalledTo(d, l) <=> call[c].pc = l
    BY <1>2 DEF CallOf, CalledTo
  <1> QED BY <1>1, <1>2, <1>3 DEF At, EndOf, NewOf

(* ... and one that may be made.                                           *)
LEMMA NewCallOf ==
  ASSUME WorkInv, NEW c \in Callers, call[c].pc = "idle", NEW d \in Downloads
  PROVE  call[c].d # d /\ (Listed(d) => enq[d] \notin Early \cup {"dispatch", "publish"})
  BY DEF WorkInv, Places, At, CallOf, Listed, Early

LEMMA CallChanges ==
  ASSUME WorkInv, NEW c \in Callers, NEW d, NEW r, call' = [call EXCEPT ![c] = r],
         r.d = d \/ r.d = Nobody, call[c].d = d \/ call[c].pc = "idle"
  PROVE  /\ call'[c] = r /\ \A b \in Callers \ {c} : call'[b] = call[b]
         /\ \A e \in Downloads \ {d} : SameCalls(e)
  <1>1. call'[c] = r /\ \A b \in Callers \ {c} : call'[b] = call[b]
    BY DEF WorkInv, TypeOK
  <1>2. ASSUME NEW e \in Downloads \ {d} PROVE SameCalls(e)
    <2>1. call[c].d # e /\ r.d # e
      BY NewCallOf, LifecycleAssumption
    <2> QED BY <1>1, <2>1 DEF SameCalls
  <1> QED BY <1>1, <1>2

LEMMA PauseStep ==
  ASSUME WorkInv, Races = {}, phase # "down", NEW c \in Callers, NEW d \in Downloads, Pause(c, d)
  PROVE  Rest' /\ OnlyAt(d)
  <1>1. /\ UNCHANGED <<disk, queued, holder, requests, evs, half, program, history>>
        /\ Listed(d) /\ call[c].pc = "idle"
    BY DEF Pause, MayCall
  <1>2. At(d)
    BY DEF WorkInv, Places
  <1>3. CASE entry[d] # "active"
    <2>1. UNCHANGED <<entry, run>>
      BY <1>3 DEF Pause
    <2>2. ASSUME NEW e \in Downloads PROVE Same(e)
      <3>1. SameEvents(e)
        BY <1>1, SilentKeepsEvents
      <3> QED
        BY <1>1, <2>1, <3>1 DEF Same, SameHistory, SameState, SameRuns, SameCalls, disk, requests,
           program, history
    <2>3. At(d)'
      BY <1>1, <1>2, <2>2, OthersStay DEF program
    <2> QED BY <1>1, <2>2, <2>3, OneStep, SilentStays DEF program, history, OnlyAt
  <1>4. CASE entry[d] = "active"
    <2>0. PICK w : w = holder[d]
      OBVIOUS
    <2>1. w \in Workers /\ run[w].d = d /\ RunOf(w, d)
      BY <1>2, <1>4, <2>0 DEF At, PlaceOf
    <2>2. entry' = [entry EXCEPT ![d] = "pausing"] /\ run' = [run EXCEPT ![w].stop = "pause"]
      BY <1>4, <2>0 DEF Pause
    <2>3. /\ entry'[d] = "pausing" /\ \A e \in Downloads \ {d} : entry'[e] = entry[e]
          /\ run'[w].stop = "pause" /\ run'[w].d = d /\ run'[w].pc # "idle"
          /\ \A v \in Workers \ {w} : run'[v] = run[v]
      BY <2>1, <2>2 DEF WorkInv, TypeOK, RunOf
    <2>4. \A v \in Workers \ {w} : run[v].d # d
      BY <1>2, <2>1 DEF At, RunOf
    <2>5. ASSUME NEW e \in Downloads \ {d} PROVE Same(e)
      <3>1. SameEvents(e)
        BY <1>1, SilentKeepsEvents
      <3>2. SameRuns(e)
        BY <2>1, <2>3 DEF SameRuns
      <3> QED
        BY <1>1, <2>3, <3>1, <3>2 DEF Same, SameHistory, SameState, SameCalls, disk, requests, program, history
    <2>6. At(d)'
      <3>1. SameEvents(d)
        BY <1>1, SilentKeepsEvents
      <3>2. \A b \in Callers : call'[b].d # d
        BY <1>1, <1>2, <1>4 DEF At, CallOf, requests
      <3>3. \A v \in Workers : run'[v].d = d => RunOf(v, d)'
        BY <1>1, <2>0, <2>3, <2>4 DEF RunOf
      <3>4. Engaged(d) /\ d \notin queued \cup toResume
        BY <1>2, <1>4 DEF Engaged, At, PlaceOf
      <3>5. PlaceOf(d)'
        BY <1>1, <2>0, <2>1, <2>3, <3>4 DEF PlaceOf, program
      <3>6. NewOf(d)'
        BY <1>1, NewCallOf DEF NewOf, requests
      <3>7. EndOf(d)'
        BY <1>1, <1>2, <3>1, <3>4 DEF At, EndOf, SameEvents, disk, history
      <3> QED BY <3>2, <3>3, <3>5, <3>6, <3>7 DEF At
    <2> QED BY <1>1, <2>5, <2>6, OneStep, SilentStays DEF program, history, OnlyAt
  <1> QED BY <1>3, <1>4

LEMMA PauseStoredStep ==
  ASSUME WorkInv, Races = {}, phase # "down", NEW c \in Callers, NEW d \in Downloads, PauseStored(c, d)
  PROVE  Rest' /\ OnlyAt(d)
  <1>1. /\ AtRest(d) /\ row[d] = "paused" /\ Listed(d) /\ call[c].pc = "idle"
        /\ Tell(Event("pausedRow", d))
        /\ UNCHANGED <<disk, pool, run, requests, half, program, history>>
    BY DEF PauseStored, MayCall, MayPause
  <1>2. At(d)
    BY DEF WorkInv, Places
  <1>3. /\ Event("pausedRow", d) \in EventType /\ Event("pausedRow", d).d = d
        /\ Event("pausedRow", d).kind = "pausedRow"
    BY EventTypes DEF EventKinds, WorkInv, Event
  <1>4. /\ ~Ended(d) /\ ~Removed(d) /\ d \notin gone /\ d \notin toResume
        /\ \A b \in Callers : call[b].d # d
        /\ \A w \in Workers : run[w].d # d
    BY <1>1, <1>2 DEF AtRest, AtWork, Pending, Ended, Removed, At, EndOf
  <1>5. ~Ended(d)' /\ ~Removed(d)'
    BY <1>1, <1>3, <1>4, TellTells DEF WorkInv, Ends, Removals
  <1>6. ASSUME NEW e \in Downloads \ {d} PROVE Same(e)
    <2>1. SameEvents(e)
      BY <1>1, <1>3, TellKeepsOthers DEF WorkInv
    <2> QED
      BY <1>1, <2>1 DEF Same, SameHistory, SameState, SameRuns, SameCalls, disk, pool, requests,
         program, history
  <1>7. At(d)'
    <2>1. PlaceOf(d)'
      BY <1>1, <1>2, <1>4 DEF At, PlaceOf, On, pool, program
    <2>2. NewOf(d)'
      BY <1>1, NewCallOf DEF NewOf, requests
    <2>3. EndOf(d)'
      BY <1>1, <1>4, <1>5 DEF EndOf, disk, history
    <2> QED BY <1>1, <1>4, <2>1, <2>2, <2>3 DEF At, requests
  <1> QED BY <1>1, <1>3, <1>4, <1>6, <1>7, OneStep, TellStays DEF program, history, OnlyAt

(* A download that is to be added to the pool.                             *)
LEMMA ResumeStep ==
  ASSUME WorkInv, phase # "down", NEW c \in Callers, NEW d \in Downloads,
         CallTo(c, "add", d), call[c].pc = "idle", enq[d] \notin Early \cup {"dispatch", "publish"},
         \A b \in Callers : call[b].d # d, \A w \in Workers : run[w].d # d,
         ~Removed(d), ~Ended(d), row[d] # "completed", d \notin gone, d \notin queued,
         \A e \in Downloads \ {d} : entry'[e] = entry[e], entry'[d] = "none",
         toResume' = toResume \ {d},
         UNCHANGED <<disk, queued, holder, run, enq, cand, evs, half, phase, history>>
  PROVE  Rest' /\ OnlyAt(d)
  <1>1. /\ call'[c] = [pc |-> "add", d |-> d] /\ \A b \in Callers \ {c} : call'[b] = call[b]
        /\ \A e \in Downloads \ {d} : SameCalls(e)
    BY CallChanges DEF CallTo
  <1>2. ASSUME NEW e \in Downloads \ {d} PROVE Same(e)
    <2>1. SameEvents(e)
      BY SilentKeepsEvents
    <2> QED
      BY <1>1, <2>1 DEF Same, SameHistory, SameState, SameRuns, disk, history
  <1>3. At(d)'
    <2>1. SameEvents(d)
      BY SilentKeepsEvents
    <2>2. \A w \in Workers : run'[w].d # d
      OBVIOUS
    <2>3. ~On(d)'
      BY <2>2 DEF On
    <2>4. ASSUME NEW b \in Callers, call'[b].d = d PROVE CallOf(b, d)'
      <3>1. b = c
        BY <1>1, <2>4
      <3> QED BY <1>1, <2>1, <2>3, <3>1 DEF CallOf, SameEvents
    <2>5. PlaceOf(d)'
      BY <2>3 DEF PlaceOf
    <2>6. NewOf(d)'
      BY DEF NewOf
    <2>7. EndOf(d)'
      BY <2>1 DEF EndOf, SameEvents, disk, history
    <2> QED BY <2>2, <2>4, <2>5, <2>6, <2>7 DEF At
  <1> QED BY <1>2, <1>3, OneStep, SilentStays DEF history, OnlyAt

LEMMA ResumeHotStep ==
  ASSUME WorkInv, phase # "down", NEW c \in Callers, NEW d \in Downloads, ResumeHot(c, d)
  PROVE  Rest' /\ OnlyAt(d)
  <1>1. /\ Listed(d) /\ call[c].pc = "idle" /\ entry[d] = "paused"
        /\ entry' = [entry EXCEPT ![d] = "none"] /\ CallTo(c, "add", d)
        /\ UNCHANGED <<disk, queued, holder, run, enq, cand, evs, half, program, history>>
    BY DEF ResumeHot, MayCall
  <1>2. entry'[d] = "none" /\ \A e \in Downloads \ {d} : entry'[e] = entry[e]
    BY <1>1 DEF WorkInv, TypeOK
  <1>3. At(d) /\ Engaged(d)
    BY <1>1 DEF WorkInv, Places, Engaged
  <1>4. /\ d \notin queued \cup toResume /\ d \notin gone /\ ~Ended(d) /\ row[d] # "completed"
        /\ \A b \in Callers : call[b].d # d
        /\ \A w \in Workers : run[w].d # d
    BY <1>1, <1>3 DEF At, PlaceOf, EndOf, CallOf, On
  <1>5. ~Removed(d)
    BY <1>4 DEF Removed, Ended, Ends, Removals
  <1>6. toResume' = toResume \ {d}
    BY <1>1, <1>4 DEF program
  <1> QED BY <1>1, <1>2, <1>4, <1>5, <1>6, NewCallOf, ResumeStep DEF program

LEMMA ResumeColdStep ==
  ASSUME WorkInv, Races = {}, phase # "down", NEW c \in Callers, NEW d \in Downloads, ResumeCold(c, d)
  PROVE  Rest' /\ OnlyAt(d)
  <1>1. /\ Listed(d) /\ call[c].pc = "idle" /\ AtRest(d) /\ row[d] \in {"paused", "error"}
        /\ CallTo(c, "add", d)
        /\ UNCHANGED <<disk, pool, run, enq, cand, evs, half, program, history>>
    BY DEF ResumeCold, MayCall, MayResume, Cold
  <1>2. At(d)
    BY DEF WorkInv, Places
  <1>3. /\ entry[d] = "none" /\ d \notin queued \cup toResume
        /\ ~Ended(d) /\ ~Removed(d) /\ d \notin gone
        /\ \A b \in Callers : call[b].d # d
        /\ \A w \in Workers : run[w].d # d
    BY <1>1, <1>2 DEF AtRest, AtWork, Pending, Ended, Removed, At, EndOf
  <1>4. toResume' = toResume \ {d}
    BY <1>1, <1>3 DEF program
  <1> QED BY <1>1, <1>3, <1>4, NewCallOf, ResumeStep DEF program, pool

LEMMA ResumeStoredStep ==
  ASSUME WorkInv, phase # "down", NEW c \in Callers, NEW d \in Downloads, ResumeStored(c, d)
  PROVE  Rest' /\ OnlyAt(d)
  <1>1. /\ call[c].pc = "idle" /\ d \in toResume /\ toResume' = toResume \ {d}
        /\ Cold(d) => CallTo(c, "add", d)
        /\ UNCHANGED <<disk, pool, run, enq, cand, evs, half, phase, history>>
    BY DEF ResumeStored
  <1>2. At(d) /\ Engaged(d)
    BY <1>1 DEF WorkInv, Places, Engaged
  <1>3. /\ entry[d] = "none" /\ d \notin queued /\ row[d] \in {"queued", "paused"}
        /\ ~Ended(d) /\ d \notin gone
        /\ enq[d] \notin Early \cup {"dispatch", "publish"}
        /\ \A b \in Callers : call[b].d # d
        /\ \A w \in Workers : run[w].d # d
    BY <1>1, <1>2 DEF At, PlaceOf, EndOf, CallOf, NewOf, On
  <1>4. ~Removed(d)
    BY <1>3 DEF Removed, Ended, Ends, Removals
  <1>5. Cold(d)
    BY <1>3 DEF Cold
  <1> QED BY <1>1, <1>3, <1>4, <1>5, ResumeStep DEF pool

LEMMA AddStep ==
  ASSUME WorkInv, phase # "down", NEW c \in Callers, Add(c)
  PROVE  Rest' /\ OnlyAt(call[c].d)
  <1>0. PICK d : d = call[c].d
    OBVIOUS
  <1>1. /\ call[c].pc = "add" /\ queued' = queued \cup {d} /\ call' = [call EXCEPT ![c] = IdleCall]
        /\ UNCHANGED <<disk, entry, holder, run, enq, cand, evs, half, program, history>>
    BY <1>0 DEF Add
  <1>2. /\ d \in Downloads /\ CallOf(c, d) /\ At(d) /\ d \notin gone
        /\ enq[d] \notin Early \cup {"dispatch", "publish"} /\ CalledTo(d, "add")
    BY <1>0, <1>1, OneCallOf
  <1>3. /\ call'[c] = IdleCall /\ \A b \in Callers \ {c} : call'[b] = call[b]
        /\ \A e \in Downloads \ {d} : SameCalls(e)
    <2>1. IdleCall.d = Nobody /\ call[c].d = d /\ call' = [call EXCEPT ![c] = IdleCall]
      BY <1>0, <1>1 DEF IdleCall
    <2> QED BY <2>1, CallChanges
  <1>4. ASSUME NEW e \in Downloads \ {d} PROVE Same(e)
    <2>1. SameEvents(e)
      BY <1>1, SilentKeepsEvents
    <2> QED
      BY <1>1, <1>3, <2>1 DEF Same, SameHistory, SameState, SameRuns, disk, program, history
  <1>5. At(d)'
    <2>1. SameEvents(d)
      BY <1>1, <1>2, SilentKeepsEvents
    <2>2. Engaged(d) /\ ~On(d) /\ entry[d] = "none" /\ d \notin toResume
      BY <1>1, <1>2 DEF Engaged, CallOf
    <2>3. (\A w \in Workers : run'[w].d # d) /\ ~On(d)'
      BY <1>1, <2>2 DEF On
    <2>4. \A b \in Callers : call'[b].d # d
      BY <1>2, <1>3, LifecycleAssumption DEF CallOf, IdleCall
    <2>5. PlaceOf(d)'
      BY <1>1, <2>2, <2>3 DEF PlaceOf, program
    <2>6. NewOf(d)'
      BY <1>1, <1>2 DEF NewOf
    <2>7. EndOf(d)'
      BY <1>1, <1>2, <2>1, <2>2 DEF At, EndOf, SameEvents, disk, history
    <2> QED BY <2>3, <2>4, <2>5, <2>6, <2>7 DEF At
  <1> QED BY <1>0, <1>1, <1>2, <1>4, <1>5, OneStep, SilentStays DEF program, history, OnlyAt

LEMMA CancelStep ==
  ASSUME WorkInv, Races = {}, phase # "down", NEW c \in Callers, NEW d \in Downloads, Cancel(c, d)
  PROVE  Rest' /\ OnlyAt(d)
  <1> DEFINE l == CASE entry[d] \in {"active", "pausing"} -> "wait"
                    [] entry[d] = "paused" \/ d \in queued -> "publish"
                    [] OTHER -> "look"
  <1>1. /\ Listed(d) /\ call[c].pc = "idle" /\ d \notin toResume /\ d \notin asked
        /\ \A b \in Callers : call[b].d # d
        /\ queued' = queued \ {d} /\ entry' = [entry EXCEPT ![d] = "none"]
        /\ asked' = asked \cup {d} /\ CallTo(c, l, d)
        /\ UNCHANGED <<disk, holder, enq, cand, evs, half, program, stored, gone, failed>>
    BY DEF Cancel, MayCall, MayRemove, Listed
  <1>2. run' = IF entry[d] \in {"active", "pausing"}
               THEN [run EXCEPT ![holder[d]].stop =
                       IF run[holder[d]].d = d /\ @ = "no" THEN "cancel" ELSE @]
               ELSE run
    BY DEF Cancel
  <1>3. /\ l = "wait" <=> entry[d] \in {"active", "pausing"}
        /\ l \in {"wait", "publish", "look"}
        /\ l = "look" <=> entry[d] \notin {"active", "pausing", "paused"} /\ d \notin queued
    <2>1. CASE entry[d] \in {"active", "pausing"}
      <3>0. d \notin queued
        BY <2>1 DEF WorkInv, Places, At, PlaceOf
      <3>1. l = "wait"
        BY <2>1, <3>0
      <3> QED BY <2>1, <3>1
    <2>2. CASE entry[d] \notin {"active", "pausing"} /\ (entry[d] = "paused" \/ d \in queued)
      <3>1. l = "publish"
        BY <2>2
      <3> QED BY <2>2, <3>1
    <2>3. CASE entry[d] \notin {"active", "pausing", "paused"} /\ d \notin queued
      <3>1. l = "look"
        BY <2>3
      <3> QED BY <2>3, <3>1
    <2> QED BY <2>1, <2>2, <2>3
  <1> HIDE DEF l
  <1>4. entry'[d] = "none" /\ \A e \in Downloads \ {d} : entry'[e] = entry[e]
    BY <1>1 DEF WorkInv, TypeOK
  <1>5. /\ call'[c] = [pc |-> l, d |-> d] /\ \A b \in Callers \ {c} : call'[b] = call[b]
        /\ \A e \in Downloads \ {d} : SameCalls(e)
    BY <1>1, CallChanges DEF CallTo
  <1>6. At(d)
    BY DEF WorkInv, Places
  <1>7. /\ d \notin gone /\ ~Removed(d) /\ enq[d] \notin Early \cup {"dispatch", "publish"}
        /\ \A w \in Workers : run[w].d = d => RunOf(w, d) /\ entry[d] \in {"active", "pausing"}
        /\ entry[d] \in {"active", "pausing"} => holder[d] \in Workers /\ run[holder[d]].d = d
    BY <1>1, <1>6, NewCallOf DEF At, EndOf, PlaceOf, RunOf, CalledTo
  <1>8. /\ \A w \in Workers : run'[w].d = run[w].d /\ run'[w].pc = run[w].pc
        /\ \A w \in Workers : run[w].d # d => run'[w] = run[w]
        /\ \A w \in Workers : run[w].d = d => run'[w].stop # "no"
    <2>1. CASE entry[d] \notin {"active", "pausing"}
      BY <1>2, <1>7, <2>1
    <2>2. CASE entry[d] \in {"active", "pausing"}
      <3>0. PICK w : w = holder[d]
        OBVIOUS
      <3>1. w \in Workers /\ run[w].d = d /\ \A v \in Workers \ {w} : run[v].d # d
        BY <1>7, <2>2, <3>0 DEF RunOf
      <3>2. run' = [run EXCEPT ![w].stop = IF run[w].stop = "no" THEN "cancel" ELSE run[w].stop]
        BY <1>2, <2>2, <3>0, <3>1
      <3>3. run'[w] = [run[w] EXCEPT !.stop = IF run[w].stop = "no" THEN "cancel" ELSE run[w].stop]
            /\ \A v \in Workers \ {w} : run'[v] = run[v]
        BY <3>1, <3>2 DEF WorkInv, TypeOK
      <3>4. run[w] \in RunRecord
        BY <3>1 DEF WorkInv, TypeOK, RunRecord
      <3>5. run'[w].d = run[w].d /\ run'[w].pc = run[w].pc /\ run'[w].stop # "no"
        BY <3>3, <3>4 DEF RunRecord
      <3> QED BY <3>1, <3>3, <3>5
    <2> QED BY <2>1, <2>2
  <1>9. ASSUME NEW e \in Downloads \ {d} PROVE Same(e)
    <2>1. SameEvents(e)
      BY <1>1, SilentKeepsEvents
    <2>2. SameRuns(e)
      BY <1>8 DEF SameRuns
    <2> QED
      BY <1>1, <1>4, <1>5, <2>1, <2>2 DEF Same, SameHistory, SameState, disk, program
  <1>10. At(d)'
    <2>1. SameEvents(d)
      BY <1>1, SilentKeepsEvents
    <2>2. On(d)' <=> On(d)
      BY <1>8 DEF On
    <2>3. l = "wait" => CalledTo(d, "wait")'
      BY <1>5 DEF CalledTo
    <2>4. ~CalledTo(d, "add")'
      BY <1>1, <1>3, <1>5 DEF CalledTo
    <2>5. ASSUME NEW w \in Workers, run'[w].d = d PROVE RunOf(w, d)'
      BY <1>1, <1>3, <1>4, <1>7, <1>8, <2>3, <2>5 DEF RunOf
    <2>6. ASSUME NEW b \in Callers, call'[b].d = d PROVE CallOf(b, d)'
      <3>1. b = c
        BY <1>1, <1>5, <2>6
      <3>2. l # "wait" => ~On(d)
        BY <1>3, <1>7 DEF On
      <3> QED
        BY <1>1, <1>3, <1>4, <1>5, <1>7, <2>1, <2>2, <3>1, <3>2 DEF CallOf, SameEvents, program
    <2>7. PlaceOf(d)'
      BY <1>1, <1>4 DEF PlaceOf, program
    <2>8. NewOf(d)'
      BY <1>1, <1>7 DEF NewOf
    <2>9. Engaged(d)' => Engaged(d)
      BY <1>1, <1>4, <2>2, <2>4 DEF Engaged, program
    <2>10. EndOf(d)'
      BY <1>1, <1>6, <1>7, <2>1, <2>9 DEF At, EndOf, SameEvents, disk
    <2> QED BY <2>5, <2>6, <2>7, <2>8, <2>10 DEF At
  <1> QED BY <1>1, <1>9, <1>10, OneStep, SilentStays DEF program, OnlyAt

LEMMA CancelWaitedStep ==
  ASSUME WorkInv, phase # "down", NEW c \in Callers, CancelWaited(c)
  PROVE  Rest' /\ OnlyAt(call[c].d)
  <1>0. PICK d : d = call[c].d
    OBVIOUS
  <1>1. /\ call[c].pc = "wait" /\ run[holder[d]].d # d
        /\ call' = [call EXCEPT ![c] = [pc |-> "publish", d |-> d]]
        /\ UNCHANGED <<disk, pool, run, enq, cand, evs, half, program, history>>
    BY <1>0 DEF CancelWaited, CallTo
  <1>2. /\ d \in Downloads /\ CallOf(c, d) /\ At(d) /\ d \notin gone
        /\ enq[d] \notin Early \cup {"dispatch", "publish"} /\ ~CalledTo(d, "add")
    BY <1>0, <1>1, OneCallOf
  <1>3. /\ call'[c] = [pc |-> "publish", d |-> d] /\ \A b \in Callers \ {c} : call'[b] = call[b]
        /\ \A e \in Downloads \ {d} : SameCalls(e)
    <2> DEFINE r == [pc |-> "publish", d |-> d]
    <2>1. r.d = d /\ call[c].d = d /\ call' = [call EXCEPT ![c] = r]
      BY <1>0, <1>1
    <2> HIDE DEF r
    <2>2. /\ call'[c] = r /\ \A b \in Callers \ {c} : call'[b] = call[b]
          /\ \A e \in Downloads \ {d} : SameCalls(e)
      BY <2>1, CallChanges
    <2> QED BY <2>2 DEF r
  <1>4. ASSUME NEW e \in Downloads \ {d} PROVE Same(e)
    <2>1. SameEvents(e)
      BY <1>1, SilentKeepsEvents
    <2> QED
      BY <1>1, <1>3, <2>1 DEF Same, SameHistory, SameState, SameRuns, disk, pool, program, history
  <1>5. At(d)'
    <2>1. SameEvents(d)
      BY <1>1, <1>2, SilentKeepsEvents
    <2>2. (\A w \in Workers : run'[w].d # d) /\ ~On(d)'
      BY <1>1, <1>2 DEF At, RunOf, On
    <2>3. ASSUME NEW b \in Callers, call'[b].d = d PROVE CallOf(b, d)'
      <3>1. b = c
        BY <1>2, <1>3, <2>3 DEF CallOf
      <3> QED
        BY <1>1, <1>2, <1>3, <2>1, <2>2, <3>1 DEF CallOf, SameEvents, pool, program, history
    <2>4. ~CalledTo(d, "add")'
      BY <1>2, <1>3 DEF CalledTo
    <2>5. ~Engaged(d)'
      BY <1>1, <1>2, <2>2, <2>4 DEF Engaged, CallOf, pool, program
    <2>6. PlaceOf(d)'
      BY <2>5 DEF PlaceOf, Engaged
    <2>7. NewOf(d)'
      BY <1>1, <1>2 DEF NewOf
    <2>8. EndOf(d)'
      BY <1>1, <1>2, <2>1, <2>5 DEF At, EndOf, SameEvents, disk, history, Called
    <2> QED BY <2>2, <2>3, <2>6, <2>7, <2>8 DEF At
  <1> QED BY <1>0, <1>1, <1>2, <1>4, <1>5, OneStep, SilentStays DEF program, history, OnlyAt

LEMMA NotFoundStep ==
  ASSUME WorkInv, phase # "down", NEW c \in Callers, NotFound(c)
  PROVE  Rest' /\ OnlyAt(call[c].d)
  <1>0. PICK d : d = call[c].d
    OBVIOUS
  <1>1. /\ call[c].pc = "look" /\ call' = [call EXCEPT ![c] = IdleCall]
        /\ UNCHANGED <<disk, pool, run, enq, cand, evs, half, program, history>>
    BY DEF NotFound
  <1>2. /\ d \in Downloads /\ CallOf(c, d) /\ At(d) /\ d \notin gone
        /\ enq[d] \notin Early \cup {"dispatch", "publish"} /\ ~CalledTo(d, "add")
    BY <1>0, <1>1, OneCallOf
  <1>3. /\ call'[c] = IdleCall /\ \A b \in Callers \ {c} : call'[b] = call[b]
        /\ \A e \in Downloads \ {d} : SameCalls(e)
    <2>1. IdleCall.d = Nobody /\ call[c].d = d /\ call' = [call EXCEPT ![c] = IdleCall]
      BY <1>0, <1>1 DEF IdleCall
    <2> QED BY <2>1, CallChanges
  <1>4. ASSUME NEW e \in Downloads \ {d} PROVE Same(e)
    <2>1. SameEvents(e)
      BY <1>1, SilentKeepsEvents
    <2> QED
      BY <1>1, <1>3, <2>1 DEF Same, SameHistory, SameState, SameRuns, disk, pool, program, history
  <1>5. At(d)'
    <2>1. SameEvents(d)
      BY <1>1, <1>2, SilentKeepsEvents
    <2>2. \A b \in Callers : call'[b].d # d
      BY <1>2, <1>3, LifecycleAssumption DEF CallOf, IdleCall
    <2>3. ~Engaged(d)' /\ ~On(d)'
      BY <1>1, <1>2, <2>2 DEF Engaged, CallOf, On, CalledTo, pool, program
    <2>4. \A w \in Workers : run'[w].d # d
      BY <2>3 DEF On
    <2>5. PlaceOf(d)'
      BY <2>3 DEF PlaceOf, Engaged
    <2>6. NewOf(d)'
      BY <1>1, <1>2 DEF NewOf
    <2>7. EndOf(d)'
      BY <1>1, <1>2, <2>1, <2>3 DEF At, EndOf, SameEvents, disk, history
    <2> QED BY <2>2, <2>4, <2>5, <2>6, <2>7 DEF At
  <1> QED BY <1>0, <1>1, <1>2, <1>4, <1>5, OneStep, SilentStays DEF program, history, OnlyAt

LEMMA PublishRemovedStep ==
  ASSUME WorkInv, phase # "down", NEW c \in Callers, PublishRemoved(c)
  PROVE  Rest' /\ OnlyAt(call[c].d)
  <1>0. PICK d : d = call[c].d
    OBVIOUS
  <1>1. /\ call[c].pc \in {"publish", "look"} /\ call' = [call EXCEPT ![c] = IdleCall]
        /\ \E k \in Removals : Tell(Event(k, d))
        /\ UNCHANGED <<disk, pool, run, enq, cand, half, program, history>>
    BY <1>0 DEF PublishRemoved, Removals
  <1>2. /\ d \in Downloads /\ CallOf(c, d) /\ At(d) /\ d \notin gone
        /\ enq[d] \notin Early \cup {"dispatch", "publish"} /\ ~CalledTo(d, "add")
    BY <1>0, <1>1, OneCallOf
  <1>3. /\ call'[c] = IdleCall /\ \A b \in Callers \ {c} : call'[b] = call[b]
        /\ \A e \in Downloads \ {d} : SameCalls(e)
    <2>1. IdleCall.d = Nobody /\ call[c].d = d /\ call' = [call EXCEPT ![c] = IdleCall]
      BY <1>0, <1>1 DEF IdleCall
    <2> QED BY <2>1, CallChanges
  <1>4. PICK k \in Removals : Tell(Event(k, d))
    BY <1>1
  <1>5. /\ Event(k, d) \in EventType /\ Event(k, d).d = d /\ Event(k, d).kind = k
    BY <1>2, EventTypes DEF EventKinds, WorkInv, Event, Removals
  <1>6. OnlyRemovals(d)' <=> OnlyRemovals(d)
    BY <1>2, <1>4, <1>5, TellTells DEF WorkInv
  <1>7. ASSUME NEW e \in Downloads \ {d} PROVE Same(e)
    <2>1. SameEvents(e)
      BY <1>4, <1>5, TellKeepsOthers DEF WorkInv
    <2> QED
      BY <1>1, <1>3, <2>1 DEF Same, SameHistory, SameState, SameRuns, disk, pool, program, history
  <1>8. At(d)'
    <2>1. \A b \in Callers : call'[b].d # d
      BY <1>2, <1>3, LifecycleAssumption DEF CallOf, IdleCall
    <2>2. ~Engaged(d)' /\ ~On(d)' /\ d \in asked
      BY <1>1, <1>2, <2>1 DEF Engaged, CallOf, On, CalledTo, pool, program
    <2>3. \A w \in Workers : run'[w].d # d
      BY <2>2 DEF On
    <2>4. PlaceOf(d)'
      BY <2>2 DEF PlaceOf, Engaged
    <2>5. NewOf(d)'
      BY <1>1, <1>2 DEF NewOf
    <2>6. EndOf(d)'
      BY <1>1, <1>2, <1>6, <2>2 DEF At, EndOf, disk, history
    <2> QED BY <2>1, <2>3, <2>4, <2>5, <2>6 DEF At
  <1>9. Ended(d) => k \in Removals /\ ~Removed(d)
    BY <1>2 DEF CallOf
  <1> QED BY <1>0, <1>1, <1>2, <1>4, <1>5, <1>7, <1>8, <1>9, OneStep, TellStays DEF program, history, OnlyAt

-----------------------------------------------------------------------------
(* The ends and the starts of the program.                                 *)
LEMMA ShutdownStep ==
  ASSUME WorkInv, Shutdown
  PROVE  Rest'
  <1>1. /\ phase' = "stopping" /\ queued' = {}
        /\ entry' = [d \in Downloads |-> IF entry[d] = "active" THEN "pausing" ELSE entry[d]]
        /\ UNCHANGED <<disk, holder, requests, evs, half, toResume, history>>
    BY DEF Shutdown
  <1>2. \A d \in Downloads : /\ entry[d] = "active" => entry'[d] = "pausing"
                             /\ entry[d] # "active" => entry'[d] = entry[d]
    BY <1>1
  <1>3. ASSUME NEW w \in Workers
        PROVE  /\ run'[w].d = run[w].d /\ run'[w].pc = run[w].pc
               /\ run'[w].stop = run[w].stop \/ run'[w].stop = "pause"
               /\ \A d \in Downloads : entry[d] = "active" /\ holder[d] = w => run'[w].stop = "pause"
    <2>1. run'[w] = IF \E d \in Downloads : entry[d] = "active" /\ holder[d] = w
                    THEN [run[w] EXCEPT !.stop = "pause"] ELSE run[w]
      BY DEF Shutdown
    <2>2. run[w] \in RunRecord
      BY DEF WorkInv, TypeOK, RunRecord
    <2> QED BY <2>1, <2>2 DEF RunRecord
  <1>4. EndsLast' /\ Halves'
    BY <1>1, SilentStays DEF history
  <1>5. ASSUME NEW d \in Downloads PROVE At(d)'
    <2>1. SameEvents(d)
      BY <1>1, SilentKeepsEvents
    <2>2. At(d)
      BY DEF WorkInv, Places
    <2>3. /\ On(d)' <=> On(d)
          /\ Called(d)' <=> Called(d)
          /\ \A l : CalledTo(d, l)' <=> CalledTo(d, l)
      BY <1>1, <1>3 DEF On, Called, CalledTo, requests
    <2>4. Engaged(d)' => Engaged(d)
      BY <1>1, <1>2, <2>3 DEF Engaged
    <2>5. ASSUME NEW w \in Workers, run'[w].d = d PROVE RunOf(w, d)'
      <3>1. RunOf(w, d)
        BY <1>3, <2>2, <2>5 DEF At
      <3> QED BY <1>1, <1>2, <1>3, <2>3, <3>1 DEF RunOf
    <2>6. ASSUME NEW c \in Callers, call'[c].d = d PROVE CallOf(c, d)'
      BY <1>1, <1>2, <2>1, <2>2, <2>3, <2>6 DEF At, CallOf, SameEvents, requests, history
    <2>7. PlaceOf(d)'
      BY <1>1, <1>2, <1>3, <2>1, <2>2, <2>3 DEF At, PlaceOf, SameEvents, disk
    <2>8. NewOf(d)'
      BY <1>1, <2>1, <2>2, <2>3, <2>4 DEF At, NewOf, SameEvents, disk, requests, history
    <2>9. EndOf(d)'
      BY <1>1, <2>1, <2>2, <2>3, <2>4 DEF At, EndOf, SameEvents, disk, history
    <2> QED BY <2>5, <2>6, <2>7, <2>8, <2>9 DEF At
  <1> QED BY <1>1, <1>4, <1>5 DEF Rest, Places

LEMMA CloseInputStep ==
  ASSUME WorkInv, CloseInput
  PROVE  Rest'
  <1>1. /\ phase' = "closed"
        /\ UNCHANGED <<disk, pool, run, requests, evs, half, toResume, history>>
    BY DEF CloseInput
  <1>2. ASSUME NEW d \in Downloads PROVE At(d)'
    <2>1. SameEvents(d)
      BY <1>1, SilentKeepsEvents
    <2>2. Same(d)
      BY <1>1, <2>1 DEF Same, SameHistory, SameState, SameRuns, SameCalls, disk, pool, requests, history
    <2> QED BY <1>1, <2>2, OthersStay DEF WorkInv, Places
  <1> QED BY <1>1, <1>2, SilentStays DEF Rest, Places, history

(* When nothing is under way little is left to say of a download.          *)
LEMMA NothingUnderWay ==
  ASSUME Nothing', NEW d \in Downloads
  PROVE  /\ ~Engaged(d)' /\ ~Called(d)' /\ ~On(d)' /\ OnlyRemovals(d)'
         /\ ~Pending(d)' /\ ~Ended(d)' /\ ~Removed(d)'
         /\ \A w \in Workers : run'[w].d # d
         /\ \A c \in Callers : call'[c].d # d
  <1>1. /\ \A w \in Workers : run'[w].d # d
        /\ \A c \in Callers : call'[c].d # d
    BY LifecycleAssumption DEF Nothing, IdleRun, IdleCall
  <1>2. ~Engaged(d)' /\ ~Called(d)' /\ ~On(d)'
    BY <1>1 DEF Nothing, Engaged, Called, CalledTo, On
  <1>3. DOMAIN evs' = {}
    BY DEF Nothing
  <1> QED BY <1>1, <1>2, <1>3 DEF OnlyRemovals, Pending, Ended, Removed

LEMMA GoneStep ==
  ASSUME WorkInv, Gone
  PROVE  Rest'
  <1>1. /\ Nothing' /\ UNCHANGED <<disk, history>>
        /\ \A d \in Downloads : enq'[d] = "new" => enq[d] = "new"
    BY DEF Gone, Nothing
  <1>2. ASSUME NEW d \in Downloads PROVE At(d)'
    <2>1. /\ ~Engaged(d)' /\ ~Called(d)' /\ ~On(d)' /\ OnlyRemovals(d)'
          /\ ~Pending(d)' /\ ~Ended(d)' /\ ~Removed(d)'
          /\ \A w \in Workers : run'[w].d # d
          /\ \A c \in Callers : call'[c].d # d
      BY <1>1, NothingUnderWay
    <2>2. At(d)
      BY DEF WorkInv, Places
    <2>3. PlaceOf(d)'
      BY <2>1 DEF PlaceOf, Engaged
    <2>4. NewOf(d)'
      BY <1>1, <2>1, <2>2 DEF At, NewOf, Nothing, Early, disk, history
    <2>5. EndOf(d)'
      BY <1>1, <2>1, <2>2 DEF At, EndOf, disk, history
    <2> QED BY <2>1, <2>3, <2>4, <2>5 DEF At
  <1>3. EndsLast' /\ Halves'
    BY <1>1 DEF Nothing, EndsLast, Halves, Pending
  <1> QED BY <1>1, <1>2, <1>3 DEF Rest, Places

(* What the start of the program makes of the rows.                        *)
StartRow(d) == IF Integrity THEN Validated(Normalized)[d] ELSE row[d]

LEMMA StartRows ==
  ASSUME TypeOK, NEW d \in Downloads
  PROVE  /\ StartRow(d) = "none" \/ StartRow(d) = row[d]
            \/ (row[d] = "downloading" /\ StartRow(d) = "paused")
         /\ row[d] = "completed" => StartRow(d) = "completed"
         /\ row[d] = "none" => StartRow(d) = "none"
  BY DEF StartRow, Validated, Normalized, Missing, Resumable

LEMMA StartStep ==
  ASSUME WorkInv, Start
  PROVE  Rest'
  <1>1. /\ phase = "down" /\ phase' = "up" /\ Nothing
        /\ UNCHANGED <<final, dest, pool, run, requests, evs, half, history>>
    BY DEF Start, WorkInv
  <1>2. /\ \A d \in Downloads : row'[d] = StartRow(d)
        /\ \A d \in toResume' : row'[d] \in {"queued", "paused"}
    BY DEF Start, StartRow
  <1>3. ASSUME NEW d \in Downloads PROVE At(d)'
    <2>1. /\ \A w \in Workers : run'[w].d # d
          /\ \A c \in Callers : call'[c].d # d
      BY <1>1, LifecycleAssumption DEF Nothing, IdleRun, IdleCall, requests
    <2>2. DOMAIN evs' = {}
      BY <1>1 DEF Nothing
    <2>3. ~Pending(d)' /\ ~Ended(d)' /\ ~Removed(d)' /\ OnlyRemovals(d)' /\ ~On(d)' /\ ~Called(d)'
      BY <2>1, <2>2 DEF Pending, Ended, Removed, OnlyRemovals, On, Called
    <2>4. entry'[d] = "none" /\ d \notin queued'
      BY <1>1 DEF Nothing, pool
    <2>5. Engaged(d)' => d \in toResume'
      BY <2>1, <2>3, <2>4 DEF Engaged, CalledTo
    <2>6. At(d)
      BY DEF WorkInv, Places
    <2>7. row[d] = "none" => row'[d] = "none"
      BY <1>2, StartRows DEF WorkInv
    <2>8. PlaceOf(d)'
      BY <1>2, <2>3, <2>4 DEF PlaceOf
    <2>9. NewOf(d)'
      BY <1>1, <1>2, <2>3, <2>5, <2>6, <2>7 DEF At, NewOf, Nothing, Early, requests, history
    <2>10. EndOf(d)'
      BY <1>1, <1>2, <2>3, <2>5, <2>6, <2>7 DEF At, EndOf, history
    <2> QED BY <2>1, <2>8, <2>9, <2>10 DEF At
  <1>4. EndsLast' /\ Halves'
    BY <1>1, SilentStays DEF history
  <1> QED BY <1>1, <1>3, <1>4 DEF Rest, Places

LEMMA WorkInit == Init => WorkInv
  <1> SUFFICES ASSUME Init PROVE WorkInv
    OBVIOUS
  <1>1. TypeOK /\ Idlers
    BY InitTypes
  <1>2. DOMAIN evs = {}
    BY DEF Init
  <1>3. ASSUME NEW d \in Downloads PROVE At(d)
    <2>1. /\ \A w \in Workers : run[w].d # d
          /\ \A c \in Callers : call[c].d # d
      BY LifecycleAssumption DEF Init, IdleRun, IdleCall
    <2>2. ~Pending(d) /\ ~Ended(d) /\ ~Removed(d) /\ ~On(d) /\ ~Called(d) /\ ~Engaged(d)
      BY <1>2, <2>1 DEF Init, Pending, Ended, Removed, On, Called, Engaged, CalledTo
    <2> QED BY <2>1, <2>2 DEF Init, At, PlaceOf, NewOf, EndOf, Engaged, Early
  <1>4. EndsLast /\ Halves /\ phase # "down"
    BY <1>2 DEF Init, EndsLast, Halves
  <1> QED BY <1>1, <1>3, <1>4 DEF WorkInv, Places

LEMMA WorkStep ==
  ASSUME WorkInv, Races = {}, [Next]_vars
  PROVE  WorkInv'
  <1>1. TypeOK' /\ Idlers'
    BY StepTypes DEF WorkInv
  <1>2. Rest'
    <2>1. CASE UNCHANGED vars
      <3>1. ASSUME NEW d \in Downloads PROVE Same(d)
        <4>1. SameEvents(d)
          BY <2>1, SilentKeepsEvents DEF vars
        <4> QED
          BY <2>1, <4>1 DEF Same, SameHistory, SameState, SameRuns, SameCalls, vars, disk, pool,
             requests, program, history
      <3>2. Places'
        BY <2>1, <3>1, OthersStay DEF WorkInv, Places, vars, program
      <3>3. EndsLast' /\ Halves'
        BY <2>1, SilentStays DEF vars, history
      <3>4. phase' = "down" => Nothing'
        BY <2>1 DEF WorkInv, Nothing, vars, pool, requests, program
      <3> QED BY <3>2, <3>3, <3>4 DEF Rest
    <2>2. ASSUME NEW d \in Downloads, Request(d) \/ EnqueueStep(d) \/ (Running /\ Abort(d)) PROVE Rest'
      <3>1. phase # "down"
        BY <2>2 DEF Request, EnqueueStep, Running
      <3> QED BY <2>2, <3>1, NamingStep, DispatchStep, PublishQueuedStep, AbortStep DEF EnqueueStep
    <2>3. ASSUME NEW w \in Workers, WorkerStep(w) \/ (Running /\ TransferFails(w)) PROVE Rest'
      <3>1. phase # "down"
        BY <2>3 DEF WorkerStep, Running
      <3> QED BY <2>3, <3>1, TransferStep, TakeStep, FinishStep DEF WorkerStep
    <2>4. ASSUME NEW c \in Callers, CallerStep(c) PROVE Rest'
      <3>1. phase # "down"
        BY <2>4 DEF CallerStep, Add, CancelWaited, NotFound, PublishRemoved, ResumeStored, Running
      <3> QED
        BY <2>4, <3>1, AddStep, CancelWaitedStep, NotFoundStep, PublishRemovedStep, ResumeStoredStep
           DEF CallerStep
    <2>5. ASSUME NEW c \in Callers, NEW d \in Downloads, Calls(c, d) PROVE Rest'
      <3>1. phase # "down"
        BY <2>5 DEF Calls, Pause, PauseStored, ResumeHot, ResumeCold, Cancel, MayCall, Running
      <3> QED
        BY <2>5, <3>1, PauseStep, PauseStoredStep, ResumeHotStep, ResumeColdStep, CancelStep DEF Calls
    <2>6. CASE EventStep
      BY <2>6, EventStepStays
    <2>7. CASE Shutdown \/ CloseInput \/ Exit \/ Kill \/ Start
      BY <2>7, ShutdownStep, CloseInputStep, GoneStep, StartStep DEF Exit, Kill
    <2> QED BY <2>1, <2>2, <2>3, <2>4, <2>5, <2>6, <2>7 DEF Next
  <1> QED BY <1>1, <1>2 DEF WorkInv, Rest

(* Once a removal is stored, nothing brings the row back.                  *)
THEOREM RemovedIsForGood ==
  ASSUME Races = {}
  PROVE  Spec => []RemovedStaysGone
  <1>1. Init => WorkInv
    BY WorkInit
  <1>2. WorkInv /\ [Next]_vars => WorkInv'
    BY WorkStep
  <1>3. WorkInv => RemovedStaysGone
    BY DEF WorkInv, Places, At, EndOf, RemovedStaysGone, TypeOK
  <1> QED BY <1>1, <1>2, <1>3, PTL DEF Spec

LEMMA RowsStay ==
  ASSUME TypeOK, Next, NEW d \in Downloads, row'[d] # row[d]
  PROVE  \/ Abort(d)
         \/ evs # <<>> /\ Head(evs).d = d /\ (Head(evs).kind \notin Removals \/ DeleteRow)
         \/ Start
  <1>1. row \in [Downloads -> Statuses]
    BY DEF TypeOK
  <1>2. ASSUME NEW e \in Downloads, Request(e) \/ EnqueueStep(e) PROVE row' = row
    BY <1>2 DEF Request, EnqueueStep, LookForFinal, LookForSurge, Reserve, Dispatch, PublishQueued, disk
  <1>3. ASSUME NEW e \in Downloads, Abort(e) PROVE Abort(d)
    BY <1>1, <1>3 DEF Abort
  <1>4. ASSUME NEW w \in Workers, WorkerStep(w) \/ TransferFails(w) PROVE row' = row
    BY <1>4 DEF WorkerStep, Take, OpenWorkingFile, Transferred, TransferFails, TransferStops, Finish, disk
  <1>5. ASSUME EventStep PROVE evs # <<>> /\ Head(evs).d = d /\ (Head(evs).kind \notin Removals \/ DeleteRow)
    <2>1. evs # <<>> /\ (row' = row \/ \E s : row' = [row EXCEPT ![Head(evs).d] = s])
      BY <1>5 DEF EventStep, StoreQueued, StoreStarted, StorePaused, StorePausedRow, Promote,
         StoreCompleted, PromoteFails, StoreError, DeleteRow, DeleteWorkingFile, HeadIs, SetRow
    <2>2. Head(evs).kind \notin Removals \/ DeleteRow \/ row' = row
      BY <1>5 DEF EventStep, StoreQueued, StoreStarted, StorePaused, StorePausedRow, Promote,
         StoreCompleted, PromoteFails, StoreError, DeleteWorkingFile, HeadIs, Removals
    <2> QED BY <1>1, <2>1, <2>2
  <1>6. ASSUME NEW c \in Callers, CallerStep(c) \/ \E e \in Downloads : Calls(c, e) PROVE row' = row
    BY <1>6 DEF CallerStep, Calls, Add, CancelWaited, NotFound, PublishRemoved, ResumeStored, Pause,
       PauseStored, ResumeHot, ResumeCold, Cancel, disk
  <1>7. ASSUME Shutdown \/ CloseInput \/ Exit \/ Kill PROVE row' = row
    BY <1>7 DEF Shutdown, CloseInput, Exit, Kill, Gone, disk
  <1> QED BY <1>2, <1>3, <1>4, <1>5, <1>6, <1>7 DEF Next

(* Only a removal takes a completed download's row away.                   *)
THEOREM CompletedIsFinal ==
  ASSUME Races = {}
  PROVE  Spec => CompletedStays
  <1>1. Init => WorkInv
    BY WorkInit
  <1>2. WorkInv /\ [Next]_vars => WorkInv'
    BY WorkStep
  <1>3. WorkInv /\ [Next]_vars =>
          \A d \in Downloads : row[d] = "completed" /\ row'[d] # "completed" => d \in asked
    <2> SUFFICES ASSUME WorkInv, [Next]_vars, NEW d \in Downloads,
                        row[d] = "completed", row'[d] # "completed"
                 PROVE  d \in asked
      OBVIOUS
    <2>1. Next /\ TypeOK /\ At(d)
      BY DEF vars, disk, WorkInv, Places
    <2>2. ~Abort(d)
      BY <2>1 DEF At, NewOf, Abort, Early
    <2>3. ~Start
      BY <2>1, StartRows DEF Start, StartRow
    <2>4. evs # <<>> /\ Head(evs).d = d /\ (Head(evs).kind \notin Removals \/ DeleteRow)
      BY <2>1, <2>2, <2>3, RowsStay
    <2>5. 1 \in DOMAIN evs /\ evs[1] = Head(evs)
      <3>1. evs \in Seq(EventType)
        BY <2>1 DEF TypeOK, EventType
      <3> QED BY <2>4, <3>1
    <2>6. Head(evs).kind \in Removals
      BY <2>1, <2>4, <2>5 DEF At, EndOf, OnlyRemovals
    <2>7. Removed(d)
      BY <2>4, <2>5, <2>6 DEF Removed
    <2> QED BY <2>1, <2>7 DEF At, EndOf
  <1>4. WorkInv /\ [Next]_vars =>
          [\A d \in Downloads : row[d] = "completed" /\ row'[d] # "completed" => d \in asked]_vars
    BY <1>3
  <1> QED BY <1>1, <1>2, <1>4, PTL DEF Spec, CompletedStays

-----------------------------------------------------------------------------
(* What is queued or under way: somebody works on it, or something is to   *)
(* be stored about it.  As long as the last that was told is that it is    *)
(* queued or has started, somebody does.                                   *)
Working(d) == Engaged(d) \/ CalledTo(d, "wait") \/ CalledTo(d, "publish")
Moves(d) ==
  /\ Unsettled(d) => Working(d)
  /\ row[d] \in {"queued", "downloading"} => Working(d) \/ Pending(d)
Stops == \A w \in Workers : run[w].pc = "stopped" => run[w].stop # "no"
AllMove == phase = "up" => \A d \in Downloads : Moves(d)
MoveInv == WorkInv /\ Stops /\ AllMove

LEMMA MovesStill ==
  ASSUME NEW d, Moves(d), row'[d] = row[d], Working(d) => Working(d)',
         Unsettled(d)' => Unsettled(d), Pending(d) => Pending(d)'
  PROVE  Moves(d)'
  BY DEF Moves

LEMMA MovesOthers ==
  ASSUME AllMove, NEW d \in Downloads, OnlyAt(d), phase' = phase, phase = "up" => Moves(d)'
  PROVE  AllMove'
  <1> SUFFICES ASSUME phase = "up", NEW e \in Downloads, e # d PROVE Moves(e)'
    BY DEF AllMove
  <1>1. Same(e) /\ Moves(e)
    BY DEF OnlyAt, AllMove
  <1>2. Working(e)' <=> Working(e)
    BY <1>1, SamePlaces, SameEngaged DEF Same, Working
  <1> QED BY <1>1, <1>2 DEF Moves, Same, SameState, SameEvents

LEMMA StopsStay ==
  ASSUME TypeOK, Idlers, Stops, Races = {}, [Next]_vars
  PROVE  Stops'
  <1> SUFFICES ASSUME NEW w \in Workers, run'[w].pc = "stopped" PROVE run'[w].stop # "no"
    BY DEF Stops
  <1>1. run \in [Workers -> RunRecord]
    BY DEF TypeOK, RunRecord
  <1>2. CASE run'[w] = run[w]
    BY <1>2 DEF Stops
  <1>3. ASSUME NEW v \in Workers, WorkerStep(v) \/ TransferFails(v) PROVE run'[w].stop # "no"
    <2>1. (\E l \in {"transfer", "complete", "error"} : RunTo(v, l)) \/ TransferStops(v)
            \/ \E r \in RunRecord : r.pc # "stopped" /\ run' = [run EXCEPT ![v] = r]
      <3>1. IdleRun \in RunRecord /\ IdleRun.pc = "idle"
        BY DEF IdleRun, RunRecord
      <3>2. ASSUME NEW d \in Downloads
            PROVE  [pc |-> "open", d |-> d, stop |-> "no"] \in RunRecord
        BY DEF RunRecord
      <3>3. ASSUME NEW d \in Downloads, Take(v, d)
            PROVE  \E r \in RunRecord : r.pc # "stopped" /\ run' = [run EXCEPT ![v] = r]
        BY <3>2, <3>3 DEF Take
      <3> QED
        BY <1>3, <3>1, <3>3 DEF WorkerStep, OpenWorkingFile, Transferred, TransferFails, Finish
    <2>2. run[w] \in RunRecord /\ (run[w].pc = "stopped" => run[w].stop # "no")
      BY <1>1 DEF Stops
    <2> QED BY <1>1, <2>1, <2>2 DEF RunTo, TransferStops, RunRecord
  <1>4. ASSUME NEW c \in Callers, NEW d \in Downloads, Calls(c, d) PROVE run'[w].stop # "no"
    <2>1. UNCHANGED run \/ \E x \in {"pause", "cancel"} : run' = [run EXCEPT ![holder[d]].stop = x]
            \/ run' = [run EXCEPT ![holder[d]].stop = run[holder[d]].stop]
      BY <1>4 DEF Calls, Pause, PauseStored, ResumeHot, ResumeCold, Cancel, pool
    <2>2. run[w] \in RunRecord /\ (run[w].pc = "stopped" => run[w].stop # "no")
      BY <1>1 DEF Stops
    <2> QED BY <1>1, <2>1, <2>2 DEF RunRecord
  <1>5. ASSUME Shutdown PROVE run'[w].stop # "no"
    <2>1. run'[w] = run[w] \/ run'[w] = [run[w] EXCEPT !.stop = "pause"]
      BY <1>5 DEF Shutdown
    <2>2. run[w] \in RunRecord
      BY <1>1
    <2> QED BY <1>2, <2>1, <2>2 DEF RunRecord
  <1>6. ASSUME Exit \/ Kill PROVE FALSE
    BY <1>6 DEF Exit, Kill, Gone, IdleRun
  <1>7. ASSUME NEW d \in Downloads, Request(d) \/ EnqueueStep(d) \/ Abort(d) PROVE run'[w] = run[w]
    BY <1>7 DEF Request, EnqueueStep, LookForFinal, LookForSurge, Reserve, Dispatch, PublishQueued, Abort
  <1>8. ASSUME EventStep PROVE run'[w] = run[w]
    BY <1>8 DEF EventStep, StoreQueued, StoreStarted, StorePaused, StorePausedRow, Promote,
       StoreCompleted, PromoteFails, StoreError, DeleteRow, DeleteWorkingFile, HandlerKeeps
  <1>9. ASSUME NEW c \in Callers, CallerStep(c) PROVE run'[w] = run[w]
    BY <1>9 DEF CallerStep, Add, CancelWaited, NotFound, PublishRemoved, ResumeStored
  <1>10. ASSUME CloseInput \/ Start PROVE run'[w] = run[w]
    BY <1>10 DEF CloseInput, Start
  <1>11. ASSUME UNCHANGED vars PROVE run'[w] = run[w]
    BY <1>11 DEF vars
  <1> QED BY <1>2, <1>3, <1>4, <1>5, <1>6, <1>7, <1>8, <1>9, <1>10, <1>11 DEF Next

(* The steps of an enqueue.                                                *)
LEMMA EnqueueMoves ==
  ASSUME MoveInv, phase = "up", NEW d \in Downloads,
         Request(d) \/ EnqueueStep(d) \/ Abort(d)
  PROVE  AllMove'
  <1>0. At(d) /\ Moves(d)
    BY DEF MoveInv, WorkInv, Places, AllMove
  <1>1. UNCHANGED <<run, call, entry, toResume, phase>> /\ queued \subseteq queued'
    BY DEF Request, EnqueueStep, LookForFinal, LookForSurge, Reserve, Dispatch, PublishQueued,
       Abort, pool, program
  <1>2. Working(d) => Working(d)'
    BY <1>1 DEF Working, Engaged, On, CalledTo
  <1>3. CASE Request(d) \/ LookForFinal(d) \/ LookForSurge(d) \/ Reserve(d) \/ Dispatch(d)
    <2>1. UNCHANGED <<row, evs>>
      BY <1>3 DEF Request, LookForFinal, LookForSurge, Reserve, Dispatch, disk
    <2>2. Moves(d)'
      BY <1>0, <1>2, <2>1, SilentKeepsEvents, MovesStill DEF SameEvents
    <2>3. OnlyAt(d)
      BY <1>3, NamingStep, DispatchStep DEF MoveInv
    <2> QED BY <1>1, <2>2, <2>3, MovesOthers DEF MoveInv
  <1>4. CASE PublishQueued(d)
    <2>1. enq[d] = "publish" /\ Tell(Event("queued", d)) /\ row' = row
      BY <1>4 DEF PublishQueued, disk
    <2>2. Event("queued", d) \in EventType /\ Event("queued", d).d = d
      BY EventTypes DEF EventKinds, MoveInv, WorkInv, Event
    <2>3. Pending(d)'
      BY <2>1, <2>2, TellTells DEF MoveInv, WorkInv
    <2>4. Working(d)'
      BY <1>0, <1>2, <2>1 DEF At, NewOf, Working
    <2>5. OnlyAt(d)
      BY <1>4, PublishQueuedStep DEF MoveInv
    <2> QED BY <1>1, <2>3, <2>4, <2>5, MovesOthers DEF MoveInv, Moves
  <1>5. CASE Abort(d)
    <2> DEFINE x == [kind |-> "error", d |-> d, name |-> InferredName(d)]
    <2>1. Tell(x) /\ row' = [row EXCEPT ![d] = "error"]
      BY <1>5 DEF Abort
    <2>2. x \in EventType /\ x.d = d /\ x.kind = "error"
      BY LifecycleAssumption DEF EventType, EventKinds, InferredName
    <2> HIDE DEF x
    <2>3. Pending(d)' /\ ~Unsettled(d)'
      BY <2>1, <2>2, TellTells DEF MoveInv, WorkInv
    <2>4. OnlyAt(d)
      BY <1>5, AbortStep DEF MoveInv
    <2> QED BY <1>1, <2>3, <2>4, MovesOthers DEF MoveInv, Moves
  <1> QED BY <1>3, <1>4, <1>5 DEF EnqueueStep

(* The steps of a worker: what it lets go of it tells of, or somebody who  *)
(* removes it waits.                                                       *)
LEMMA WorkerMoves ==
  ASSUME MoveInv, Races = {}, phase = "up", NEW w \in Workers,
         WorkerStep(w) \/ TransferFails(w)
  PROVE  AllMove'
  <1>1. ASSUME NEW d \in Downloads, Take(w, d) PROVE AllMove'
    <2>1. Tell(Event("started", d)) /\ UNCHANGED <<phase, row>> /\ entry' = [entry EXCEPT ![d] = "active"]
      BY <1>1 DEF Take, program, disk
    <2>2. Event("started", d) \in EventType /\ Event("started", d).d = d
      BY EventTypes DEF EventKinds, MoveInv, WorkInv, Event
    <2>3. Pending(d)'
      BY <2>1, <2>2, TellTells DEF MoveInv, WorkInv
    <2>4. Working(d)'
      BY <2>1 DEF Working, Engaged, MoveInv, WorkInv, TypeOK
    <2>5. OnlyAt(d)
      BY <1>1, TakeStep DEF MoveInv
    <2> QED BY <2>1, <2>3, <2>4, <2>5, MovesOthers DEF MoveInv, Moves
  <1>2. PICK d : d = run[w].d
    OBVIOUS
  <1>3. CASE OpenWorkingFile(w) \/ Transferred(w) \/ TransferFails(w) \/ TransferStops(w)
    <2>1. /\ run[w].pc # "idle" /\ UNCHANGED <<row, evs, pool, call, toResume, phase>>
          /\ \E l : RunTo(w, l)
      BY <1>3 DEF OpenWorkingFile, Transferred, TransferFails, TransferStops, disk, requests, program
    <2>2. d \in Downloads
      BY <1>2, <2>1, OneRunOf DEF MoveInv
    <2>3. Moves(d)
      BY <2>2 DEF MoveInv, AllMove
    <2>4. On(d)' <=> On(d)
      BY <2>1 DEF On, RunTo, MoveInv, WorkInv, TypeOK
    <2>5. Working(d)' <=> Working(d)
      BY <2>1, <2>4 DEF Working, Engaged, CalledTo, pool
    <2>6. Moves(d)'
      BY <2>1, <2>2, <2>3, <2>5, SilentKeepsEvents, MovesStill DEF SameEvents
    <2>7. OnlyAt(d)
      BY <1>2, <1>3, TransferStep DEF MoveInv
    <2> QED BY <2>1, <2>2, <2>6, <2>7, MovesOthers DEF MoveInv
  <1>4. CASE Finish(w)
    <2>1. /\ run[w].pc \in {"complete", "error", "stopped"}
          /\ UNCHANGED <<row, call, phase>>
          /\ entry' = [entry EXCEPT ![d] =
               IF run[w].stop # "pause" THEN "none"
               ELSE IF holder[d] = w /\ @ = "pausing" THEN "paused" ELSE @]
          /\ UNCHANGED evs \/ \E k \in Outcome(w) : Tell(Event(k, d))
          /\ Outcome(w) # {} => \E k \in Outcome(w) : Tell(Event(k, d))
      BY <1>2, <1>4 DEF Finish, disk, requests, program
    <2>2. d \in Downloads /\ RunOf(w, d)
      BY <1>2, <2>1, OneRunOf DEF MoveInv
    <2>3. CASE run[w].stop = "pause" \/ CalledTo(d, "wait")
      <3>1. Working(d)'
        <4>1. CASE CalledTo(d, "wait")
          BY <2>1, <4>1 DEF Working, CalledTo
        <4>2. CASE run[w].stop = "pause" /\ ~CalledTo(d, "wait")
          <5>1. entry'[d] = "paused"
            BY <2>1, <2>2, <4>2 DEF RunOf, MoveInv, WorkInv, TypeOK
          <5> QED BY <5>1 DEF Working, Engaged
        <4> QED BY <2>3, <4>1, <4>2
      <3> QED
        BY <1>2, <1>4, <2>1, <2>2, <3>1, FinishStep, MovesOthers DEF Moves, MoveInv
    <2>4. CASE run[w].stop = "no"
      <3>1. Outcome(w) = {run[w].pc} /\ run[w].pc \in {"complete", "error"}
        BY <2>1, <2>4 DEF Outcome, MoveInv, Stops
      <3>2. PICK k \in {"complete", "error"} : Tell(Event(k, d))
        BY <2>1, <3>1
      <3>3. Event(k, d) \in EventType /\ Event(k, d).d = d /\ Event(k, d).kind = k
        BY <2>2, EventTypes DEF EventKinds, MoveInv, WorkInv, Event
      <3>4. Pending(d)' /\ ~Unsettled(d)'
        BY <2>2, <3>2, <3>3, TellTells DEF MoveInv, WorkInv
      <3> QED
        BY <1>2, <1>4, <2>1, <2>2, <3>4, FinishStep, MovesOthers DEF Moves, MoveInv
    <2> QED BY <2>2, <2>3, <2>4 DEF RunOf
  <1> QED BY <1>1, <1>3, <1>4 DEF WorkerStep

(* The steps of the event worker: what it stores last is not that the      *)
(* download is under way, unless somebody works on it.                     *)
LEMMA EventMoves ==
  ASSUME MoveInv, phase = "up", EventStep
  PROVE  AllMove'
  <1>0. PICK d : d = Head(evs).d
    OBVIOUS
  <1>1. /\ evs # <<>> /\ UNCHANGED <<pool, run, call, phase, toResume>>
        /\ Handled \/ UNCHANGED evs
    BY DEF EventStep, StoreQueued, StoreStarted, StorePaused, StorePausedRow, Promote,
       StoreCompleted, PromoteFails, StoreError, DeleteRow, DeleteWorkingFile, HeadIs, HandlerKeeps,
       requests, program
  <1>2. d \in Downloads
    <2>1. evs \in Seq(EventType)
      BY DEF MoveInv, WorkInv, TypeOK, EventType
    <2>2. Head(evs) \in EventType
      BY <1>1, <2>1
    <2> QED BY <1>0, <2>2 DEF EventType
  <1>3. At(d) /\ Moves(d)
    BY <1>2 DEF MoveInv, WorkInv, Places, AllMove
  <1>4. Working(d)' <=> Working(d)
    BY <1>1 DEF Working, Engaged, On, CalledTo, pool
  <1>5. OnlyAt(d)
    BY <1>0, EventStepStays DEF MoveInv
  <1>6. Moves(d)'
    <2>1. CASE UNCHANGED evs
      <3>1. row' = row \/ row' = [row EXCEPT ![d] = "none"]
        BY <1>0, <1>1, <2>1 DEF EventStep, StoreQueued, StoreStarted, StorePaused, StorePausedRow,
           Promote, StoreCompleted, PromoteFails, StoreError, DeleteRow, DeleteWorkingFile,
           Handled, HeadIs, SetRow, MoveInv, WorkInv, Halves
      <3>2. row'[d] = row[d] \/ row'[d] = "none"
        BY <1>2, <3>1 DEF MoveInv, WorkInv, TypeOK
      <3> QED
        BY <1>2, <1>3, <1>4, <2>1, <3>2, SilentKeepsEvents DEF Moves, SameEvents
    <2>2. CASE Handled /\ evs' # evs
      <3>1. /\ Unsettled(d)' => Unsettled(d)
            /\ Unsettled(d) => Unsettled(d)' \/ ~Pending(d)'
            /\ ~Pending(d)' /\ Head(evs).kind \in {"queued", "started"} => Unsettled(d)
        BY <1>0, <1>1, <1>2, <2>2, HandledTakes DEF MoveInv, WorkInv
      <3>2. Head(evs).kind \in {"queued", "started"} \/ row'[d] \notin {"queued", "downloading"}
        <4>1. row \in [Downloads -> Statuses]
          BY DEF MoveInv, WorkInv, TypeOK
        <4>2. CASE \E s \in {"paused", "completed", "error"} : SetRow(d, s)
          BY <1>2, <4>1, <4>2 DEF SetRow
        <4>3. CASE row' = row /\ row[d] = "none"
          BY <4>3
        <4>4. CASE DeleteWorkingFile
          <5>1. row' = row /\ d \in gone
            BY <1>0, <4>4 DEF DeleteWorkingFile, HeadIs, MoveInv, WorkInv, Halves, Removals
          <5> QED BY <1>3, <5>1 DEF At, EndOf
        <4>5. StorePaused \/ StorePausedRow \/ StoreCompleted \/ PromoteFails \/ StoreError =>
                \/ \E s \in {"paused", "completed", "error"} : SetRow(d, s)
                \/ row' = row /\ row[d] = "none"
          BY <1>0 DEF StorePaused, StorePausedRow, StoreCompleted, PromoteFails, StoreError
        <4>6. Promote \/ DeleteRow => UNCHANGED evs
          BY DEF Promote, DeleteRow
        <4>7. StoreQueued \/ StoreStarted => Head(evs).kind \in {"queued", "started"}
          BY DEF StoreQueued, StoreStarted, HeadIs
        <4> QED BY <2>2, <4>2, <4>3, <4>4, <4>5, <4>6, <4>7 DEF EventStep
      <3> QED BY <1>3, <1>4, <3>1, <3>2 DEF Moves
    <2> QED BY <1>1, <2>1, <2>2
  <1> QED BY <1>1, <1>2, <1>5, <1>6, MovesOthers DEF MoveInv

(* The calls hand a download on to the pool, or its removal to the event   *)
(* worker.                                                                 *)
LEMMA CallerMoves ==
  ASSUME MoveInv, phase = "up", NEW c \in Callers, CallerStep(c)
  PROVE  AllMove'
  <1>1. /\ UNCHANGED <<row, run, entry, holder, phase>>
        /\ queued \subseteq queued'
    BY DEF CallerStep, Add, CancelWaited, NotFound, PublishRemoved, ResumeStored, disk, pool, program
  <1>2. ASSUME NEW d \in Downloads, ResumeStored(c, d) PROVE AllMove'
    <2>1. At(d) /\ d \in toResume /\ UNCHANGED evs /\ (Cold(d) => CallTo(c, "add", d))
      BY <1>2 DEF ResumeStored, MoveInv, WorkInv, Places
    <2>2. call' = [call EXCEPT ![c] = [pc |-> "add", d |-> d]]
      BY <2>1 DEF At, PlaceOf, Cold, CallTo
    <2>3. call'[c].pc = "add" /\ call'[c].d = d
      BY <2>2 DEF MoveInv, WorkInv, TypeOK
    <2>4. Working(d)'
      BY <2>3 DEF Working, Engaged, CalledTo
    <2>5. OnlyAt(d)
      BY <1>2, ResumeStoredStep DEF MoveInv
    <2> QED BY <1>1, <2>4, <2>5, MovesOthers DEF Moves, MoveInv
  <1>3. PICK d : d = call[c].d
    OBVIOUS
  <1>4. ASSUME Add(c) \/ CancelWaited(c) \/ NotFound(c) \/ PublishRemoved(c) PROVE AllMove'
    <2>1. call[c].pc \in {"add", "wait", "look", "publish"} /\ UNCHANGED toResume
      BY <1>4 DEF Add, CancelWaited, NotFound, PublishRemoved, program
    <2>2. /\ d \in Downloads /\ CallOf(c, d)
          /\ \A l : CalledTo(d, l) <=> call[c].pc = l
      BY <1>3, <2>1, OneCallOf DEF MoveInv
    <2>3. Moves(d)
      BY <2>2 DEF MoveInv, AllMove
    <2>4. OnlyAt(d)
      BY <1>3, <1>4, AddStep, CancelWaitedStep, NotFoundStep, PublishRemovedStep DEF MoveInv
    <2>5. CASE Add(c)
      <3>1. Working(d)'
        BY <1>3, <2>5 DEF Add, Working, Engaged
      <3> QED BY <1>1, <2>2, <2>4, <3>1, MovesOthers DEF Moves, MoveInv
    <2>6. CASE CancelWaited(c)
      <3>1. call'[c].pc = "publish" /\ call'[c].d = d
        BY <1>3, <2>6 DEF CancelWaited, CallTo, MoveInv, WorkInv, TypeOK
      <3>2. Working(d)'
        BY <3>1 DEF Working, CalledTo
      <3> QED BY <1>1, <2>2, <2>4, <3>2, MovesOthers DEF Moves, MoveInv
    <2>7. CASE NotFound(c)
      <3>1. ~Working(d) /\ UNCHANGED evs
        BY <2>2, <2>7 DEF NotFound, Working, Engaged, CallOf
      <3>2. Moves(d)'
        BY <1>1, <2>2, <2>3, <3>1, SilentKeepsEvents, MovesStill DEF SameEvents
      <3> QED BY <1>1, <2>2, <2>4, <3>2, MovesOthers DEF MoveInv
    <2>8. CASE PublishRemoved(c)
      <3>1. PICK k \in Removals : Tell(Event(k, d))
        BY <1>3, <2>8 DEF PublishRemoved, Removals
      <3>2. Event(k, d) \in EventType /\ Event(k, d).d = d /\ Event(k, d).kind = k
        BY <2>2, EventTypes DEF EventKinds, MoveInv, WorkInv, Event, Removals
      <3>3. Pending(d)' /\ ~Unsettled(d)'
        BY <2>2, <3>1, <3>2, TellTells DEF MoveInv, WorkInv, Removals
      <3> QED BY <1>1, <2>2, <2>4, <3>3, MovesOthers DEF Moves, MoveInv
    <2> QED BY <1>4, <2>5, <2>6, <2>7, <2>8
  <1> QED BY <1>2, <1>4 DEF CallerStep

LEMMA CallsMove ==
  ASSUME MoveInv, Races = {}, phase = "up", NEW c \in Callers, NEW d \in Downloads, Calls(c, d)
  PROVE  AllMove'
  <1>1. /\ call[c].pc = "idle" /\ Listed(d) /\ UNCHANGED <<row, holder, phase>>
        /\ At(d) /\ Moves(d)
    BY DEF Calls, Pause, PauseStored, ResumeHot, ResumeCold, Cancel, MayCall, disk, pool, program,
       MoveInv, WorkInv, Places, AllMove
  <1>2. OnlyAt(d)
    BY PauseStep, PauseStoredStep, ResumeHotStep, ResumeColdStep, CancelStep DEF Calls, MoveInv
  <1>3. ASSUME Moves(d)' PROVE AllMove'
    BY <1>1, <1>2, <1>3, MovesOthers DEF MoveInv
  <1>4. CASE Pause(c, d)
    <2>1. entry'[d] # "none"
      BY <1>4 DEF Pause, MoveInv, WorkInv, TypeOK
    <2> QED BY <1>3, <2>1 DEF Moves, Working, Engaged
  <1>5. CASE PauseStored(c, d)
    <2>1. Tell(Event("pausedRow", d)) /\ UNCHANGED <<pool, run, call, toResume>>
      BY <1>5 DEF PauseStored, requests, program
    <2>2. Event("pausedRow", d) \in EventType /\ Event("pausedRow", d).d = d
          /\ Event("pausedRow", d).kind = "pausedRow"
      BY EventTypes DEF EventKinds, MoveInv, WorkInv, Event
    <2>3. Pending(d)' /\ ~Unsettled(d)'
      BY <2>1, <2>2, TellTells DEF MoveInv, WorkInv
    <2> QED BY <1>3, <2>3 DEF Moves
  <1>6. CASE ResumeHot(c, d) \/ ResumeCold(c, d)
    <2>1. call'[c] = [pc |-> "add", d |-> d]
      BY <1>6 DEF ResumeHot, ResumeCold, CallTo, MoveInv, WorkInv, TypeOK
    <2> QED BY <1>3, <2>1 DEF Moves, Working, Engaged, CalledTo
  <1>7. CASE Cancel(c, d)
    <2>1. /\ d \notin toResume /\ \A b \in Callers : call[b].d # d
          /\ UNCHANGED evs
          /\ CallTo(c, CASE entry[d] \in {"active", "pausing"} -> "wait"
                         [] entry[d] = "paused" \/ d \in queued -> "publish"
                         [] OTHER -> "look", d)
      BY <1>7 DEF Cancel, MayRemove
    <2>2. entry[d] \in {"none", "active", "pausing", "paused"}
      BY DEF MoveInv, WorkInv, TypeOK
    <2>3. CASE entry[d] \in {"active", "pausing"}
      <3>1. d \notin queued
        BY <1>1, <2>3 DEF At, PlaceOf
      <3>2. CallTo(c, "wait", d)
        BY <2>1, <2>3, <3>1
      <3>3. call'[c] = [pc |-> "wait", d |-> d]
        BY <3>2 DEF CallTo, MoveInv, WorkInv, TypeOK
      <3> QED BY <1>3, <3>3 DEF Moves, Working, CalledTo
    <2>4. CASE entry[d] \notin {"active", "pausing"} /\ (entry[d] = "paused" \/ d \in queued)
      <3>1. CallTo(c, "publish", d)
        BY <2>1, <2>4
      <3>2. call'[c] = [pc |-> "publish", d |-> d]
        BY <3>1 DEF CallTo, MoveInv, WorkInv, TypeOK
      <3> QED BY <1>3, <3>2 DEF Moves, Working, CalledTo
    <2>5. CASE entry[d] = "none" /\ d \notin queued
      <3>1. ~Working(d)
        BY <1>1, <2>1, <2>5 DEF Working, Engaged, On, CalledTo, At, RunOf
      <3>2. Moves(d)'
        BY <1>1, <2>1, <3>1, SilentKeepsEvents, MovesStill DEF SameEvents
      <3> QED BY <1>3, <3>2
    <2> QED BY <2>2, <2>3, <2>4, <2>5
  <1> QED BY <1>4, <1>5, <1>6, <1>7 DEF Calls

(* What the start of the program finds under way is resumed or paused.     *)
LEMMA StartMoves ==
  ASSUME MoveInv, Integrity = TRUE, Start
  PROVE  AllMove'
  <1>1. Nothing /\ UNCHANGED evs
    BY DEF Start, MoveInv, WorkInv
  <1>2. /\ \A d \in Downloads : row'[d] = Validated(Normalized)[d]
        /\ \A d \in Downloads : row'[d] = "queued" => d \in toResume'
    BY DEF Start
  <1>3. ASSUME NEW d \in Downloads PROVE Moves(d)'
    <2>1. ~Unsettled(d)'
      BY <1>1 DEF Nothing, Unsettled
    <2>2. row'[d] # "downloading"
      BY <1>2 DEF Validated, Normalized
    <2> QED BY <1>2, <2>1, <2>2 DEF Moves, Working, Engaged
  <1> QED BY <1>3 DEF AllMove

LEMMA PhaseStays ==
  ASSUME Next
  PROVE  phase' = phase \/ phase' # "up" \/ Start
  <1>1. ASSUME NEW d \in Downloads, Request(d) \/ EnqueueStep(d) \/ Abort(d) PROVE phase' = phase
    BY <1>1 DEF Request, EnqueueStep, LookForFinal, LookForSurge, Reserve, Dispatch, PublishQueued,
       Abort, program
  <1>2. ASSUME NEW w \in Workers, WorkerStep(w) \/ TransferFails(w) PROVE phase' = phase
    BY <1>2 DEF WorkerStep, Take, OpenWorkingFile, Transferred, TransferFails, TransferStops, Finish,
       program
  <1>3. ASSUME EventStep PROVE phase' = phase
    BY <1>3 DEF EventStep, StoreQueued, StoreStarted, StorePaused, StorePausedRow, Promote,
       StoreCompleted, PromoteFails, StoreError, DeleteRow, DeleteWorkingFile, HandlerKeeps, program
  <1>4. ASSUME NEW c \in Callers, CallerStep(c) PROVE phase' = phase
    BY <1>4 DEF CallerStep, Add, CancelWaited, NotFound, PublishRemoved, ResumeStored, program
  <1>5. ASSUME NEW c \in Callers, NEW d \in Downloads, Calls(c, d) PROVE phase' = phase
    BY <1>5 DEF Calls, Pause, PauseStored, ResumeHot, ResumeCold, Cancel, program
  <1>6. ASSUME Shutdown \/ CloseInput \/ Exit \/ Kill PROVE phase' # "up"
    BY <1>6 DEF Shutdown, CloseInput, Exit, Kill, Gone
  <1> QED BY <1>1, <1>2, <1>3, <1>4, <1>5, <1>6 DEF Next

LEMMA MoveStep ==
  ASSUME MoveInv, Races = {}, Integrity = TRUE, [Next]_vars
  PROVE  MoveInv'
  <1>1. WorkInv' /\ Stops'
    BY WorkStep, StopsStay DEF MoveInv, WorkInv
  <1>2. AllMove'
    <2>1. CASE UNCHANGED vars
      <3>1. ASSUME NEW d \in Downloads, phase = "up" PROVE Moves(d)'
        <4>1. Working(d)' <=> Working(d)
          BY <2>1 DEF Working, Engaged, On, CalledTo, vars, pool, requests, program
        <4> QED
          BY <2>1, <3>1, <4>1, SilentKeepsEvents, MovesStill DEF SameEvents, MoveInv, AllMove, vars, disk
      <3> QED BY <2>1, <3>1 DEF AllMove, vars, program
    <2>2. CASE Next /\ phase # "up"
      <3>1. phase' = phase \/ phase' # "up" \/ Start
        BY <2>2, PhaseStays
      <3>2. CASE Start
        BY <3>2, StartMoves
      <3>3. CASE phase' # "up"
        BY <3>3 DEF AllMove
      <3> QED BY <2>2, <3>1, <3>2, <3>3
    <2>3. CASE Next /\ phase = "up"
      <3>1. ASSUME NEW d \in Downloads, Request(d) \/ EnqueueStep(d) \/ Abort(d) PROVE AllMove'
        BY <2>3, <3>1, EnqueueMoves
      <3>2. ASSUME NEW w \in Workers, WorkerStep(w) \/ TransferFails(w) PROVE AllMove'
        BY <2>3, <3>2, WorkerMoves
      <3>3. ASSUME NEW c \in Callers, CallerStep(c) PROVE AllMove'
        BY <2>3, <3>3, CallerMoves
      <3>4. ASSUME NEW c \in Callers, NEW d \in Downloads, Calls(c, d) PROVE AllMove'
        BY <2>3, <3>4, CallsMove
      <3>5. ASSUME Shutdown \/ CloseInput \/ Exit \/ Kill \/ Start PROVE AllMove'
        BY <2>3, <3>5 DEF Shutdown, CloseInput, Exit, Kill, Gone, Start, AllMove
      <3> QED BY <2>3, <3>1, <3>2, <3>3, <3>4, <3>5, EventMoves DEF Next
    <2> QED BY <2>1, <2>2, <2>3
  <1> QED BY <1>1, <1>2 DEF MoveInv

(* Nothing looks queued or under way for ever, if the start of the program *)
(* checks its rows.                                                        *)
THEOREM NothingStaysFrozen ==
  ASSUME Races = {}, Integrity = TRUE
  PROVE  Spec => []NothingFrozen
  <1>1. Init => MoveInv
    <2>1. Init => Stops
      BY DEF Init, Stops, IdleRun
    <2>2. Init => \A d \in Downloads : ~Unsettled(d) /\ row[d] = "none"
      BY DEF Init, Unsettled
    <2> QED BY <2>1, <2>2, WorkInit DEF MoveInv, AllMove, Moves
  <1>2. MoveInv /\ [Next]_vars => MoveInv'
    BY MoveStep
  <1>3. MoveInv => NothingFrozen
    <2> SUFFICES ASSUME MoveInv, NEW d \in Downloads, phase = "up", AtRest(d)
                 PROVE  row[d] \notin {"queued", "downloading"}
      BY DEF NothingFrozen
    <2>1. ~Working(d) /\ ~Pending(d)
      BY DEF AtRest, AtWork, Working, Engaged, On, CalledTo
    <2> QED BY <2>1 DEF MoveInv, AllMove, Moves
  <1> QED BY <1>1, <1>2, <1>3, PTL DEF Spec

-----------------------------------------------------------------------------
(* The files.  Downloads that want one name are the case in which it       *)
(* matters; with other names "reuse" does not rule out all it is about.    *)
OneName == \A d, e \in Downloads : Wanted[d] = Wanted[e]
Solo(d) == Downloads = {d}

(* A download that may still use its name: it has its working file or its  *)
(* final one, unless it is alone and has failed.                           *)
Live(d) ==
  \/ Working(d) \/ Pending(d) \/ enq[d] \in {"dispatch", "publish"}
  \/ row[d] \in {"queued", "downloading", "paused", "completed"}
  \/ CalledTo(d, "look") /\ row[d] # "none"
Has(d) == dest[d] # NoName /\ (surge[dest[d]] = d \/ final[dest[d]] = d)
Safe(d) == dest[d] # NoName /\ (Has(d) \/ (Solo(d) /\ d \in failed))

(* A run has its working file until it ends, and what failed is not called *)
(* for but alone.                                                          *)
FileRun(w, d) ==
  /\ run[w].pc \in {"transfer", "complete"} => surge[dest[d]] = d
  /\ run[w].pc = "error" => d \in failed /\ (Solo(d) \/ ~Called(d))
  /\ row[d] # "none" \/ StartPending(d)
FileRow(d) ==
  /\ row[d] # "none" => dest[d] # NoName
  /\ row[d] = "error" => d \in failed
  /\ row[d] = "completed" => final[dest[d]] = d
  /\ Unstarted(d) => row[d] # "none"
  /\ ErrorPending(d) => d \in failed /\ (Solo(d) \/ (~Called(d) /\ ~Removed(d)))
  /\ d \in stored \ (asked \cup failed) => row[d] # "none" \/ (dest[d] # NoName /\ final[dest[d]] = d)
Looked(d) ==
  /\ enq[d] # "aborted"
  /\ enq[d] \in Early => dest[d] = NoName
  /\ enq[d] \in Early \ {"new"} => cand[d] # NoName
  /\ enq[d] \in {"surge?", "reserve"} => final[cand[d]] = Nobody
FileOf(d) ==
  /\ Live(d) => Safe(d)
  /\ \A w \in Workers : run[w].d = d => FileRun(w, d)
  /\ FileRow(d) /\ Looked(d)

(* A working file is its owner's, and stands in for a final one; an event  *)
(* has its download's name; half a completion is a renamed file.           *)
Reserved == \A n \in Names : surge[n] # Nobody => final[n] = Nobody /\ dest[surge[n]] = n
EventFine(e) == e.name = dest[e.d] /\ (e.kind = "complete" => Has(e.d))
EvsFine == \A i \in DOMAIN evs : EventFine(evs[i])
Renamed == half /\ Head(evs).kind = "complete" => final[dest[Head(evs).d]] = Head(evs).d

Files == \A d \in Downloads : FileOf(d)
FileInv == WorkInv /\ Files /\ Reserved /\ EvsFine /\ Renamed

(* A step that takes nothing of a download's off the disk.                 *)
Keeps(d) ==
  /\ dest'[d] = dest[d]
  /\ dest[d] # NoName =>
       /\ surge[dest[d]] = d => surge'[dest[d]] = d
       /\ final[dest[d]] = d => final'[dest[d]] = d
  /\ enq[d] \in {"surge?", "reserve"} => final'[cand[d]] = final[cand[d]]

LEMMA SameLive ==
  ASSUME NEW d \in Downloads, Same(d)
  PROVE  Live(d)' <=> Live(d)
  <1>1. Working(d)' <=> Working(d)
    BY SamePlaces, SameEngaged DEF Same, Working
  <1> QED BY <1>1, SamePlaces DEF Same, SameState, SameEvents, Live

LEMMA FileOthers ==
  ASSUME NEW d \in Downloads, FileOf(d), Same(d), Keeps(d)
  PROVE  FileOf(d)'
  <1>1. Live(d)' => Safe(d)'
    BY SameLive DEF FileOf, Safe, Has, Solo, Same, SameHistory, Keeps
  <1>2. ASSUME NEW w \in Workers, run'[w].d = d PROVE FileRun(w, d)'
    <2>1. run'[w] = run[w] /\ FileRun(w, d)
      BY <1>2 DEF FileOf, Same, SameRuns
    <2>2. dest[d] # NoName
      BY <1>2, <2>1 DEF FileOf, Safe, Live, Working, Engaged, On
    <2> QED
      BY <2>1, <2>2, SamePlaces DEF FileRun, Keeps, Same, SameState, SameHistory, SameEvents, Solo
  <1>3. FileRow(d)'
    BY SamePlaces DEF FileOf, FileRow, Keeps, Same, SameState, SameHistory, SameEvents, Solo
  <1>4. Looked(d)'
    BY DEF FileOf, Looked, Keeps, Same, SameState
  <1> QED BY <1>1, <1>2, <1>3, <1>4 DEF FileOf

FileRest == Files /\ Reserved /\ EvsFine /\ Renamed

LEMMA FilesStay ==
  ASSUME FileInv, NEW d \in Downloads, OnlyAt(d), FileOf(d)',
         \A e \in Downloads \ {d} : Keeps(e)
  PROVE  Files'
  <1>1. ASSUME NEW e \in Downloads, e # d PROVE FileOf(e)'
    BY <1>1, FileOthers DEF OnlyAt, FileInv, Files
  <1> QED BY <1>1 DEF Files

(* A step that leaves the files alone.                                     *)
StillDisk == UNCHANGED <<surge, final, dest>>

LEMMA StillFiles ==
  ASSUME FileInv, StillDisk, NEW d \in Downloads, OnlyAt(d), FileOf(d)', EvsFine' /\ Renamed'
  PROVE  FileRest'
  <1>1. \A e \in Downloads : Keeps(e)
    BY DEF StillDisk, Keeps
  <1>2. Files'
    BY <1>1, FilesStay
  <1>3. Reserved'
    BY DEF FileInv, Reserved, StillDisk
  <1> QED BY <1>2, <1>3 DEF FileRest

LEMMA SilentFine ==
  ASSUME FileInv, StillDisk, UNCHANGED <<evs, half>>
  PROVE  EvsFine' /\ Renamed'
  BY DEF FileInv, StillDisk, EvsFine, EventFine, Has, Renamed

LEMMA TellFine ==
  ASSUME FileInv, StillDisk, UNCHANGED half, NEW e \in EventType, Tell(e), EventFine(e)
  PROVE  EvsFine' /\ Renamed'
  <1>1. /\ DOMAIN evs = 1 .. Len(evs) /\ DOMAIN evs' = 1 .. Len(evs) + 1 /\ Len(evs) \in Nat
        /\ \A i \in 1 .. Len(evs) : evs'[i] = evs[i]
        /\ evs'[Len(evs) + 1] = e
        /\ evs # <<>> => Head(evs') = Head(evs)
    BY TellAppends DEF FileInv, WorkInv
  <1>2. \A i \in DOMAIN evs' : evs'[i] = e \/ (i \in DOMAIN evs /\ evs'[i] = evs[i])
    BY <1>1
  <1>3. \A x : EventFine(x)' <=> EventFine(x)
    BY DEF EventFine, Has, StillDisk
  <1>4. EvsFine'
    BY <1>2, <1>3 DEF EvsFine, EventFine, FileInv, Has, StillDisk
  <1>5. half => evs # <<>>
    BY DEF FileInv, WorkInv, Halves
  <1> QED BY <1>1, <1>4, <1>5 DEF FileInv, Renamed, StillDisk

LEMMA Solitary ==
  ASSUME OneName, Races = {}, NEW d \in Downloads, OnlyName(d), d \in failed
  PROVE  Solo(d)
  BY DEF OneName, OnlyName, Solo

(* The owner of a name that is still used.                                 *)
LEMMA OneOwner ==
  ASSUME FileInv, NEW d \in Downloads, Safe(d)
  PROVE  /\ dest[d] \in Names /\ dest[d] # NoName
         /\ surge[dest[d]] \in {d, Nobody}
         /\ \A e \in Downloads \ {d} : surge[dest[e]] = e \/ final[dest[e]] = e => dest[e] # dest[d]
  <1>1. /\ dest[d] \in Names /\ dest[d] # NoName
        /\ surge \in [Names -> Downloads \cup {Nobody}] /\ final \in [Names -> Downloads \cup {Nobody}]
        /\ Nobody \notin Downloads
    BY LifecycleAssumption DEF FileInv, WorkInv, TypeOK, Safe
  <1>2. surge[dest[d]] # Nobody => final[dest[d]] = Nobody
    BY <1>1 DEF FileInv, Reserved
  <1>3. surge[dest[d]] \in {d, Nobody}
    BY <1>1, <1>2 DEF Safe, Has, Solo
  <1>4. ASSUME NEW e \in Downloads \ {d}, surge[dest[e]] = e \/ final[dest[e]] = e, dest[e] = dest[d]
        PROVE  FALSE
    <2>1. Has(d)
      BY <1>4 DEF Safe, Solo
    <2> QED BY <1>1, <1>2, <1>4, <2>1 DEF Has
  <1> QED BY <1>1, <1>3, <1>4

(* Events stay fine if what they are about stays where it is.              *)
LEMMA KeptFine ==
  ASSUME FileInv, UNCHANGED <<evs, half>>, \A e \in Downloads : Pending(e) => Keeps(e)
  PROVE  EvsFine' /\ Renamed'
  <1>1. evs \in Seq(EventType) /\ (half => evs # <<>>)
    BY DEF FileInv, WorkInv, TypeOK, EventType, Halves
  <1>2. ASSUME NEW i \in DOMAIN evs PROVE evs[i].d \in Downloads /\ Keeps(evs[i].d)
    <2>1. evs[i] \in EventType
      BY <1>1
    <2> QED BY <2>1 DEF EventType, Pending
  <1>3. EvsFine'
    BY <1>2 DEF FileInv, EvsFine, EventFine, Has, Keeps
  <1>4. half => 1 \in DOMAIN evs /\ Head(evs) = evs[1]
    BY <1>1
  <1>5. Renamed'
    <2>1. SUFFICES ASSUME half, Head(evs).kind = "complete"
                   PROVE  final'[dest'[Head(evs).d]] = Head(evs).d
      BY DEF Renamed
    <2>0. PICK d : d = Head(evs).d
      OBVIOUS
    <2>2. d \in Downloads /\ Keeps(d) /\ Pending(d)
      BY <1>2, <1>4, <2>0, <2>1 DEF Pending
    <2>3. dest[d] # NoName
      BY <2>2 DEF FileInv, Files, FileOf, Live, Safe
    <2> QED BY <2>0, <2>1, <2>2, <2>3 DEF FileInv, Renamed, Keeps
  <1> QED BY <1>3, <1>5

-----------------------------------------------------------------------------
(* The steps of an enqueue.                                                *)
LEMMA NamingFiles ==
  ASSUME FileInv, phase # "down", NEW d \in Downloads,
         Request(d) \/ LookForFinal(d) \/ LookForSurge(d) \/ Reserve(d)
  PROVE  FileRest'
  <1>1. /\ enq[d] \in Early /\ enq'[d] \in (Early \cup {"dispatch"}) \ {"new"}
        /\ UNCHANGED <<final, row, pool, run, call, evs, half, program, history, used>>
        /\ OnlyAt(d)
    BY NamingEffect DEF FileInv, WorkInv, OnlyAt
  <1>2. /\ row[d] = "none" /\ ~Engaged(d) /\ ~Pending(d) /\ ~Called(d)
        /\ d \notin stored \cup failed
        /\ FileOf(d) /\ dest[d] = NoName
    BY <1>1 DEF FileInv, WorkInv, Files, FileOf, Looked, Places, At, NewOf
  <1>t. /\ surge \in [Names -> Downloads \cup {Nobody}] /\ dest \in [Downloads -> Names \cup {NoName}]
        /\ cand \in [Downloads -> Names \cup {NoName}]
        /\ enq \in [Downloads -> {"new", "final?", "surge?", "reserve", "dispatch", "publish",
                            "done", "aborted"}]
    BY DEF FileInv, WorkInv, TypeOK
  <1>3. /\ ~Pending(d)' /\ ~On(d)' /\ ~Called(d)' /\ ~Engaged(d)'
        /\ \A l : ~CalledTo(d, l)'
    BY <1>1, <1>2 DEF Pending, On, Called, CalledTo, Engaged, pool, program
  <1>4. FileRow(d)'
    BY <1>1, <1>2, <1>3 DEF FileRow, Unstarted, ErrorPending, Pending, history
  <1>5. ASSUME NEW w \in Workers PROVE run'[w].d # d
    BY <1>3 DEF On
  <1>6. CASE enq'[d] \in Early
    <2>1. UNCHANGED <<surge, dest>>
      BY <1>t, <1>6 DEF Request, LookForFinal, LookForSurge, Reserve, NextCandidate, EnqTo, Early, disk
    <2>2. cand'[d] # NoName
      BY <1>1, <1>2, <1>t, LifecycleAssumption DEF Request, LookForFinal, LookForSurge, Reserve,
         NextCandidate, BaseName, FileOf, Looked, Early, NoName, Names
    <2>3. enq'[d] \in {"surge?", "reserve"} => final'[cand'[d]] = Nobody
      <3>1. CASE Request(d) \/ NextCandidate(d)
        BY <1>t, <3>1 DEF Request, NextCandidate, EnqTo
      <3>2. CASE LookForFinal(d) /\ ~NextCandidate(d)
        BY <1>1, <3>2 DEF LookForFinal
      <3>3. CASE LookForSurge(d) /\ ~NextCandidate(d)
        BY <1>1, <1>2, <3>3 DEF LookForSurge, FileOf, Looked
      <3>4. CASE Reserve(d)
        BY <1>t, <1>6, <3>4 DEF Reserve, EnqTo, Early
      <3> QED BY <3>1, <3>2, <3>3, <3>4
    <2>4. Looked(d)'
      BY <1>1, <1>2, <1>6, <2>1, <2>2, <2>3 DEF Looked, Early
    <2>5. ~Live(d)'
      BY <1>1, <1>2, <1>3, <1>6 DEF Live, Working, Early
    <2>6. FileOf(d)'
      BY <1>4, <1>5, <2>4, <2>5 DEF FileOf
    <2> QED BY <1>1, <2>1, <2>6, StillFiles, SilentFine DEF StillDisk
  <1>7. CASE enq'[d] = "dispatch"
    <2>0. PICK n : n = cand[d]
      OBVIOUS
    <2>1. /\ enq[d] = "reserve" /\ surge[n] = Nobody
          /\ surge' = [surge EXCEPT ![n] = d] /\ dest' = [dest EXCEPT ![d] = n]
          /\ UNCHANGED cand
      BY <1>1, <1>t, <1>7, <2>0 DEF Request, LookForFinal, LookForSurge, Reserve, NextCandidate, EnqTo
    <2>2. n \in Names /\ n # NoName /\ final[n] = Nobody
      BY <1>2, <1>t, <2>0, <2>1 DEF FileOf, Looked, Early
    <2>3. /\ surge'[n] = d /\ \A m \in Names \ {n} : surge'[m] = surge[m]
          /\ dest'[d] = n /\ \A e \in Downloads \ {d} : dest'[e] = dest[e]
      BY <1>t, <2>1, <2>2
    <2>4. FileOf(d)'
      <3>1. Safe(d)'
        BY <2>2, <2>3 DEF Safe, Has
      <3>2. Looked(d)'
        BY <1>7 DEF Looked, Early
      <3> QED BY <1>4, <1>5, <3>1, <3>2 DEF FileOf
    <2>5. ASSUME NEW e \in Downloads \ {d} PROVE Keeps(e)
      <3>1. dest[e] # NoName /\ surge[dest[e]] = e => surge'[dest[e]] = e
        BY <1>t, <2>1, <2>3, LifecycleAssumption
      <3> QED BY <1>1, <2>3, <3>1 DEF Keeps
    <2>6. Files'
      BY <1>1, <2>4, <2>5, FilesStay
    <2>7. Reserved'
      <3>1. SUFFICES ASSUME NEW m \in Names, surge'[m] # Nobody
                     PROVE  final'[m] = Nobody /\ dest'[surge'[m]] = m
        BY DEF Reserved
      <3>2. CASE m = n
        BY <1>1, <2>2, <2>3, <3>2
      <3>3. CASE m # n
        <4>1. surge'[m] = surge[m] /\ surge[m] \in Downloads
          BY <1>t, <2>3, <3>1, <3>3
        <4>2. final[m] = Nobody /\ dest[surge[m]] = m
          BY <3>1, <4>1 DEF FileInv, Reserved
        <4>3. surge[m] # d
          BY <1>2, <4>2 DEF Names, NoName
        <4> QED BY <1>1, <2>3, <4>1, <4>2, <4>3
      <3> QED BY <3>2, <3>3
    <2>8. EvsFine' /\ Renamed'
      BY <1>1, <1>2, <2>5, KeptFine
    <2> QED BY <2>6, <2>7, <2>8 DEF FileRest
  <1> QED BY <1>1, <1>6, <1>7

LEMMA RowStill ==
  ASSUME NEW d \in Downloads, FileRow(d), StillDisk, row'[d] = row[d],
         ErrorPending(d)' => ErrorPending(d) /\ (Called(d)' => Called(d)) /\ (Removed(d)' => Removed(d)),
         Unstarted(d)' => Unstarted(d),
         d \in stored' => d \in stored, d \in asked => d \in asked', d \in failed => d \in failed'
  PROVE  FileRow(d)'
  BY DEF FileRow, StillDisk, Solo

LEMMA SafeStill ==
  ASSUME NEW d \in Downloads, StillDisk, Safe(d), d \in failed => d \in failed'
  PROVE  Safe(d)'
  BY DEF Safe, Has, Solo, StillDisk

LEMMA DispatchFiles ==
  ASSUME FileInv, phase # "down", NEW d \in Downloads, Dispatch(d)
  PROVE  FileRest'
  <1>1. /\ enq[d] = "dispatch" /\ enq'[d] = "publish" /\ StillDisk
        /\ UNCHANGED <<row, run, call, evs, half, stored, asked, failed>>
    BY DEF Dispatch, EnqTo, StillDisk, disk, history, FileInv, WorkInv, TypeOK
  <1>2. OnlyAt(d)
    BY DispatchStep DEF FileInv
  <1>3. FileOf(d) /\ Live(d) /\ ~On(d)
    BY <1>1 DEF FileInv, Files, Live, WorkInv, Places, At, NewOf, Engaged
  <1>4. FileOf(d)'
    <2>1. Safe(d)'
      BY <1>1, <1>3, SafeStill DEF FileOf
    <2>2. FileRow(d)'
      BY <1>1, <1>3, SilentKeepsEvents, RowStill DEF FileOf, SameEvents, Called
    <2>3. \A w \in Workers : run'[w].d # d
      BY <1>1, <1>3 DEF On
    <2>4. Looked(d)'
      BY <1>1 DEF Looked, Early
    <2> QED BY <2>1, <2>2, <2>3, <2>4 DEF FileOf
  <1> QED BY <1>1, <1>2, <1>4, StillFiles, SilentFine

LEMMA PublishQueuedFiles ==
  ASSUME FileInv, phase # "down", NEW d \in Downloads, PublishQueued(d)
  PROVE  FileRest'
  <1>1. /\ enq[d] = "publish" /\ enq'[d] = "done" /\ StillDisk /\ Tell(Event("queued", d))
        /\ UNCHANGED <<row, run, call, half, stored, asked, failed>>
    BY DEF PublishQueued, EnqTo, StillDisk, disk, history, FileInv, WorkInv, TypeOK
  <1>2. OnlyAt(d)
    BY PublishQueuedStep DEF FileInv
  <1>3. FileOf(d) /\ Live(d)
    BY <1>1 DEF FileInv, Files, Live
  <1>4. /\ Event("queued", d) \in EventType /\ Event("queued", d).d = d
        /\ Event("queued", d).kind = "queued" /\ EventFine(Event("queued", d))
    BY EventTypes DEF EventKinds, FileInv, WorkInv, Event, EventFine
  <1>5. /\ ErrorPending(d)' => ErrorPending(d)
        /\ Removed(d)' => Removed(d)
        /\ Unstarted(d)' => Unstarted(d)
        /\ StartPending(d) => StartPending(d)'
    BY <1>1, <1>4, TellTells DEF FileInv, WorkInv, Removals
  <1>6. FileOf(d)'
    <2>1. Safe(d)'
      BY <1>1, <1>3, SafeStill DEF FileOf
    <2>2. FileRow(d)'
      BY <1>1, <1>3, <1>5, RowStill DEF FileOf, Called
    <2>3. \A w \in Workers : run'[w].d = d => FileRun(w, d)'
      BY <1>1, <1>3, <1>5 DEF FileOf, FileRun, Called, StillDisk, Solo
    <2>4. Looked(d)'
      BY <1>1 DEF Looked, Early
    <2> QED BY <2>1, <2>2, <2>3, <2>4 DEF FileOf
  <1>7. EvsFine' /\ Renamed'
    BY <1>1, <1>4, TellFine
  <1> QED BY <1>1, <1>2, <1>6, <1>7, StillFiles

(* The steps of a worker.                                                  *)
LEMMA TakeFiles ==
  ASSUME FileInv, phase # "down", NEW w \in Workers, NEW d \in Downloads, Take(w, d)
  PROVE  FileRest'
  <1>1. /\ d \in queued /\ StillDisk /\ Tell(Event("started", d)) /\ run[w].pc = "idle"
        /\ run' = [run EXCEPT ![w] = [pc |-> "open", d |-> d, stop |-> "no"]]
        /\ UNCHANGED <<row, enq, cand, call, half, stored, asked, failed>>
    BY DEF Take, StillDisk, disk, requests, history
  <1>2. OnlyAt(d)
    BY TakeStep DEF FileInv
  <1>3. FileOf(d) /\ Live(d) /\ ~On(d) /\ ~Ended(d)
    BY <1>1 DEF FileInv, Files, Live, Working, Engaged, WorkInv, Places, At, PlaceOf, EndOf
  <1>4. /\ Event("started", d) \in EventType /\ Event("started", d).d = d
        /\ Event("started", d).kind = "started" /\ EventFine(Event("started", d))
    BY EventTypes DEF EventKinds, FileInv, WorkInv, Event, EventFine
  <1>5. /\ ErrorPending(d)' => ErrorPending(d)
        /\ Removed(d)' => Removed(d)
        /\ Unstarted(d)' => Unstarted(d)
        /\ StartPending(d)'
    BY <1>1, <1>4, TellTells DEF FileInv, WorkInv, Removals
  <1>6. /\ run'[w].pc = "open" /\ \A v \in Workers \ {w} : run'[v].d # d
    BY <1>1, <1>3 DEF On, FileInv, WorkInv, TypeOK
  <1>7. FileOf(d)'
    <2>1. Safe(d)'
      BY <1>1, <1>3, SafeStill DEF FileOf
    <2>2. FileRow(d)'
      BY <1>1, <1>3, <1>5, RowStill DEF FileOf, Called
    <2>3. \A v \in Workers : run'[v].d = d => FileRun(v, d)'
      BY <1>5, <1>6 DEF FileRun
    <2>4. Looked(d)'
      BY <1>1, <1>3 DEF FileOf, Looked, StillDisk
    <2> QED BY <2>1, <2>2, <2>3, <2>4 DEF FileOf
  <1>8. EvsFine' /\ Renamed'
    BY <1>1, <1>4, TellFine
  <1> QED BY <1>1, <1>2, <1>7, <1>8, StillFiles

LEMMA TransferFiles ==
  ASSUME FileInv, Races = {}, phase # "down", NEW w \in Workers,
         OpenWorkingFile(w) \/ Transferred(w) \/ TransferFails(w) \/ TransferStops(w)
  PROVE  FileRest'
  <1>0. PICK d : d = run[w].d
    OBVIOUS
  <1>1. /\ run[w].pc \in {"open", "transfer"} /\ StillDisk
        /\ UNCHANGED <<row, enq, cand, call, evs, half, stored, asked>>
        /\ failed' = failed \/ failed' = failed \cup {d}
        /\ \E l \in {"transfer", "complete", "error", "stopped"} : RunTo(w, l)
    BY <1>0 DEF OpenWorkingFile, Transferred, TransferFails, TransferStops, StillDisk, disk,
       requests, history
  <1>2. OnlyAt(d)
    BY <1>0, TransferStep DEF FileInv
  <1>3. /\ d \in Downloads /\ RunOf(w, d) /\ Engaged(d)
        /\ \A v \in Workers \ {w} : run[v].d # d
        /\ \A c \in Callers : call[c].d = d => call[c].pc = "wait" /\ CallOf(c, d)
    BY <1>0, <1>1, OneRunOf DEF FileInv, At
  <1>4. FileOf(d) /\ Live(d) /\ FileRun(w, d)
    BY <1>0, <1>3 DEF FileInv, Files, FileOf, Live, Working
  <1>5. Safe(d)
    BY <1>4 DEF FileOf
  <1>6. /\ run'[w].d = d /\ \A v \in Workers \ {w} : run'[v] = run[v]
        /\ \A l : RunTo(w, l) => run'[w].pc = l
    BY <1>0, <1>1 DEF RunTo, FileInv, WorkInv, TypeOK
  <1>7. FileRun(w, d)'
    <2>1. row'[d] # "none" \/ StartPending(d)'
      BY <1>1, <1>3, <1>4, SilentKeepsEvents DEF FileRun, SameEvents
    <2>2. run'[w].pc \in {"transfer", "complete"} => surge'[dest'[d]] = d
      <3>1. CASE OpenWorkingFile(w)
        <4>1. run'[w].pc = "transfer" => surge[dest[d]] # Nobody
          BY <1>0, <1>6, <3>1 DEF OpenWorkingFile
        <4> QED BY <1>1, <1>3, <1>5, <1>6, <3>1, <4>1, OneOwner DEF OpenWorkingFile, StillDisk
      <3>2. CASE Transferred(w)
        BY <1>0, <1>1, <1>4, <3>2 DEF Transferred, FileRun, StillDisk
      <3>3. CASE TransferFails(w) \/ TransferStops(w)
        BY <1>6, <3>3 DEF TransferFails, TransferStops
      <3> QED BY <3>1, <3>2, <3>3
    <2>3. run'[w].pc = "error" => d \in failed' /\ (Solo(d) \/ ~Called(d))'
      <3>1. SUFFICES ASSUME run'[w].pc = "error" PROVE d \in failed' /\ run[w].stop = "no"
        BY <1>1, <1>3 DEF RunOf, CallOf, Called
      <3>2. CASE OpenWorkingFile(w)
        BY <1>0, <1>6, <3>1, <3>2 DEF OpenWorkingFile
      <3>3. CASE TransferFails(w)
        BY <1>0, <3>3 DEF TransferFails
      <3>4. CASE Transferred(w) \/ TransferStops(w)
        BY <1>6, <3>1, <3>4 DEF Transferred, TransferStops
      <3> QED BY <3>2, <3>3, <3>4
    <2> QED BY <2>1, <2>2, <2>3 DEF FileRun
  <1>8. FileOf(d)'
    <2>1. Safe(d)'
      BY <1>1, <1>3, <1>5, SafeStill
    <2>2. FileRow(d)'
      BY <1>1, <1>3, <1>4, SilentKeepsEvents, RowStill DEF FileOf, SameEvents, Called
    <2>3. \A v \in Workers : run'[v].d = d => FileRun(v, d)'
      BY <1>3, <1>6, <1>7
    <2>4. Looked(d)'
      BY <1>1, <1>4 DEF FileOf, Looked, StillDisk
    <2> QED BY <2>1, <2>2, <2>3, <2>4 DEF FileOf
  <1> QED BY <1>1, <1>2, <1>3, <1>8, StillFiles, SilentFine

LEMMA FinishFiles ==
  ASSUME FileInv, Races = {}, phase # "down", NEW w \in Workers, Finish(w)
  PROVE  FileRest'
  <1>0. PICK d : d = run[w].d
    OBVIOUS
  <1>1. /\ run[w].pc \in {"complete", "error", "stopped"}
        /\ run' = [run EXCEPT ![w] = IdleRun] /\ StillDisk
        /\ UNCHANGED <<row, enq, cand, call, half, stored, asked, failed>>
        /\ \/ UNCHANGED evs
           \/ \E k \in {"paused", "complete", "error"} :
                Tell(Event(k, d)) /\ (k # "paused" => k = run[w].pc)
    BY <1>0, FinishEffect DEF StillDisk, disk, requests, history, FileInv
  <1>2. OnlyAt(d)
    BY <1>0, FinishStep DEF FileInv
  <1>3. /\ d \in Downloads /\ Engaged(d) /\ ~Ended(d)
        /\ \A v \in Workers \ {w} : run[v].d # d
    BY <1>0, <1>1, OneRunOf DEF FileInv
  <1>4. FileOf(d) /\ Live(d) /\ FileRun(w, d)
    BY <1>0, <1>3 DEF FileInv, Files, FileOf, Live, Working
  <1>5. \A v \in Workers : run'[v].d # d
    BY <1>1, <1>3, LifecycleAssumption DEF IdleRun, FileInv, WorkInv, TypeOK
  <1>6. Safe(d)' /\ Looked(d)'
    BY <1>1, <1>3, <1>4, SafeStill DEF FileOf, Looked, StillDisk
  <1>7. Called(d)' <=> Called(d)
    BY <1>1 DEF Called
  <1>8. CASE UNCHANGED evs
    <2>1. FileRow(d)'
      BY <1>1, <1>3, <1>4, <1>7, <1>8, SilentKeepsEvents, RowStill DEF FileOf, SameEvents
    <2>2. FileOf(d)'
      BY <1>5, <1>6, <2>1 DEF FileOf
    <2> QED BY <1>1, <1>2, <1>3, <1>8, <2>2, StillFiles, SilentFine
  <1>9. ASSUME NEW k \in {"paused", "complete", "error"},
               Tell(Event(k, d)), k # "paused" => k = run[w].pc
        PROVE  FileRest'
    <2>1. /\ Event(k, d) \in EventType /\ Event(k, d).d = d /\ Event(k, d).kind = k
          /\ Event(k, d).name = dest[d]
      BY <1>3, EventTypes DEF EventKinds, FileInv, WorkInv, Event
    <2>2. EventFine(Event(k, d))
      BY <1>4, <1>9, <2>1 DEF EventFine, Has, FileRun, FileOf, Safe
    <2>3. /\ ErrorPending(d)' => ErrorPending(d) \/ k = "error"
          /\ Removed(d)' <=> Removed(d)
          /\ Unstarted(d)' => Unstarted(d) \/ (k = "complete" /\ ~StartPending(d))
      BY <1>3, <1>9, <2>1, TellTells DEF FileInv, WorkInv, Removals
    <2>4. ~Removed(d)'
      BY <1>3, <2>3 DEF Removed, Ended, Removals, Ends
    <2>5. ErrorPending(d)' => d \in failed /\ (Solo(d) \/ ~Called(d))
      BY <1>4, <1>9, <2>3 DEF FileOf, FileRow, FileRun
    <2>6. Unstarted(d)' => row[d] # "none"
      BY <1>4, <2>3 DEF FileOf, FileRow, FileRun
    <2>7. FileRow(d)'
      BY <1>1, <1>4, <1>7, <2>4, <2>5, <2>6 DEF FileOf, FileRow, StillDisk, Solo
    <2>8. FileOf(d)'
      BY <1>5, <1>6, <2>7 DEF FileOf
    <2>9. EvsFine' /\ Renamed'
      BY <1>1, <1>9, <2>1, <2>2, TellFine
    <2> QED BY <1>1, <1>2, <1>3, <2>8, <2>9, StillFiles
  <1> QED BY <1>1, <1>8, <1>9

-----------------------------------------------------------------------------
(* The steps of the event worker.                                          *)
LEMMA HeadOf ==
  ASSUME FileInv, evs # <<>>, NEW d, d = Head(evs).d
  PROVE  /\ d \in Downloads /\ At(d) /\ FileOf(d) /\ Pending(d) /\ Live(d) /\ Safe(d)
         /\ enq[d] \notin Early \cup {"dispatch", "aborted"}
         /\ Head(evs).name = dest[d] /\ Head(evs).kind \in EventKinds
         /\ Head(evs).kind = "complete" => Has(d)
  <1>1. evs \in Seq(EventType)
    BY DEF FileInv, WorkInv, TypeOK, EventType
  <1>2. 1 \in DOMAIN evs /\ evs[1] = Head(evs) /\ Head(evs) \in EventType
    BY <1>1
  <1>3. d \in Downloads /\ Pending(d) /\ Head(evs).kind \in EventKinds
    BY <1>2 DEF EventType, Pending
  <1>4. At(d) /\ FileOf(d) /\ Live(d)
    BY <1>3 DEF FileInv, WorkInv, Places, Files, Live
  <1>5. EventFine(Head(evs))
    BY <1>2 DEF FileInv, EvsFine
  <1>6. enq[d] \notin Early \cup {"dispatch", "aborted"}
    BY <1>3, <1>4 DEF At, NewOf, FileOf, Looked
  <1> QED BY <1>3, <1>4, <1>5, <1>6 DEF EventFine, FileOf

(* What is told of a download whose removal comes first.                   *)
LEMMA RemovalsOnly ==
  ASSUME WorkInv, evs # <<>>, NEW d, d = Head(evs).d, Head(evs).kind \in Removals
  PROVE  OnlyRemovals(d)
  <1>1. /\ DOMAIN evs = 1 .. Len(evs) /\ Len(evs) \in Nat
        /\ 1 \in DOMAIN evs /\ evs[1] = Head(evs)
    BY DEF WorkInv, TypeOK
  <1>2. ASSUME NEW i \in DOMAIN evs, evs[i].d = d PROVE evs[i].kind \in Removals
    <2>1. i = 1 \/ 1 < i
      BY <1>1
    <2>2. CASE 1 < i
      BY <1>1, <1>2, <2>2 DEF WorkInv, EndsLast, Ends, Removals
    <2> QED BY <1>1, <2>1, <2>2
  <1> QED BY <1>2 DEF OnlyRemovals

LEMMA NoneElse ==
  ASSUME NEW d, OnlyRemovals(d)
  PROVE  ~Unstarted(d) /\ ~ErrorPending(d)
  BY DEF OnlyRemovals, Unstarted, ErrorPending, Removals

LEMMA HandledFine ==
  ASSUME FileInv, evs # <<>>, Handled, dest' = dest,
         \A e \in Downloads : Has(e) => Has(e)' \/ OnlyRemovals(e)'
  PROVE  EvsFine' /\ Renamed'
  <1>1. /\ \A i \in DOMAIN evs' : i + 1 \in DOMAIN evs /\ evs'[i] = evs[i + 1]
        /\ evs' \in Seq(EventType)
    <2>1. /\ DOMAIN evs = 1 .. Len(evs) /\ DOMAIN evs' = 1 .. Len(evs) - 1 /\ Len(evs) \in Nat
          /\ \A i \in 1 .. Len(evs) - 1 : evs'[i] = evs[i + 1]
          /\ evs' \in Seq(EventType)
      BY HandledTails DEF FileInv, WorkInv
    <2> QED BY <2>1
  <1>2. ASSUME NEW i \in DOMAIN evs' PROVE EventFine(evs[i])'
    <2>0. PICK e : e = evs'[i].d
      OBVIOUS
    <2>1. evs'[i] \in EventType
      BY <1>1
    <2>2. e \in Downloads
      BY <2>0, <2>1 DEF EventType
    <2>3. EventFine(evs[i + 1]) /\ evs'[i] = evs[i + 1]
      BY <1>1 DEF FileInv, EvsFine
    <2>4. evs'[i].kind = "complete" => Has(e)'
      BY <2>0, <2>2, <2>3 DEF EventFine, OnlyRemovals, Removals
    <2> QED BY <2>0, <2>3, <2>4 DEF EventFine
  <1> QED BY <1>2 DEF EvsFine, Renamed, Handled

LEMMA StoreFiles ==
  ASSUME FileInv, phase # "down",
         StoreQueued \/ StoreStarted \/ StorePaused \/ StorePausedRow \/ StoreCompleted
  PROVE  FileRest'
  <1>0. PICK d : d = Head(evs).d
    OBVIOUS
  <1>1. /\ evs # <<>> /\ Handled /\ StillDisk
        /\ UNCHANGED <<run, enq, cand, call, asked, failed>>
        /\ \/ \E s \in {"queued", "downloading", "paused"} : SetRow(d, s)
           \/ SetRow(d, "completed") /\ StoreCompleted
           \/ row' = row /\ stored' = stored /\ Head(evs).kind = "pausedRow"
    BY <1>0 DEF StoreQueued, StoreStarted, StorePaused, StorePausedRow, StoreCompleted, HeadIs,
       HandlerKeeps, StillDisk, requests
  <1>2. /\ d \in Downloads /\ FileOf(d) /\ Live(d) /\ Safe(d)
        /\ Head(evs).kind = "complete" => Has(d)
    BY <1>0, <1>1, HeadOf
  <1>3. OnlyAt(d)
    BY <1>0, StoreStep DEF FileInv
  <1>4. /\ Removed(d)' => Removed(d)
        /\ ErrorPending(d)' => ErrorPending(d)
        /\ StartPending(d) => StartPending(d)' \/ Head(evs).kind = "started"
        /\ Unstarted(d)' => Unstarted(d) \/ Head(evs).kind = "started"
    BY <1>0, <1>1, <1>2, HandledTakes DEF FileInv, WorkInv
  <1>5. Called(d)' <=> Called(d)
    BY <1>1 DEF Called
  <1>6. \/ row'[d] \in {"queued", "downloading", "paused"}
        \/ row'[d] = "completed" /\ StoreCompleted
        \/ row'[d] = row[d] /\ stored' = stored /\ Head(evs).kind = "pausedRow"
    BY <1>1, <1>2 DEF SetRow, FileInv, WorkInv, TypeOK
  <1>7. StoreCompleted => final[dest[d]] = d
    <2>1. SUFFICES ASSUME StoreCompleted PROVE final[dest[d]] = d
      OBVIOUS
    <2>2. Head(evs).kind = "complete"
      BY <2>1 DEF StoreCompleted, HeadIs
    <2>3. CASE half
      BY <1>0, <2>2, <2>3 DEF FileInv, Renamed
    <2>4. CASE ~half
      <3>1. surge[dest[d]] = Nobody
        BY <1>0, <2>1, <2>4 DEF StoreCompleted
      <3> QED BY <1>2, <2>2, <3>1, LifecycleAssumption DEF Has
    <2> QED BY <2>3, <2>4
  <1>8. Safe(d)' /\ Looked(d)'
    BY <1>1, <1>2, SafeStill DEF FileOf, Looked, StillDisk
  <1>9. ASSUME NEW w \in Workers, run'[w].d = d PROVE FileRun(w, d)'
    <2>1. FileRun(w, d) /\ run'[w] = run[w]
      BY <1>1, <1>2, <1>9 DEF FileOf
    <2>2. row'[d] # "none" \/ StartPending(d)'
      BY <1>4, <1>6, <2>1 DEF FileRun
    <2> QED BY <1>1, <1>5, <2>1, <2>2 DEF FileRun, StillDisk, Solo
  <1>10. FileRow(d)'
    <2>1. /\ dest'[d] # NoName
          /\ row'[d] = "completed" => final'[dest'[d]] = d
          /\ row'[d] = "error" => d \in failed'
      BY <1>1, <1>2, <1>6, <1>7 DEF FileOf, FileRow, Safe, StillDisk
    <2>2. Unstarted(d)' => row'[d] # "none"
      BY <1>2, <1>4, <1>6 DEF FileOf, FileRow
    <2>3. ErrorPending(d)' => d \in failed' /\ (Solo(d)' \/ (~Called(d)' /\ ~Removed(d)'))
      BY <1>1, <1>2, <1>4, <1>5 DEF FileOf, FileRow, Solo
    <2>4. d \in stored' \ (asked' \cup failed') =>
            row'[d] # "none" \/ (dest'[d] # NoName /\ final'[dest'[d]] = d)
      BY <1>1, <1>2, <1>6 DEF FileOf, FileRow, StillDisk
    <2> QED BY <2>1, <2>2, <2>3, <2>4 DEF FileRow
  <1>11. FileOf(d)'
    BY <1>8, <1>9, <1>10 DEF FileOf
  <1>12. EvsFine' /\ Renamed'
    BY <1>1, HandledFine DEF StillDisk, Has
  <1> QED BY <1>1, <1>2, <1>3, <1>11, <1>12, StillFiles

(* A working file is removed.                                              *)
LEMMA WithoutKeeps ==
  ASSUME FileInv, NEW d \in Downloads, Safe(d),
         surge' = surge \/ surge' = [surge EXCEPT ![dest[d]] = Nobody],
         UNCHANGED <<final, dest>>
  PROVE  Reserved' /\ \A e \in Downloads \ {d} : Keeps(e)
  <1>1. /\ surge \in [Names -> Downloads \cup {Nobody}] /\ dest[d] \in Names
        /\ \A e \in Downloads \ {d} : surge[dest[e]] = e => dest[e] # dest[d]
    BY OneOwner DEF FileInv, WorkInv, TypeOK
  <1>2. \A n \in Names : surge'[n] # Nobody => surge'[n] = surge[n]
    BY <1>1
  <1>3. Reserved'
    BY <1>2 DEF FileInv, Reserved
  <1>4. ASSUME NEW e \in Downloads \ {d}, dest[e] # NoName, surge[dest[e]] = e
        PROVE  surge'[dest[e]] = e
    <2>1. dest[e] \in Names
      BY <1>4 DEF FileInv, WorkInv, TypeOK
    <2>2. dest[e] # dest[d]
      BY <1>1, <1>4
    <2> QED BY <1>1, <1>4, <2>1, <2>2
  <1> QED BY <1>3, <1>4 DEF Keeps

(* A download that only its removal is told of, and nobody works on.       *)
LEMMA LeftAlone ==
  ASSUME NEW d \in Downloads, ~Engaged(d)', ~Called(d)', ~Pending(d)',
         enq'[d] \notin {"dispatch", "publish"}, row'[d] \in {"none", "error"}
  PROVE  ~Live(d)'
  BY DEF Live, Working, CalledTo, Called

LEMMA StoreErrorFiles ==
  ASSUME FileInv, phase # "down", StoreError
  PROVE  FileRest'
  <1>0. PICK d : d = Head(evs).d
    OBVIOUS
  <1>1. /\ evs # <<>> /\ Head(evs).kind = "error" /\ Handled
        /\ (row' = row /\ row[d] = "none") \/ SetRow(d, "error")
        /\ surge' = Without(IF row[d] # "none" /\ dest[d] # NoName THEN dest[d] ELSE Head(evs).name)
        /\ UNCHANGED <<final, dest, pool, run, requests, program, stored, asked, failed>>
    BY <1>0 DEF StoreError, HeadIs, HandlerKeeps
  <1>2. /\ d \in Downloads /\ FileOf(d) /\ At(d) /\ Safe(d) /\ Head(evs).name = dest[d]
        /\ enq[d] \notin Early \cup {"dispatch", "aborted"}
    BY <1>0, <1>1, HeadOf
  <1>3. OnlyAt(d)
    BY <1>0, StoreStep DEF FileInv
  <1>4. /\ Removed(d)' => Removed(d)
        /\ OnlyRemovals(d)' /\ Ended(d) /\ ErrorPending(d)
    BY <1>0, <1>1, <1>2, HandledTakes DEF FileInv, WorkInv, Ends
  <1>5. /\ ~Engaged(d) /\ enq[d] # "publish"
        /\ d \in failed /\ (Solo(d) \/ (~Called(d) /\ ~Removed(d)))
    BY <1>2, <1>4 DEF At, EndOf, NewOf, FileOf, FileRow
  <1>6. surge' = [surge EXCEPT ![dest[d]] = Nobody]
    BY <1>1, <1>2 DEF Without, Safe
  <1>7. Reserved' /\ \A e \in Downloads \ {d} : Keeps(e)
    BY <1>1, <1>2, <1>6, WithoutKeeps
  <1>8. /\ ~Engaged(d)' /\ ~On(d)' /\ (Called(d)' <=> Called(d))
        /\ ~Unstarted(d)' /\ ~ErrorPending(d)'
    <2>1. /\ On(d)' <=> On(d)
          /\ Called(d)' <=> Called(d)
          /\ CalledTo(d, "add")' <=> CalledTo(d, "add")
      BY <1>1 DEF On, Called, CalledTo, requests
    <2>2. ~Unstarted(d)' /\ ~ErrorPending(d)'
      BY <1>4 DEF OnlyRemovals, Unstarted, ErrorPending, Removals
    <2> QED BY <1>1, <1>5, <2>1, <2>2 DEF Engaged, pool, program
  <1>9. row'[d] \in {"none", "error"}
    BY <1>1, <1>2 DEF SetRow, FileInv, WorkInv, TypeOK
  <1>10. FileOf(d)'
    <2>1. Live(d)' => Safe(d)'
      <3>1. CASE Solo(d)
        BY <1>1, <1>2, <1>5, <3>1 DEF Safe, Solo
      <3>2. CASE ~Called(d) /\ ~Removed(d)
        <4>1. ~Pending(d)'
          BY <1>4, <3>2 DEF Pending, OnlyRemovals, Removed
        <4> QED BY <1>1, <1>2, <1>5, <1>8, <1>9, <3>2, <4>1, LeftAlone DEF requests
      <3> QED BY <1>5, <3>1, <3>2
    <2>2. \A w \in Workers : run'[w].d # d
      BY <1>8 DEF On
    <2>3. FileRow(d)'
      BY <1>1, <1>2, <1>5, <1>8, <1>9 DEF FileRow, Safe
    <2>4. Looked(d)'
      BY <1>1, <1>2 DEF Looked, Early, requests
    <2> QED BY <2>1, <2>2, <2>3, <2>4 DEF FileOf
  <1>11. Files'
    BY <1>2, <1>3, <1>7, <1>10, FilesStay
  <1>12. EvsFine' /\ Renamed'
    <2>1. \A e \in Downloads : Has(e) => Has(e)' \/ OnlyRemovals(e)'
      BY <1>4, <1>7 DEF Has, Keeps
    <2> QED BY <1>1, <2>1, HandledFine
  <1> QED BY <1>7, <1>11, <1>12 DEF FileRest

LEMMA DeleteRowFiles ==
  ASSUME FileInv, phase # "down", DeleteRow
  PROVE  FileRest'
  <1>0. PICK d : d = Head(evs).d
    OBVIOUS
  <1>1. /\ evs # <<>> /\ Head(evs).kind \in Removals /\ row' = [row EXCEPT ![d] = "none"]
        /\ StillDisk
        /\ UNCHANGED <<evs, run, enq, cand, call, stored, asked, failed>>
    BY <1>0 DEF DeleteRow, HeadIs, HandlerKeeps, SetRow, Removals, StillDisk, requests
  <1>2. d \in Downloads /\ FileOf(d) /\ At(d) /\ Safe(d)
    BY <1>0, <1>1, HeadOf
  <1>3. OnlyAt(d)
    BY <1>0, DeleteRowStep DEF FileInv
  <1>4. OnlyRemovals(d) /\ Pending(d)
    BY <1>0, <1>1, RemovalsOnly, HeadOf DEF FileInv
  <1>5. Ended(d) /\ Removed(d)
    BY <1>4 DEF OnlyRemovals, Pending, Ended, Removed, Removals, Ends
  <1>6. ~On(d) /\ d \in asked
    BY <1>2, <1>5 DEF At, EndOf, Engaged
  <1>7. ~Unstarted(d)' /\ ~ErrorPending(d)'
    BY <1>1, <1>2, <1>4, NoneElse, SilentKeepsEvents DEF SameEvents
  <1>8. row'[d] = "none"
    BY <1>1, <1>2 DEF FileInv, WorkInv, TypeOK
  <1>9. FileOf(d)'
    <2>1. Safe(d)' /\ Looked(d)'
      BY <1>1, <1>2, SafeStill DEF FileOf, Looked, StillDisk
    <2>2. \A w \in Workers : run'[w].d # d
      BY <1>1, <1>6 DEF On
    <2>3. FileRow(d)'
      BY <1>1, <1>6, <1>7, <1>8 DEF FileRow
    <2> QED BY <2>1, <2>2, <2>3 DEF FileOf
  <1>10. EvsFine' /\ Renamed'
    BY <1>1 DEF FileInv, EvsFine, EventFine, Has, StillDisk, Renamed, Removals
  <1> QED BY <1>1, <1>2, <1>3, <1>9, <1>10, StillFiles

LEMMA DeleteFileFiles ==
  ASSUME FileInv, phase # "down", DeleteWorkingFile
  PROVE  FileRest'
  <1>0. PICK d : d = Head(evs).d
    OBVIOUS
  <1>1. /\ evs # <<>> /\ Head(evs).kind \in Removals /\ half /\ Handled
        /\ surge' = surge \/ surge' = Without(Head(evs).name)
        /\ UNCHANGED <<row, final, dest, pool, run, requests, program, stored, asked, failed>>
    BY DEF DeleteWorkingFile, HeadIs, HandlerKeeps, Removals
  <1>2. /\ d \in Downloads /\ FileOf(d) /\ At(d) /\ Safe(d) /\ Head(evs).name = dest[d]
        /\ enq[d] \notin Early \cup {"dispatch", "aborted"}
    BY <1>0, <1>1, HeadOf
  <1>3. OnlyAt(d)
    BY <1>0, StoreStep DEF FileInv
  <1>4. d \in gone
    BY <1>0, <1>1 DEF FileInv, WorkInv, Halves
  <1>5. row[d] = "none" /\ d \in asked /\ ~Engaged(d) /\ ~Called(d) /\ enq[d] # "publish"
    BY <1>2, <1>4 DEF At, EndOf, NewOf
  <1>6. ~Pending(d)'
    BY <1>0, <1>1, <1>2, HandledTakes DEF FileInv, WorkInv
  <1>7. surge' = surge \/ surge' = [surge EXCEPT ![dest[d]] = Nobody]
    BY <1>1, <1>2 DEF Without
  <1>8. Reserved' /\ \A e \in Downloads \ {d} : Keeps(e)
    BY <1>1, <1>2, <1>7, WithoutKeeps
  <1>9. ~Engaged(d)' /\ ~On(d)' /\ ~Called(d)'
    <2>1. /\ On(d)' <=> On(d)
          /\ Called(d)' <=> Called(d)
          /\ CalledTo(d, "add")' <=> CalledTo(d, "add")
      BY <1>1 DEF On, Called, CalledTo, requests
    <2> QED BY <1>1, <1>5, <2>1 DEF Engaged, pool, program
  <1>10. FileOf(d)'
    <2>1. ~Live(d)'
      BY <1>1, <1>2, <1>5, <1>6, <1>9, LeftAlone DEF requests
    <2>2. \A w \in Workers : run'[w].d # d
      BY <1>9 DEF On
    <2>3. FileRow(d)'
      BY <1>1, <1>5, <1>6 DEF FileRow, Unstarted, ErrorPending, Pending
    <2>4. Looked(d)'
      BY <1>1, <1>2 DEF Looked, Early, requests
    <2> QED BY <2>1, <2>2, <2>3, <2>4 DEF FileOf
  <1>11. Files'
    BY <1>2, <1>3, <1>8, <1>10, FilesStay
  <1>12. EvsFine' /\ Renamed'
    <2>1. \A e \in Downloads : Has(e) => Has(e)' \/ OnlyRemovals(e)'
      BY <1>6, <1>8 DEF Has, Keeps, OnlyRemovals, Pending
    <2> QED BY <1>1, <2>1, HandledFine
  <1> QED BY <1>8, <1>11, <1>12 DEF FileRest

(* A download that says it is complete has a row and a file: no completion *)
(* fails.                                                                  *)
LEMMA CompletionIsSound ==
  ASSUME FileInv, evs # <<>>, NEW d, d = Head(evs).d, Head(evs).kind = "complete"
  PROVE  Has(d) /\ row[d] # "none" /\ dest[d] \in Names
  <1>1. d \in Downloads /\ Has(d) /\ FileOf(d)
    BY HeadOf
  <1>2. /\ DOMAIN evs = 1 .. Len(evs) /\ Len(evs) \in Nat
        /\ 1 \in DOMAIN evs /\ evs[1] = Head(evs)
    BY DEF FileInv, WorkInv, TypeOK
  <1>3. \A j \in DOMAIN evs : evs[j].kind = "started" => j > 1
    BY <1>2
  <1>4. Unstarted(d)
    BY <1>2, <1>3 DEF Unstarted
  <1> QED BY <1>1, <1>4 DEF FileOf, FileRow, Has, FileInv, WorkInv, TypeOK

LEMMA PromoteFailsNever ==
  ASSUME FileInv, PromoteFails
  PROVE  FALSE
  <1>0. PICK d : d = Head(evs).d
    OBVIOUS
  <1>1. /\ evs # <<>> /\ Head(evs).kind = "complete"
        /\ row[d] = "none" \/ dest[d] = NoName
             \/ (surge[dest[d]] = Nobody /\ final[dest[d]] = Nobody)
    BY <1>0 DEF PromoteFails, HeadIs
  <1>2. Has(d) /\ row[d] # "none" /\ dest[d] # NoName /\ d \in Downloads
    BY <1>0, <1>1, CompletionIsSound, HeadOf DEF Has
  <1> QED BY <1>1, <1>2, LifecycleAssumption DEF Has

LEMMA PromoteFiles ==
  ASSUME FileInv, Races = {}, phase # "down", Promote
  PROVE  FileRest'
  <1>0. PICK d : d = Head(evs).d
    OBVIOUS
  <1>n. PICK n : n = dest[d]
    OBVIOUS
  <1>1. /\ evs # <<>> /\ Head(evs).kind = "complete" /\ surge[n] # Nobody
        /\ final' = [final EXCEPT ![n] = surge[n]] /\ surge' = [surge EXCEPT ![n] = Nobody]
        /\ \A e \in Downloads : enq[e] \notin {"surge?", "reserve"}
        /\ UNCHANGED <<row, dest, evs, run, enq, cand, call, stored, asked, failed>>
    BY <1>0, <1>n DEF Promote, HeadIs, HandlerKeeps, requests
  <1>2. /\ d \in Downloads /\ FileOf(d) /\ Safe(d) /\ At(d) /\ Pending(d)
        /\ enq[d] \notin Early \cup {"dispatch", "aborted"}
        /\ Has(d) /\ n \in Names /\ n # NoName
    BY <1>0, <1>1, <1>n, HeadOf, CompletionIsSound DEF Has
  <1>3. OnlyAt(d)
    BY <1>0, PromoteStep DEF FileInv
  <1>4. Ended(d)
    <2>1. 1 \in DOMAIN evs /\ evs[1] = Head(evs)
      BY <1>1 DEF FileInv, WorkInv, TypeOK
    <2> QED BY <1>0, <1>1, <2>1 DEF Ended, Ends
  <1>5. ~On(d)
    BY <1>2, <1>4 DEF At, EndOf, Engaged
  <1>6. surge[n] = d /\ final[n] = Nobody
    BY <1>1, <1>2, <1>n, OneOwner DEF FileInv, Reserved
  <1>7. /\ final'[n] = d /\ surge'[n] = Nobody
        /\ \A m \in Names \ {n} : final'[m] = final[m] /\ surge'[m] = surge[m]
    BY <1>1, <1>2, <1>6 DEF FileInv, WorkInv, TypeOK
  <1>8. FileOf(d)'
    <2>1. Safe(d)' /\ final'[dest'[d]] = d /\ dest'[d] # NoName
      BY <1>1, <1>2, <1>7, <1>n DEF Safe, Has
    <2>2. \A w \in Workers : run'[w].d # d
      BY <1>1, <1>5 DEF On
    <2>3. FileRow(d)'
      <3>1. /\ ErrorPending(d)' <=> ErrorPending(d)
            /\ Unstarted(d)' <=> Unstarted(d)
            /\ Removed(d)' <=> Removed(d)
            /\ Called(d)' <=> Called(d)
        BY <1>1, <1>2, SilentKeepsEvents DEF SameEvents, Called
      <3> QED BY <1>1, <1>2, <2>1, <3>1 DEF FileOf, FileRow, Solo
    <2>4. Looked(d)'
      BY <1>1, <1>2 DEF Looked, Early
    <2> QED BY <2>1, <2>2, <2>3, <2>4 DEF FileOf
  <1>9. ASSUME NEW e \in Downloads \ {d} PROVE Keeps(e)
    <2>1. SUFFICES ASSUME dest[e] # NoName, surge[dest[e]] = e \/ final[dest[e]] = e
                   PROVE  dest[e] \in Names \ {n}
      BY <1>1, <1>7 DEF Keeps
    <2>2. dest[e] \in Names
      BY <2>1 DEF FileInv, WorkInv, TypeOK
    <2> QED BY <1>2, <1>n, <2>1, <2>2, OneOwner
  <1>10. Files'
    BY <1>2, <1>3, <1>8, <1>9, FilesStay
  <1>11. Reserved'
    BY <1>1, <1>7 DEF FileInv, Reserved
  <1>12. EvsFine'
    <2>1. \A e \in Downloads : Has(e) => Has(e)'
      BY <1>1, <1>7, <1>9, <1>n DEF Has, Keeps
    <2>2. ASSUME NEW i \in DOMAIN evs PROVE evs[i].d \in Downloads
      <3>1. evs \in Seq(EventType)
        BY DEF FileInv, WorkInv, TypeOK, EventType
      <3>2. evs[i] \in EventType
        BY <2>2, <3>1
      <3> QED BY <3>2 DEF EventType
    <2> QED BY <1>1, <2>1, <2>2 DEF FileInv, EvsFine, EventFine
  <1>13. Renamed'
    BY <1>0, <1>1, <1>7, <1>n DEF Renamed
  <1> QED BY <1>10, <1>11, <1>12, <1>13 DEF FileRest

LEMMA EventFiles ==
  ASSUME FileInv, Races = {}, EventStep
  PROVE  FileRest'
  BY StoreFiles, StoreErrorFiles, DeleteRowFiles, DeleteFileFiles, PromoteFailsNever, PromoteFiles
     DEF EventStep

-----------------------------------------------------------------------------
(* The calls.  One that tells nothing:                                     *)
LEMMA QuietFiles ==
  ASSUME FileInv, NEW d \in Downloads, OnlyAt(d), StillDisk,
         UNCHANGED <<row, evs, half, enq, cand, stored, failed>>, d \in asked => d \in asked',
         Live(d)' => Safe(d),
         Called(d)' => Called(d) \/ Solo(d)
                         \/ (~ErrorPending(d) /\ \A w \in Workers : run[w].d = d => run[w].pc # "error"),
         \A w \in Workers : run'[w].d = d => run[w].d = d /\ run'[w].pc = run[w].pc
  PROVE  FileRest'
  <1>1. FileOf(d) /\ SameEvents(d)
    BY SilentKeepsEvents DEF FileInv, Files
  <1>2. Live(d)' => Safe(d)'
    BY SafeStill
  <1>3. ASSUME NEW w \in Workers, run'[w].d = d PROVE FileRun(w, d)'
    <2>1. FileRun(w, d) /\ run[w].d = d /\ run'[w].pc = run[w].pc
      BY <1>1, <1>3 DEF FileOf
    <2> QED BY <1>1, <2>1 DEF FileRun, StillDisk, Solo, SameEvents
  <1>4. FileRow(d)'
    <2>1. ErrorPending(d)' => d \in failed /\ (Solo(d) \/ (~Called(d)' /\ ~Removed(d)'))
      BY <1>1 DEF FileOf, FileRow, SameEvents
    <2> QED BY <1>1, <2>1 DEF FileOf, FileRow, StillDisk, Solo, SameEvents
  <1>5. Looked(d)'
    BY <1>1 DEF FileOf, Looked, StillDisk
  <1>6. FileOf(d)'
    BY <1>2, <1>3, <1>4, <1>5 DEF FileOf
  <1> QED BY <1>6, StillFiles, SilentFine

LEMMA PauseFiles ==
  ASSUME FileInv, Races = {}, phase # "down", NEW c \in Callers, NEW d \in Downloads, Pause(c, d)
  PROVE  FileRest'
  <1>1. /\ entry[d] # "none" /\ StillDisk
        /\ UNCHANGED <<row, evs, half, enq, cand, call, stored, asked, failed>>
        /\ run' = run \/ run' = [run EXCEPT ![holder[d]].stop = "pause"]
    BY DEF Pause, StillDisk, disk, requests, history
  <1>2. OnlyAt(d)
    BY PauseStep DEF FileInv
  <1>3. Safe(d)
    BY <1>1 DEF FileInv, Files, FileOf, Live, Working, Engaged
  <1>4. \A w \in Workers : run'[w].d = run[w].d /\ run'[w].pc = run[w].pc
    <2>1. run \in [Workers -> RunRecord]
      BY DEF FileInv, WorkInv, TypeOK, RunRecord
    <2> QED BY <1>1, <2>1 DEF RunRecord
  <1>5. Called(d)' <=> Called(d)
    BY <1>1 DEF Called
  <1> QED BY <1>1, <1>2, <1>3, <1>4, <1>5, QuietFiles

LEMMA PauseStoredFiles ==
  ASSUME FileInv, Races = {}, phase # "down", NEW c \in Callers, NEW d \in Downloads, PauseStored(c, d)
  PROVE  FileRest'
  <1>1. /\ AtRest(d) /\ row[d] = "paused" /\ StillDisk /\ Tell(Event("pausedRow", d))
        /\ UNCHANGED <<row, half, run, enq, cand, call, stored, asked, failed>>
    BY DEF PauseStored, MayPause, StillDisk, disk, requests, history
  <1>2. OnlyAt(d)
    BY PauseStoredStep DEF FileInv
  <1>3. FileOf(d) /\ Safe(d)
    BY <1>1 DEF FileInv, Files, FileOf, Live
  <1>4. /\ Event("pausedRow", d) \in EventType /\ Event("pausedRow", d).d = d
        /\ Event("pausedRow", d).kind = "pausedRow" /\ EventFine(Event("pausedRow", d))
    BY EventTypes DEF EventKinds, FileInv, WorkInv, Event, EventFine
  <1>5. /\ ErrorPending(d)' => ErrorPending(d)
        /\ Removed(d)' => Removed(d)
        /\ Unstarted(d)' => Unstarted(d)
    BY <1>1, <1>4, TellTells DEF FileInv, WorkInv, Removals
  <1>6. \A w \in Workers : run'[w].d # d
    BY <1>1 DEF AtRest, AtWork
  <1>7. FileRow(d)'
    BY <1>1, <1>3, <1>5, RowStill DEF FileOf, Called
  <1>8. FileOf(d)'
    BY <1>1, <1>3, <1>6, <1>7, SafeStill DEF FileOf, Looked, StillDisk
  <1>9. EvsFine' /\ Renamed'
    BY <1>1, <1>4, TellFine
  <1> QED BY <1>1, <1>2, <1>8, <1>9, StillFiles

LEMMA ResumeFiles ==
  ASSUME FileInv, Races = {}, OneName, phase # "down", NEW c \in Callers, NEW d \in Downloads,
         ResumeHot(c, d) \/ ResumeCold(c, d) \/ ResumeStored(c, d)
  PROVE  FileRest'
  <1>1. /\ StillDisk
        /\ UNCHANGED <<row, evs, half, run, enq, cand, stored, asked, failed>>
        /\ \/ entry[d] = "paused" \/ d \in toResume
           \/ AtRest(d) /\ row[d] \in {"paused", "error"} /\ OnlyName(d)
    BY DEF ResumeHot, ResumeCold, ResumeStored, MayResume, Cold, StillDisk, disk, history
  <1>2. OnlyAt(d)
    BY ResumeHotStep, ResumeColdStep, ResumeStoredStep DEF FileInv
  <1>3. At(d) /\ FileOf(d)
    BY DEF FileInv, Files, WorkInv, Places
  <1>4. Safe(d)
    <2>1. CASE entry[d] = "paused" \/ d \in toResume \/ row[d] = "paused"
      BY <1>3, <2>1 DEF FileOf, Live, Working, Engaged
    <2>2. CASE row[d] = "error" /\ OnlyName(d)
      <3>1. d \in failed /\ dest[d] # NoName
        BY <1>3, <2>2 DEF FileOf, FileRow
      <3> QED BY <2>2, <3>1, Solitary DEF Safe
    <2> QED BY <1>1, <2>1, <2>2
  <1>5. ~On(d) /\ ~ErrorPending(d)
    <2>1. CASE entry[d] = "paused" \/ d \in toResume
      <3>1. ~On(d) /\ ~Ended(d)
        BY <1>3, <2>1 DEF At, PlaceOf, EndOf, Engaged
      <3> QED BY <3>1 DEF Ended, ErrorPending, Ends
    <2>2. CASE AtRest(d)
      BY <2>2 DEF AtRest, AtWork, On, Pending, ErrorPending
    <2> QED BY <1>1, <2>1, <2>2
  <1>6. \A w \in Workers : run[w].d # d
    BY <1>5 DEF On
  <1> QED BY <1>1, <1>2, <1>4, <1>5, <1>6, QuietFiles

LEMMA CancelFiles ==
  ASSUME FileInv, Races = {}, OneName, phase # "down", NEW c \in Callers, NEW d \in Downloads, Cancel(c, d)
  PROVE  FileRest'
  <1> DEFINE l == CASE entry[d] \in {"active", "pausing"} -> "wait"
                    [] entry[d] = "paused" \/ d \in queued -> "publish"
                    [] OTHER -> "look"
  <1>1. /\ StillDisk /\ OnlyName(d)
        /\ queued' = queued \ {d} /\ entry' = [entry EXCEPT ![d] = "none"]
        /\ CallTo(c, l, d) /\ \A b \in Callers : call[b].d # d
        /\ asked' = asked \cup {d}
        /\ UNCHANGED <<row, evs, half, enq, cand, toResume, stored, failed>>
    BY DEF Cancel, MayRemove, StillDisk, disk, program
  <1>2. OnlyAt(d)
    BY CancelStep DEF FileInv
  <1>3. At(d) /\ FileOf(d) /\ SameEvents(d)
    BY <1>1, SilentKeepsEvents DEF FileInv, Files, WorkInv, Places
  <1>4. \A w \in Workers : run'[w].d = run[w].d /\ run'[w].pc = run[w].pc
    <2>1. run \in [Workers -> RunRecord]
      BY DEF FileInv, WorkInv, TypeOK, RunRecord
    <2>2. run' = run \/ \E x : run' = [run EXCEPT ![holder[d]].stop = x]
      BY DEF Cancel
    <2>3. ASSUME NEW w \in Workers PROVE run'[w].d = run[w].d /\ run'[w].pc = run[w].pc
      <3>1. run[w] \in RunRecord
        BY <2>1
      <3>2. ASSUME NEW x, run' = [run EXCEPT ![holder[d]].stop = x]
            PROVE  run'[w] = run[w] \/ run'[w] = [run[w] EXCEPT !.stop = x]
        BY <2>1, <3>2
      <3>3. ASSUME NEW x, run'[w] = [run[w] EXCEPT !.stop = x]
            PROVE  run'[w].d = run[w].d /\ run'[w].pc = run[w].pc
        BY <3>1, <3>3 DEF RunRecord
      <3> QED BY <2>2, <3>2, <3>3
    <2> QED BY <2>3
  <1>5. /\ \A b \in Callers : call'[b].d = d => call'[b].pc = l
        /\ entry'[d] = "none" /\ entry[d] \in {"none", "active", "pausing", "paused"}
    BY <1>1 DEF CallTo, FileInv, WorkInv, TypeOK
  <1>6. d \in failed => Solo(d)
    BY <1>1, Solitary
  <1>7. Live(d)' => Safe(d)
    <2>1. CASE Live(d)
      BY <1>3, <2>1 DEF FileOf
    <2>2. CASE row[d] = "error"
      BY <1>3, <1>6, <2>2 DEF FileOf, FileRow, Safe
    <2>3. CASE ~Live(d) /\ row[d] # "error"
      <3>1. ~Engaged(d) /\ ~Pending(d) /\ enq[d] \notin {"dispatch", "publish"} /\ row[d] = "none"
        BY <2>3 DEF Live, Working, FileInv, WorkInv, TypeOK, Statuses
      <3>2. entry[d] = "none" /\ d \notin queued /\ d \notin toResume /\ ~On(d)
        BY <3>1 DEF Engaged
      <3>3. l = "look"
        BY <3>2
      <3> HIDE DEF l
      <3>4. ~Engaged(d)'
        BY <1>1, <1>4, <1>5, <3>2, <3>3 DEF Engaged, On, CalledTo
      <3>5. ~CalledTo(d, "wait")' /\ ~CalledTo(d, "publish")'
        BY <1>5, <3>3 DEF CalledTo
      <3> QED BY <1>1, <1>3, <3>1, <3>4, <3>5 DEF Live, Working, SameEvents
    <2> QED BY <2>1, <2>2, <2>3
  <1>8. Solo(d) \/ (~ErrorPending(d) /\ \A w \in Workers : run[w].d = d => run[w].pc # "error")
    BY <1>3, <1>6 DEF FileOf, FileRow, FileRun
  <1> HIDE DEF l
  <1> QED BY <1>1, <1>2, <1>4, <1>7, <1>8, QuietFiles

LEMMA CallerFiles ==
  ASSUME FileInv, phase # "down", NEW c \in Callers, Add(c) \/ CancelWaited(c) \/ NotFound(c)
  PROVE  FileRest'
  <1>0. PICK d : d = call[c].d
    OBVIOUS
  <1>1. /\ call[c].pc \in {"add", "wait", "look"} /\ StillDisk
        /\ UNCHANGED <<row, evs, half, run, entry, holder, enq, cand, toResume, stored, asked, failed>>
        /\ call[c].pc = "look" => row[d] = "none"
    BY <1>0 DEF Add, CancelWaited, NotFound, StillDisk, disk, pool, program, history
  <1>2. d \in Downloads /\ Called(d) /\ (\A l : CalledTo(d, l) <=> call[c].pc = l) /\ CallOf(c, d)
    BY <1>0, <1>1, OneCallOf DEF FileInv, Called
  <1>3. OnlyAt(d)
    BY <1>0, AddStep, CancelWaitedStep, NotFoundStep DEF FileInv
  <1>4. FileOf(d) /\ SameEvents(d)
    BY <1>1, <1>2, SilentKeepsEvents DEF FileInv, Files
  <1>5. Live(d)' => Safe(d)
    <2>1. CASE call[c].pc \in {"add", "wait"}
      BY <1>2, <1>4, <2>1 DEF FileOf, Live, Working, Engaged
    <2>2. CASE call[c].pc = "look"
      <3>1. call' = [call EXCEPT ![c] = IdleCall] /\ queued' = queued
        BY <2>2 DEF Add, CancelWaited, NotFound, pool
      <3>2. /\ call'[c] = IdleCall
            /\ \A b \in Callers \ {c} : call'[b] = call[b]
            /\ \A b \in Callers : call[b].d = d => b = c
        BY <1>2, <3>1 DEF FileInv, WorkInv, TypeOK, CallOf
      <3>3. ~Called(d)'
        BY <1>2, <3>2, LifecycleAssumption DEF Called, IdleCall
      <3>4. \A l : ~CalledTo(d, l)'
        BY <3>3 DEF Called, CalledTo
      <3>5. Live(d)' => Live(d)
        BY <1>1, <1>4, <3>1, <3>4 DEF Live, Working, Engaged, On, SameEvents
      <3> QED BY <1>4, <3>5 DEF FileOf
    <2> QED BY <1>1, <2>1, <2>2
  <1> QED BY <1>1, <1>2, <1>3, <1>5, QuietFiles

LEMMA PublishRemovedFiles ==
  ASSUME FileInv, phase # "down", NEW c \in Callers, PublishRemoved(c)
  PROVE  FileRest'
  <1>0. PICK d : d = call[c].d
    OBVIOUS
  <1>1. /\ call[c].pc = "publish" \/ (call[c].pc = "look" /\ row[d] # "none")
        /\ StillDisk /\ \E k \in Removals : Tell(Event(k, d))
        /\ UNCHANGED <<row, half, run, enq, cand, stored, asked, failed>>
    BY <1>0 DEF PublishRemoved, StillDisk, disk, history, Removals
  <1>2. d \in Downloads /\ Called(d) /\ (\A l : CalledTo(d, l) <=> call[c].pc = l) /\ CallOf(c, d)
    BY <1>0, <1>1, OneCallOf DEF FileInv, Called
  <1>3. OnlyAt(d)
    BY <1>0, PublishRemovedStep DEF FileInv
  <1>4. FileOf(d) /\ Live(d) /\ ~On(d)
    BY <1>1, <1>2 DEF FileInv, Files, Live, Working, CallOf
  <1>5. PICK k \in Removals : Tell(Event(k, d))
    BY <1>1
  <1>6. /\ Event(k, d) \in EventType /\ Event(k, d).d = d /\ Event(k, d).kind = k
        /\ EventFine(Event(k, d))
    BY <1>2, EventTypes DEF EventKinds, FileInv, WorkInv, Event, EventFine, Removals
  <1>7. /\ ErrorPending(d)' => ErrorPending(d)
        /\ Unstarted(d)' => Unstarted(d)
    BY <1>2, <1>5, <1>6, TellTells DEF FileInv, WorkInv, Removals
  <1>8. FileRow(d)'
    <2>1. ErrorPending(d) => d \in failed /\ Solo(d)
      BY <1>2, <1>4 DEF FileOf, FileRow
    <2> QED BY <1>1, <1>4, <1>7, <2>1 DEF FileOf, FileRow, StillDisk, Solo
  <1>9. FileOf(d)'
    <2>1. Safe(d)' /\ Looked(d)'
      BY <1>1, <1>2, <1>4, SafeStill DEF FileOf, Looked, StillDisk
    <2>2. \A w \in Workers : run'[w].d # d
      BY <1>1, <1>4 DEF On
    <2> QED BY <1>8, <2>1, <2>2 DEF FileOf
  <1>10. EvsFine' /\ Renamed'
    BY <1>1, <1>5, <1>6, TellFine
  <1> QED BY <1>1, <1>2, <1>3, <1>9, <1>10, StillFiles

-----------------------------------------------------------------------------
(* The ends and the starts of the program.                                 *)
LEMMA StopFiles ==
  ASSUME FileInv, Shutdown \/ CloseInput
  PROVE  FileRest'
  <1>1. /\ StillDisk /\ UNCHANGED <<row, call, evs, half, enq, cand, toResume, stored, asked, failed>>
        /\ queued' \subseteq queued
    BY DEF Shutdown, CloseInput, StillDisk, disk, pool, requests, history
  <1>2. ASSUME NEW w \in Workers PROVE run'[w].d = run[w].d /\ run'[w].pc = run[w].pc
    <2>1. run'[w] = run[w] \/ run'[w] = [run[w] EXCEPT !.stop = "pause"]
      BY DEF Shutdown, CloseInput
    <2>2. run[w] \in RunRecord
      BY DEF FileInv, WorkInv, TypeOK, RunRecord
    <2> QED BY <2>1, <2>2 DEF RunRecord
  <1>3. ASSUME NEW d \in Downloads PROVE FileOf(d)'
    <2>1. FileOf(d) /\ SameEvents(d)
      BY <1>1, SilentKeepsEvents DEF FileInv, Files
    <2>2. entry'[d] # "none" => entry[d] # "none"
      BY DEF Shutdown, CloseInput, pool
    <2>3. Called(d)' <=> Called(d)
      BY <1>1 DEF Called
    <2>4. Live(d)' => Live(d)
      BY <1>1, <1>2, <2>1, <2>2 DEF Live, Working, Engaged, On, CalledTo, SameEvents
    <2>5. Live(d)' => Safe(d)'
      BY <1>1, <2>1, <2>4, SafeStill DEF FileOf
    <2>6. FileRow(d)'
      BY <1>1, <2>1, <2>3, RowStill DEF FileOf, SameEvents
    <2>7. ASSUME NEW w \in Workers, run'[w].d = d PROVE FileRun(w, d)'
      <3>1. FileRun(w, d)
        BY <1>2, <2>1, <2>7 DEF FileOf
      <3> QED BY <1>1, <1>2, <2>1, <2>3, <3>1 DEF FileRun, StillDisk, Solo, SameEvents
    <2>8. Looked(d)'
      BY <1>1, <2>1 DEF FileOf, Looked, StillDisk
    <2> QED BY <2>5, <2>6, <2>7, <2>8 DEF FileOf
  <1>4. Reserved'
    BY <1>1 DEF FileInv, Reserved, StillDisk
  <1> QED BY <1>1, <1>3, <1>4, SilentFine DEF FileRest, Files

LEMMA GoneFiles ==
  ASSUME FileInv, Gone
  PROVE  FileRest'
  <1>1. /\ Nothing' /\ StillDisk
        /\ UNCHANGED <<row, cand, stored, asked, failed>>
        /\ enq' = [d \in Downloads |-> IF enq[d] \in {"new", "aborted"} THEN enq[d] ELSE "done"]
    BY DEF Gone, Nothing, StillDisk, disk, history
  <1>2. DOMAIN evs' = {}
    BY <1>1 DEF Nothing
  <1>3. ASSUME NEW d \in Downloads PROVE FileOf(d)'
    <2>1. FileOf(d)
      BY DEF FileInv, Files
    <2>2. /\ ~Engaged(d)' /\ ~Called(d)' /\ ~Pending(d)'
          /\ \A w \in Workers : run'[w].d # d
      BY <1>1, NothingUnderWay
    <2>3. \A l : ~CalledTo(d, l)'
      BY <2>2 DEF Called, CalledTo
    <2>4. enq'[d] \notin {"dispatch", "publish"}
      BY <1>1
    <2>5. Live(d)' => Live(d)
      BY <1>1, <2>2, <2>3, <2>4 DEF Live, Working
    <2>6. Live(d)' => Safe(d)'
      BY <1>1, <2>1, <2>5, SafeStill DEF FileOf
    <2>7. FileRow(d)'
      BY <1>1, <1>2, <2>1, RowStill DEF FileOf, ErrorPending, Unstarted
    <2>8. Looked(d)'
      BY <1>1, <2>1 DEF FileOf, Looked, Early, StillDisk
    <2> QED BY <2>2, <2>6, <2>7, <2>8 DEF FileOf
  <1>4. Reserved'
    BY <1>1 DEF FileInv, Reserved, StillDisk
  <1>5. EvsFine' /\ Renamed'
    BY <1>1, <1>2 DEF EvsFine, Renamed, Nothing
  <1> QED BY <1>3, <1>4, <1>5 DEF FileRest, Files

(* What the start of the program leaves of the working files.              *)
LEMMA StartSurge ==
  ASSUME TypeOK, Start
  PROVE  /\ \A n \in Names : surge'[n] # Nobody => surge'[n] = surge[n]
         /\ \A d \in Downloads :
              dest[d] \in Names /\ row'[d] \notin {"none", "completed"} => surge'[dest[d]] = surge[dest[d]]
         /\ \A d \in Downloads : Integrity /\ row'[d] \in {"queued", "paused"} =>
              dest[d] # NoName /\ surge[dest[d]] # Nobody
         /\ \A d \in Downloads : row'[d] = "none" /\ row[d] # "none" =>
              row[d] \in {"queued", "paused", "downloading"} /\ (dest[d] = NoName \/ surge[dest[d]] = Nobody)
  <1>1. row \in [Downloads -> Statuses] /\ surge \in [Names -> Downloads \cup {Nobody}]
    BY DEF TypeOK
  <1>2. CASE ~Integrity
    <2>1. surge' = surge /\ row' = row
      BY <1>2 DEF Start
    <2> QED BY <1>2, <2>1
  <1>3. CASE Integrity
    <2>1. row' = Validated(Normalized) /\ surge' = KnownFiles(Normalized)
      BY <1>3 DEF Start
    <2>2. \A n \in Names : surge'[n] # Nobody => surge'[n] = surge[n]
      BY <2>1 DEF KnownFiles
    <2>3. ASSUME NEW d \in Downloads, dest[d] \in Names, row'[d] \notin {"none", "completed"}
          PROVE  surge'[dest[d]] = surge[dest[d]]
      <3>1. Normalized[d] \notin {"none", "completed"}
        BY <2>1, <2>3 DEF Validated
      <3>2. dest[d] \in Expected(Normalized)
        BY <3>1 DEF Expected
      <3> QED BY <2>1, <2>3, <3>2 DEF KnownFiles
    <2>4. ASSUME NEW d \in Downloads, row'[d] \in {"queued", "paused"}
          PROVE  dest[d] # NoName /\ surge[dest[d]] # Nobody
      BY <2>1, <2>4 DEF Validated, Missing, Resumable
    <2>5. ASSUME NEW d \in Downloads, row'[d] = "none", row[d] # "none"
          PROVE  row[d] \in {"queued", "paused", "downloading"} /\ (dest[d] = NoName \/ surge[dest[d]] = Nobody)
      BY <2>1, <2>5 DEF Validated, Normalized, Missing, Resumable
    <2> QED BY <2>2, <2>3, <2>4, <2>5
  <1> QED BY <1>2, <1>3, LifecycleAssumption

LEMMA StartFiles ==
  ASSUME FileInv, Start
  PROVE  FileRest'
  <1>1. /\ Nothing /\ UNCHANGED <<final, dest, run, enq, cand, call, queued, entry, evs, half, stored, asked, failed>>
    BY DEF Start, FileInv, WorkInv, pool, requests, history
  <1>2. /\ \A d \in Downloads : row'[d] = StartRow(d)
        /\ \A d \in toResume' : row'[d] \in {"queued", "paused"}
    BY DEF Start, StartRow
  <1>3. DOMAIN evs' = {}
    BY <1>1 DEF Nothing
  <1>4. /\ \A n \in Names : surge'[n] # Nobody => surge'[n] = surge[n]
        /\ \A d \in Downloads :
             dest[d] \in Names /\ row'[d] \notin {"none", "completed"} => surge'[dest[d]] = surge[dest[d]]
        /\ \A d \in Downloads : Integrity /\ row'[d] \in {"queued", "paused"} =>
             dest[d] # NoName /\ surge[dest[d]] # Nobody
        /\ \A d \in Downloads : row'[d] = "none" /\ row[d] # "none" =>
             row[d] \in {"queued", "paused", "downloading"} /\ (dest[d] = NoName \/ surge[dest[d]] = Nobody)
    BY StartSurge DEF FileInv, WorkInv
  <1>5. ASSUME NEW d \in Downloads PROVE FileOf(d)'
    <2>1. FileOf(d)
      BY DEF FileInv, Files
    <2>2. /\ \A w \in Workers : run'[w].d # d
          /\ \A c \in Callers : call'[c].d # d
          /\ entry'[d] = "none" /\ d \notin queued'
          /\ enq'[d] \notin {"dispatch", "publish"} /\ ~Pending(d)'
      BY <1>1, <1>3, LifecycleAssumption DEF Nothing, IdleRun, IdleCall, Pending
    <2>3. ~Called(d)' /\ ~On(d)' /\ \A l : ~CalledTo(d, l)'
      BY <2>2 DEF Called, On, CalledTo
    <2>4. \/ row'[d] = "none" \/ row'[d] = row[d]
          \/ (row[d] = "downloading" /\ row'[d] = "paused")
      BY <1>2, StartRows DEF FileInv, WorkInv
    <2>5. Live(d)' => row'[d] \in {"queued", "downloading", "paused", "completed"}
      BY <1>2, <2>2, <2>3 DEF Live, Working, Engaged
    <2>6. row[d] \in {"queued", "downloading", "paused", "completed"} => Safe(d)
      BY <2>1 DEF FileOf, Live
    <2>7. Live(d)' => Safe(d)'
      <3>1. SUFFICES ASSUME row'[d] \in {"queued", "downloading", "paused", "completed"} PROVE Safe(d)'
        BY <2>5
      <3>2. Safe(d) /\ dest[d] \in Names
        BY <2>4, <2>6, <3>1 DEF Safe, FileInv, WorkInv, TypeOK
      <3>3. CASE row'[d] = "completed"
        <4>1. final[dest[d]] = d
          BY <2>1, <2>4, <3>3 DEF FileOf, FileRow
        <4> QED BY <1>1, <3>2, <4>1 DEF Safe, Has
      <3>4. CASE row'[d] # "completed"
        <4>1. surge'[dest[d]] = surge[dest[d]]
          BY <1>4, <3>1, <3>2, <3>4
        <4> QED BY <1>1, <3>2, <4>1 DEF Safe, Has, Solo
      <3> QED BY <3>3, <3>4
    <2>8. FileRow(d)'
      <3>1. /\ row'[d] # "none" => dest'[d] # NoName
            /\ row'[d] = "error" => d \in failed'
            /\ row'[d] = "completed" => final'[dest'[d]] = d
        BY <1>1, <2>1, <2>4 DEF FileOf, FileRow
      <3>2. ~Unstarted(d)' /\ ~ErrorPending(d)'
        BY <1>3 DEF Unstarted, ErrorPending
      <3>3. d \in stored' \ (asked' \cup failed') =>
              row'[d] # "none" \/ (dest'[d] # NoName /\ final'[dest'[d]] = d)
        <4>1. SUFFICES ASSUME d \in stored \ (asked \cup failed), row'[d] = "none"
                       PROVE  dest[d] # NoName /\ final[dest[d]] = d
          BY <1>1
        <4>2. CASE row[d] = "none"
          BY <2>1, <4>1, <4>2 DEF FileOf, FileRow
        <4>3. CASE row[d] # "none"
          <5>1. Safe(d) /\ surge[dest[d]] = Nobody
            BY <1>4, <2>6, <4>1, <4>3 DEF Safe
          <5> QED BY <4>1, <5>1, LifecycleAssumption DEF Safe, Has
        <4> QED BY <4>2, <4>3
      <3> QED BY <3>1, <3>2, <3>3 DEF FileRow
    <2>9. Looked(d)'
      BY <1>1, <2>1 DEF FileOf, Looked
    <2> QED BY <2>2, <2>7, <2>8, <2>9 DEF FileOf
  <1>6. Reserved'
    BY <1>1, <1>4 DEF FileInv, Reserved
  <1>7. EvsFine' /\ Renamed'
    BY <1>1, <1>3 DEF EvsFine, Renamed, Nothing
  <1> QED BY <1>5, <1>6, <1>7 DEF FileRest, Files

-----------------------------------------------------------------------------
LEMMA FileInit == Init => FileInv
  <1> SUFFICES ASSUME Init PROVE FileInv
    OBVIOUS
  <1>1. WorkInv /\ DOMAIN evs = {}
    BY WorkInit DEF Init
  <1>2. ASSUME NEW d \in Downloads PROVE FileOf(d)
    <2>1. /\ \A w \in Workers : run[w].d # d
          /\ \A c \in Callers : call[c].d # d
      BY LifecycleAssumption DEF Init, IdleRun, IdleCall
    <2>2. ~Live(d)
      BY <1>1, <2>1 DEF Init, Live, Working, Engaged, On, CalledTo, Pending
    <2>3. FileRow(d) /\ Looked(d)
      BY <1>1 DEF Init, FileRow, Looked, Early, Unstarted, ErrorPending
    <2> QED BY <2>1, <2>2, <2>3 DEF FileOf
  <1>3. Reserved /\ EvsFine /\ Renamed
    BY <1>1 DEF Init, Reserved, EvsFine, Renamed
  <1> QED BY <1>1, <1>2, <1>3 DEF FileInv, Files

LEMMA NoAbort ==
  ASSUME TypeOK, MaxRejects = 0, NEW d \in Downloads, Abort(d)
  PROVE  FALSE
  BY DEF TypeOK, Abort

LEMMA FileStep ==
  ASSUME FileInv, Races = {}, MaxRejects = 0, OneName, [Next]_vars
  PROVE  FileInv'
  <1>1. WorkInv'
    BY WorkStep DEF FileInv
  <1>2. FileRest'
    <2>1. CASE UNCHANGED vars
      <3>1. ASSUME NEW d \in Downloads PROVE FileOf(d)'
        <4>1. Same(d) /\ Keeps(d) /\ FileOf(d)
          <5>1. SameEvents(d)
            BY <2>1, SilentKeepsEvents DEF vars
          <5> QED
            BY <2>1, <5>1 DEF Same, SameHistory, SameState, SameRuns, SameCalls, Keeps, FileInv, Files,
               vars, disk, pool, requests, program, history
        <4> QED BY <4>1, FileOthers
      <3>2. StillDisk /\ UNCHANGED <<evs, half>>
        BY <2>1 DEF vars, disk, StillDisk
      <3>3. Reserved' /\ EvsFine' /\ Renamed'
        BY <3>2, SilentFine DEF FileInv, Reserved, StillDisk
      <3> QED BY <3>1, <3>3 DEF FileRest, Files
    <2>2. ASSUME NEW d \in Downloads, Request(d) \/ EnqueueStep(d) \/ (Running /\ Abort(d))
          PROVE  FileRest'
      <3>1. phase # "down"
        BY <2>2 DEF Request, EnqueueStep, Running
      <3> QED
        BY <2>2, <3>1, NamingFiles, DispatchFiles, PublishQueuedFiles, NoAbort DEF EnqueueStep, FileInv, WorkInv
    <2>3. ASSUME NEW w \in Workers, WorkerStep(w) \/ (Running /\ TransferFails(w)) PROVE FileRest'
      <3>1. phase # "down"
        BY <2>3 DEF WorkerStep, Running
      <3> QED BY <2>3, <3>1, TransferFiles, TakeFiles, FinishFiles DEF WorkerStep
    <2>4. ASSUME NEW c \in Callers, CallerStep(c) PROVE FileRest'
      <3>1. phase # "down"
        BY <2>4 DEF CallerStep, Add, CancelWaited, NotFound, PublishRemoved, ResumeStored, Running
      <3> QED BY <2>4, <3>1, CallerFiles, PublishRemovedFiles, ResumeFiles DEF CallerStep
    <2>5. ASSUME NEW c \in Callers, NEW d \in Downloads, Calls(c, d) PROVE FileRest'
      <3>1. phase # "down"
        BY <2>5 DEF Calls, Pause, PauseStored, ResumeHot, ResumeCold, Cancel, MayCall, Running
      <3> QED BY <2>5, <3>1, PauseFiles, PauseStoredFiles, ResumeFiles, CancelFiles DEF Calls
    <2>6. CASE EventStep
      BY <2>6, EventFiles
    <2>7. CASE Shutdown \/ CloseInput \/ Exit \/ Kill \/ Start
      BY <2>7, StopFiles, GoneFiles, StartFiles DEF Exit, Kill
    <2> QED BY <2>1, <2>2, <2>3, <2>4, <2>5, <2>6, <2>7 DEF Next
  <1> QED BY <1>1, <1>2 DEF FileInv, FileRest

LEMMA FilesHold ==
  ASSUME Races = {}, MaxRejects = 0, OneName
  PROVE  Spec => []FileInv
  <1>1. FileInv /\ [Next]_vars => FileInv'
    BY FileStep
  <1> QED BY <1>1, FileInit, PTL DEF Spec

(* A transfer writes to its own download's working file: no name is handed *)
(* out twice, and no error or removal of another takes it away.            *)
THEOREM EveryTransferHasItsFile ==
  ASSUME Races = {}, MaxRejects = 0, OneName
  PROVE  Spec => []OwnFile
  <1>1. FileInv => OwnFile
    <2> SUFFICES ASSUME FileInv, NEW w \in Workers, Transferring(w) PROVE surge[dest[run[w].d]] = run[w].d
      BY DEF OwnFile
    <2>1. PICK d : d = run[w].d
      OBVIOUS
    <2>2. d \in Downloads
      BY <2>1, OneRunOf DEF Transferring, FileInv
    <2> QED BY <2>1, <2>2 DEF Transferring, FileInv, Files, FileOf, FileRun
  <1> QED BY <1>1, FilesHold, PTL

(* Two workers never transfer to one file: they have two downloads, and a  *)
(* working file has one owner.                                             *)
THEOREM OneWriterPerFile ==
  ASSUME Races = {}, MaxRejects = 0, OneName
  PROVE  Spec => []OneWriter
  <1>1. FileInv => OneWriter
    <2> SUFFICES ASSUME FileInv, NEW v \in Workers, NEW w \in Workers, v # w,
                        Transferring(v), Transferring(w)
                 PROVE  dest[run[v].d] # dest[run[w].d]
      BY DEF OneWriter
    <2>1. PICK d : d = run[v].d
      OBVIOUS
    <2>2. PICK e : e = run[w].d
      OBVIOUS
    <2>3. d \in Downloads /\ e \in Downloads /\ d # e
      BY <2>1, <2>2, OneRunOf DEF Transferring, FileInv
    <2>4. surge[dest[d]] = d /\ surge[dest[e]] = e
      BY <2>1, <2>2, <2>3 DEF Transferring, FileInv, Files, FileOf, FileRun
    <2> QED BY <2>1, <2>2, <2>3, <2>4
  <1> QED BY <1>1, FilesHold, PTL

(* A row says completed only when the final file has that download's bytes. *)
THEOREM CompletedFilesAreThere ==
  ASSUME Races = {}, MaxRejects = 0, OneName
  PROVE  Spec => []CompletedIsThere
  <1>1. FileInv => CompletedIsThere
    BY DEF FileInv, Files, FileOf, FileRow, CompletedIsThere
  <1> QED BY <1>1, FilesHold, PTL

(* A request that was stored outlives any end of the program and the       *)
(* clean-up after it.                                                      *)
THEOREM AcceptedRequestsSurvive ==
  ASSUME Races = {}, MaxRejects = 0, OneName
  PROVE  Spec => []AcceptedSurvives
  <1>1. FileInv => AcceptedSurvives
    BY DEF FileInv, WorkInv, TypeOK, Files, FileOf, FileRow, AcceptedSurvives
  <1> QED BY <1>1, FilesHold, PTL

=============================================================================
