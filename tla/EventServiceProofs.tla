-------------------------- MODULE EventServiceProofs --------------------------
(***************************************************************************)
(* Proofs about the event stream, for every number of listeners, workers,  *)
(* streams and events and every channel capacity: the service never sends  *)
(* on or closes a closed channel, and it implements EventLog.              *)
(***************************************************************************)
EXTENDS EventService, SequenceTheorems, TLAPS

(* Cut(s, i) is s without its i-th element.                                *)
LEMMA CutIsSeq ==
  ASSUME NEW S, NEW s \in Seq(S), NEW i \in 1..Len(s)
  PROVE  /\ Cut(s, i) \in Seq(S)
         /\ Len(Cut(s, i)) = Len(s) - 1
         /\ \A j \in 1..(Len(s) - 1) : Cut(s, i)[j] = IF j < i THEN s[j] ELSE s[j + 1]
<1>1. Len(s) \in Nat /\ Len(s) - 1 \in Nat
  OBVIOUS
<1>2. \A j \in 1..(Len(s) - 1) : (IF j < i THEN s[j] ELSE s[j + 1]) \in S
  BY <1>1
<1>3. Cut(s, i) \in [1..(Len(s) - 1) -> S]
  BY <1>2 DEF Cut
<1>4. Cut(s, i) \in Seq(S) /\ Len(Cut(s, i)) = Len(s) - 1
  BY <1>1, <1>3
<1>5. QED
  BY <1>4 DEF Cut

(* What is left of a list without repetitions when one element goes.       *)
LEMMA CutLoses ==
  ASSUME NEW S, NEW s \in Seq(S), NEW i \in 1..Len(s),
         \A j, k \in 1..Len(s) : s[j] = s[k] => j = k
  PROVE  /\ \A j \in 1..Len(Cut(s, i)) : Cut(s, i)[j] # s[i]
         /\ \A x : x # s[i] => ((\E j \in 1..Len(s) : s[j] = x)
                                  <=> (\E j \in 1..Len(Cut(s, i)) : Cut(s, i)[j] = x))
         /\ \A j, k \in 1..Len(Cut(s, i)) : Cut(s, i)[j] = Cut(s, i)[k] => j = k
<1> DEFINE c == Cut(s, i)
           n == Len(s)
<1>1. /\ Len(c) = n - 1 /\ n \in Nat
      /\ \A j \in 1..(n - 1) : c[j] = IF j < i THEN s[j] ELSE s[j + 1]
  <2>1. n \in Nat
    OBVIOUS
  <2>2. Len(c) = n - 1 /\ \A j \in 1..(n - 1) : c[j] = IF j < i THEN s[j] ELSE s[j + 1]
    BY CutIsSeq, Zenon
  <2>3. QED
    BY <2>1, <2>2, Zenon
<1> HIDE DEF c
<1>2. \A j \in 1..Len(c) : c[j] # s[i]
  BY <1>1
<1>3. ASSUME NEW x, x # s[i]
      PROVE  (\E j \in 1..n : s[j] = x) <=> (\E j \in 1..Len(c) : c[j] = x)
  <2>1. ASSUME NEW j \in 1..n, s[j] = x PROVE \E k \in 1..Len(c) : c[k] = x
    <3>1. CASE j < i
      <4>1. j \in 1..(n - 1) /\ c[j] = x
        BY <1>1, <2>1, <3>1
      <4>2. QED
        BY <1>1, <4>1
    <3>2. CASE j > i
      <4>1. j - 1 \in 1..(n - 1) /\ c[j - 1] = x
        BY <1>1, <2>1, <3>2
      <4>2. QED
        BY <1>1, <4>1
    <3>3. j # i
      BY <1>3, <2>1
    <3>4. QED
      BY <3>1, <3>2, <3>3
  <2>2. ASSUME NEW j \in 1..Len(c), c[j] = x PROVE \E k \in 1..n : s[k] = x
    <3>1. s[IF j < i THEN j ELSE j + 1] = x /\ (IF j < i THEN j ELSE j + 1) \in 1..n
      BY <1>1, <2>2
    <3>2. QED
      BY <3>1
  <2>3. QED
    BY <2>1, <2>2
<1>4. ASSUME NEW j \in 1..Len(c), NEW k \in 1..Len(c), c[j] = c[k] PROVE j = k
  <2>1. (IF j < i THEN j ELSE j + 1) = (IF k < i THEN k ELSE k + 1)
    BY <1>1, <1>4
  <2>2. QED
    BY <1>1, <2>1
<1>5. QED
  BY <1>2, <1>3, <1>4 DEF c

LEMMA EventInit == Init => IInv
<1>1. SUFFICES ASSUME Init PROVE IInv
  OBVIOUS
<1>2. TypeOK
  <2>1. log \in Seq(Entries) /\ Len(log) = 0 /\ listeners \in Seq(Listeners) /\ Len(listeners) = 0
    BY <1>1 DEF Init
  <2>2. got \in [Listeners -> Seq(Nat)] /\ \A l \in Listeners : Len(got[l]) = 0 /\ unread[l] = 0
    BY <1>1 DEF Init
  <2>3. unread \in [Listeners -> 0..Buffer]
    BY <1>1, EventAssumption DEF Init
  <2>4. ASSUME NEW l \in Listeners PROVE unread[l] <= Len(got[l])
    <3>1. unread[l] = 0 /\ Len(got[l]) = 0
      BY <2>2
    <3>2. QED
      BY <3>1
  <2>5. /\ life \in [Listeners -> {"none", "open", "left", "ended"}]
        /\ sender \in [Senders -> {"idle", "working", "sending", "over"}]
        /\ pending \in [Senders -> BOOLEAN]
        /\ sent \in [Senders -> 0..MaxEvents]
    BY <1>1, EventAssumption DEF Init
  <2>6. /\ taken \in 0..Len(log) /\ Len(log) - taken <= InputCap /\ next \in 1..(Len(listeners) + 1)
        /\ batches \in 0..MaxBatches
    BY <1>1, <2>1, EventAssumption DEF Init
  <2>7. QED
    BY <1>1, <2>1, <2>2, <2>3, <2>4, <2>5, <2>6, Zenon DEF Init, TypeOK
<1>3. QED
  BY <1>1, <1>2 DEF Init, IInv, ListIsExact, InOrder, OnlyPublishPanics
-----------------------------------------------------------------------------
(* What a sender does.                                                     *)
LEMMA SenderStep ==
  ASSUME IInv, NEW p \in Senders,
         Start(p) \/ Prepare(p) \/ Send(p) \/ PublishTimesOut(p) \/ SendOnClosed(p) \/ Finish(p)
  PROVE  IInv'
<1> USE EventAssumption DEF IInv, inputVars, listenerVars, broadcastVars, reporterVars
<1>1. UNCHANGED <<inputClosed, listeners, life, broadcast, taken, reporting, shutdown>>
  BY DEF Start, Prepare, Send, PublishTimesOut, SendOnClosed, Finish
<1>2. log' = log \/ (~inputClosed /\ InputRoom /\ \E e \in Entries : log' = Append(log, e))
  <2>1. CASE Send(p)
    <3>1. [from |-> p, progress |-> pending[p]] \in Entries
      BY DEF TypeOK, Entries
    <3>2. QED
      BY <2>1, <3>1 DEF Send
  <2>2. QED
    BY <2>1 DEF Start, Prepare, PublishTimesOut, SendOnClosed, Finish
<1>3. /\ log' \in Seq(Entries) /\ taken' \in 0..Len(log')
      /\ Len(log') - taken' <= InputCap
      /\ broadcast = "over" => log' = log
  <2>1. CASE log' = log
    BY <1>1, <2>1 DEF TypeOK
  <2>2. ASSUME ~inputClosed, InputRoom, NEW e \in Entries, log' = Append(log, e)
        PROVE  /\ log' \in Seq(Entries) /\ taken' \in 0..Len(log')
               /\ Len(log') - taken' <= InputCap
               /\ broadcast # "over"
    <3>1. log \in Seq(Entries) /\ taken \in 0..Len(log) /\ broadcast # "over"
      BY <2>2 DEF TypeOK, InOrder
    <3>2. log' \in Seq(Entries) /\ Len(log') = Len(log) + 1 /\ Len(log) \in Nat
      BY <2>2, <3>1
    <3>3. QED
      BY <1>1, <2>2, <3>1, <3>2 DEF InputRoom
  <2>3. QED
    BY <1>2, <2>1, <2>2
<1>4. /\ sender' \in [Senders -> {"idle", "working", "sending", "over"}]
      /\ pending' \in [Senders -> BOOLEAN]
      /\ sent' \in [Senders -> 0..MaxEvents]
  <2>1. sender' \in [Senders -> {"idle", "working", "sending", "over"}]
    BY DEF TypeOK, Start, Prepare, Send, PublishTimesOut, SendOnClosed, Finish
  <2>2. pending' \in [Senders -> BOOLEAN]
    BY DEF TypeOK, Start, Prepare, Send, PublishTimesOut, SendOnClosed, Finish
  <2>3. sent' = sent \/ (sent[p] < MaxEvents /\ sent' = [sent EXCEPT ![p] = sent[p] + 1])
    BY DEF Start, Prepare, Send, PublishTimesOut, SendOnClosed, Finish
  <2>4. sent' \in [Senders -> 0..MaxEvents]
    <3>1. sent \in [Senders -> 0..MaxEvents] /\ MaxEvents \in Nat
      BY DEF TypeOK
    <3>2. QED
      BY <2>3, <3>1
  <2>5. QED
    BY <2>1, <2>2, <2>4
<1>5. panicked' \in {panicked} \cup Streams
  BY DEF Senders, Start, Prepare, Send, PublishTimesOut, SendOnClosed, Finish
<1>6. UNCHANGED <<got, unread, next, batches>>
  BY DEF Start, Prepare, Send, PublishTimesOut, SendOnClosed, Finish
<1>7. TypeOK'
  BY <1>1, <1>3, <1>4, <1>5, <1>6 DEF TypeOK, Senders
<1>8. ListIsExact' /\ InOrder' /\ OnlyPublishPanics'
  BY <1>1, <1>3, <1>5, <1>6 DEF ListIsExact, InOrder, OnlyPublishPanics
<1>9. QED
  BY <1>7, <1>8

(* What the reporter does: it never meets the closed channel.              *)
LEMMA ReporterStep ==
  ASSUME IInv, Report \/ ReporterStops
  PROVE  IInv'
<1> USE EventAssumption DEF IInv, inputVars, listenerVars, broadcastVars, senderVars
<1>1. UNCHANGED <<inputClosed, listeners, life, got, unread, broadcast, taken, next,
                  sender, pending, sent, shutdown>>
  BY DEF Report, ReporterStops
<1>2. ~ inputClosed \/ log' = log
  BY DEF Report, ReporterStops
<1>3. panicked' = panicked /\ reporting' \in {reporting, FALSE}
  BY DEF Report, ReporterStops, InOrder
<1>4. /\ log' \in Seq(Entries) /\ taken' \in 0..Len(log')
      /\ Len(log') - taken' <= InputCap
  <2>1. [from |-> Reporter, progress |-> TRUE] \in Entries
    BY DEF Entries
  <2>2. log' = log \/ (InputRoom /\ log' = Append(log, [from |-> Reporter, progress |-> TRUE]))
    BY DEF Report, ReporterStops
  <2>3. log \in Seq(Entries) /\ Len(log) \in Nat /\ taken \in 0..Len(log) /\ Len(log) - taken <= InputCap
    BY DEF TypeOK
  <2>4. CASE log' = Append(log, [from |-> Reporter, progress |-> TRUE]) /\ InputRoom
    <3>1. log' \in Seq(Entries) /\ Len(log') = Len(log) + 1
      BY <2>1, <2>3, <2>4
    <3>2. QED
      BY <1>1, <2>3, <2>4, <3>1 DEF InputRoom
  <2>5. QED
    BY <1>1, <2>2, <2>3, <2>4
<1>5. batches' \in 0..MaxBatches /\ reporting' \in BOOLEAN
  <2>1. batches \in 0..MaxBatches /\ MaxBatches \in Nat /\ reporting \in BOOLEAN
    BY DEF TypeOK
  <2>2. batches' = batches \/ (batches < MaxBatches /\ batches' = batches + 1)
    BY DEF Report, ReporterStops
  <2>3. batches' \in 0..MaxBatches
    BY <2>1, <2>2
  <2>4. QED
    BY <1>3, <2>1, <2>3, Zenon
<1>6. TypeOK'
  BY <1>1, <1>3, <1>4, <1>5 DEF TypeOK
<1>7. ListIsExact' /\ OnlyPublishPanics'
  BY <1>1, <1>3 DEF ListIsExact, OnlyPublishPanics
<1>8. InOrder'
  <2>1. reporting' => reporting
    BY <1>3
  <2>2. QED
    BY <1>1, <1>2, <2>1 DEF InOrder
<1>9. QED
  BY <1>6, <1>7, <1>8

(* What the broadcaster does: while it holds the lock the list does not    *)
(* change, so the listener it serves is open.                              *)
LEMMA BroadcasterStep ==
  ASSUME IInv, Broadcaster
  PROVE  IInv'
<1> USE EventAssumption DEF IInv, inputVars, senderVars, reporterVars, listenerVars
<1>1. UNCHANGED <<log, inputClosed, sender, pending, sent, reporting, batches, shutdown>>
  BY DEF Broadcaster, Receive, Lock, Unlock, EndStreams, Deliver, DropProgress, DropCritical
<1>2. ASSUME Receive \/ Lock \/ Unlock PROVE IInv'
  <2>1. TypeOK'
    <3>1. CASE Receive
      BY <1>1, <3>1 DEF Receive, TypeOK
    <3>2. CASE Lock \/ Unlock
      BY <1>1, <3>2 DEF Lock, Unlock, TypeOK
    <3>3. QED
      BY <1>2, <3>1, <3>2
  <2>2. ListIsExact' /\ OnlyPublishPanics'
    BY <1>1, <1>2 DEF Receive, Lock, Unlock, ListIsExact, OnlyPublishPanics
  <2>3. taken \in Nat
    BY DEF TypeOK
  <2>4. InOrder'
    BY <1>1, <1>2, <2>3 DEF Receive, Lock, Unlock, InOrder
  <2>5. QED
    BY <2>1, <2>2, <2>4
<1>3. ASSUME EndStreams PROVE IInv'
  <2> DEFINE listening == {listeners[i] : i \in DOMAIN listeners}
  <2>0. listeners \in Seq(Listeners) /\ DOMAIN listeners = 1..Len(listeners)
    BY DEF TypeOK
  <2>1. \A l \in Listeners : l \in listening <=> life[l] = "open"
    <3>1. \A l : l \in listening <=> \E i \in 1..Len(listeners) : listeners[i] = l
      BY <2>0
    <3>2. QED
      BY <3>1, Zenon DEF ListIsExact
  <2>2. \A l \in listening : l \in Listeners
    BY <2>0
  <2>3. panicked' = panicked
    BY <1>3, <2>1, <2>2 DEF EndStreams
  <2>4. /\ life' = [l \in Listeners |-> IF l \in listening THEN "ended" ELSE life[l]]
        /\ listeners' = <<>> /\ next' = next /\ broadcast = "wait" /\ broadcast' = "over"
        /\ inputClosed /\ taken = Len(log)
        /\ UNCHANGED <<got, unread, taken>>
    BY <1>3 DEF EndStreams
  <2> HIDE DEF listening
  <2>5. next' \in 1..(Len(listeners') + 1)
    BY <2>4 DEF InOrder
  <2>6. TypeOK'
    BY <1>1, <2>3, <2>4, <2>5 DEF TypeOK
  <2>7. ListIsExact' /\ InOrder' /\ OnlyPublishPanics'
    BY <1>1, <2>1, <2>3, <2>4 DEF ListIsExact, InOrder, OnlyPublishPanics, TypeOK
  <2>8. QED
    BY <2>6, <2>7
<1>4. ASSUME NEW l \in Listeners, Deliver(l) \/ DropProgress(l) \/ DropCritical(l) PROVE IInv'
  <2>0. Len(listeners) \in Nat /\ next \in 1..(Len(listeners) + 1)
    BY DEF TypeOK
  <2>1. life[l] = "open"
    <3>1. next \in 1..Len(listeners) /\ l = listeners[next]
      BY <1>4, <2>0 DEF Deliver, DropProgress, DropCritical, Serving
    <3>2. QED
      BY <3>1 DEF ListIsExact
  <2>2. /\ UNCHANGED <<listeners, life, taken, broadcast, panicked>>
        /\ next' = next + 1 /\ next <= Len(listeners) /\ broadcast = "send"
    BY <1>4, <2>1 DEF Deliver, DropProgress, DropCritical, Serving
  <2>3. /\ got' \in [Listeners -> Seq(Nat)] /\ unread' \in [Listeners -> 0..Buffer]
        /\ \A k \in Listeners : unread'[k] <= Len(got'[k])
    <3>1. /\ got \in [Listeners -> Seq(Nat)] /\ unread \in [Listeners -> 0..Buffer]
          /\ \A k \in Listeners : unread[k] <= Len(got[k])
          /\ taken \in Nat /\ Buffer \in Nat
      BY DEF TypeOK
    <3>2. CASE UNCHANGED <<got, unread>>
      BY <3>1, <3>2
    <3>3. CASE Deliver(l)
      <4>1. Append(got[l], taken) \in Seq(Nat) /\ Len(Append(got[l], taken)) = Len(got[l]) + 1
        BY <3>1
      <4>2. /\ got' = [got EXCEPT ![l] = Append(got[l], taken)]
            /\ unread' = [unread EXCEPT ![l] = unread[l] + 1]
            /\ unread[l] < Buffer
        BY <3>3 DEF Deliver
      <4>3. ASSUME NEW k \in Listeners PROVE Len(got[k]) \in Nat
        <5>1. got[k] \in Seq(Nat)
          BY <3>1
        <5>2. QED
          BY <5>1
      <4>4. QED
        BY <3>1, <4>1, <4>2, <4>3
    <3>4. QED
      BY <1>4, <3>2, <3>3 DEF DropProgress, DropCritical
  <2>4. next' \in 1..(Len(listeners') + 1)
    BY <2>0, <2>2
  <2>5. TypeOK'
    BY <1>1, <2>2, <2>3, <2>4 DEF TypeOK
  <2>6. ListIsExact' /\ InOrder' /\ OnlyPublishPanics'
    BY <1>1, <2>2 DEF ListIsExact, InOrder, OnlyPublishPanics
  <2>7. QED
    BY <2>5, <2>6
<1>5. QED
  BY <1>2, <1>3, <1>4 DEF Broadcaster

(* What listeners do.  A clean-up finds its channel in the list or leaves  *)
(* it alone, so it closes no channel the broadcaster has closed.           *)
LEMMA ListenerStep ==
  ASSUME IInv, NEW l \in Listeners, StreamEvents(l) \/ Read(l) \/ CleanUp(l)
  PROVE  IInv'
<1> USE EventAssumption DEF IInv, inputVars, senderVars, reporterVars, broadcastVars
<1>1. /\ UNCHANGED <<log, inputClosed, sender, pending, sent, reporting, batches, shutdown,
                     taken, broadcast, next, got>>
  BY DEF StreamEvents, Read, CleanUp
<1>2. /\ listeners \in Seq(Listeners) /\ Len(listeners) \in Nat
      /\ DOMAIN listeners = 1..Len(listeners)
      /\ life \in [Listeners -> {"none", "open", "left", "ended"}]
  BY DEF TypeOK
<1>3. InOrder'
  BY <1>1 DEF InOrder
<1>4. ASSUME StreamEvents(l) PROVE IInv'
  <2>1. /\ listeners' = Append(listeners, l) /\ life[l] = "none"
        /\ life' = [life EXCEPT ![l] = "open"] /\ UNCHANGED <<unread, panicked>>
        /\ broadcast # "send"
    BY <1>4 DEF StreamEvents, LockFree
  <2>2. /\ listeners' \in Seq(Listeners) /\ Len(listeners') = Len(listeners) + 1
        /\ \A i \in 1..Len(listeners) : listeners'[i] = listeners[i]
        /\ listeners'[Len(listeners) + 1] = l
    BY <1>2, <2>1
  <2>3. life' \in [Listeners -> {"none", "open", "left", "ended"}]
    BY <1>2, <2>1
  <2>4. next' \in 1..(Len(listeners') + 1)
    BY <1>1, <1>2, <2>2 DEF TypeOK
  <2>5. TypeOK'
    BY <1>1, <2>1, <2>2, <2>3, <2>4 DEF TypeOK
  <2>6. \A i \in 1..Len(listeners) : listeners[i] # l
    BY <1>2, <2>1 DEF ListIsExact
  <2>7. ASSUME NEW k \in Listeners
        PROVE  life'[k] = "open" <=> \E i \in 1..Len(listeners') : listeners'[i] = k
    <3>1. CASE k = l
      <4>1. Len(listeners) + 1 \in 1..Len(listeners')
        BY <1>2, <2>2
      <4>2. QED
        BY <1>2, <2>1, <2>2, <3>1, <4>1
    <3>2. CASE k # l
      <4>1. (\E i \in 1..Len(listeners') : listeners'[i] = k)
              <=> (\E i \in 1..Len(listeners) : listeners[i] = k)
        BY <1>2, <2>2, <3>2
      <4>2. life'[k] = life[k]
        BY <1>2, <2>1, <3>2
      <4>3. QED
        BY <4>1, <4>2 DEF ListIsExact
    <3>3. QED
      BY <3>1, <3>2
  <2>8. ASSUME NEW i \in 1..Len(listeners'), NEW j \in 1..Len(listeners'),
               listeners'[i] = listeners'[j]
        PROVE  i = j
    BY <1>2, <2>2, <2>6, <2>8 DEF ListIsExact
  <2>9. ListIsExact' /\ OnlyPublishPanics'
    BY <2>1, <2>7, <2>8 DEF ListIsExact, OnlyPublishPanics
  <2>10. QED
    BY <1>3, <2>5, <2>9
<1>5. ASSUME Read(l) PROVE IInv'
  <2>1. /\ UNCHANGED <<listeners, life, panicked>>
        /\ unread' = [unread EXCEPT ![l] = unread[l] - 1] /\ unread[l] > 0
    BY <1>5 DEF Read
  <2>2. /\ unread \in [Listeners -> 0..Buffer] /\ Buffer \in Nat
        /\ \A k \in Listeners : unread[k] <= Len(got[k])
        /\ got \in [Listeners -> Seq(Nat)]
    BY DEF TypeOK
  <2>3. unread' \in [Listeners -> 0..Buffer]
    BY <2>1, <2>2
  <2>4. ASSUME NEW k \in Listeners PROVE unread'[k] <= Len(got'[k])
    <3>1. got[k] \in Seq(Nat) /\ unread[k] \in 0..Buffer
      BY <2>2
    <3>2. Len(got[k]) \in Nat /\ unread[k] \in Nat
      BY <3>1, <2>2
    <3>3. QED
      BY <1>1, <2>1, <2>2, <3>2
  <2>5. TypeOK'
    <3>1. UNCHANGED <<inputVars, listeners, life, got, broadcastVars, senderVars,
                      reporterVars, shutdown, panicked>>
      BY <1>5 DEF Read
    <3>2. QED
      BY <2>3, <2>4, <3>1 DEF TypeOK, broadcastVars
  <2>6. ListIsExact' /\ OnlyPublishPanics'
    BY <2>1 DEF ListIsExact, OnlyPublishPanics
  <2>7. QED
    BY <1>3, <2>5, <2>6
<1>6. ASSUME CleanUp(l) PROVE IInv'
  <2>1. PICK i \in 1..Len(listeners) : listeners[i] = l /\ listeners' = Cut(listeners, i)
    BY <1>2, <1>6 DEF CleanUp
  <2>2. life[l] = "open"
    <3>1. \E j \in 1..Len(listeners) : listeners[j] = l
      BY <2>1
    <3>2. QED
      BY <3>1, Zenon DEF ListIsExact
  <2>3. /\ life' = [life EXCEPT ![l] = "left"] /\ UNCHANGED <<unread, panicked>>
        /\ broadcast # "send"
    <3>1. /\ broadcast # "send"
          /\ life' = [life EXCEPT ![l] = "left"]
          /\ unread' = unread
          /\ panicked' = IF life[l] # "open" THEN Service ELSE panicked
      BY <1>6 DEF CleanUp, LockFree
    <3>2. QED
      BY <2>2, <3>1
  <2>4. listeners' \in Seq(Listeners) /\ Len(listeners') = Len(listeners) - 1
    <3>1. listeners \in Seq(Listeners)
      BY <1>2
    <3>2. Cut(listeners, i) \in Seq(Listeners) /\ Len(Cut(listeners, i)) = Len(listeners) - 1
      BY <3>1, CutIsSeq
    <3>3. QED
      BY <2>1, <3>2, Zenon
  <2>5. \A j, k \in 1..Len(listeners) : listeners[j] = listeners[k] => j = k
    BY DEF ListIsExact
  <2>6. /\ \A j \in 1..Len(listeners') : listeners'[j] # l
        /\ \A x : x # l => ((\E j \in 1..Len(listeners) : listeners[j] = x)
                              <=> (\E j \in 1..Len(listeners') : listeners'[j] = x))
        /\ \A j, k \in 1..Len(listeners') : listeners'[j] = listeners'[k] => j = k
    <3>1. LET c == Cut(listeners, i) IN
          /\ \A j \in 1..Len(c) : c[j] # listeners[i]
          /\ \A x : x # listeners[i] => ((\E j \in 1..Len(listeners) : listeners[j] = x)
                                           <=> (\E j \in 1..Len(c) : c[j] = x))
          /\ \A j, k \in 1..Len(c) : c[j] = c[k] => j = k
      BY <1>2, <2>5, CutLoses, Zenon
    <3>2. QED
      BY <2>1, <3>1, Zenon
  <2>7. \A k \in Listeners : life'[k] = IF k = l THEN "left" ELSE life[k]
    BY <1>2, <2>3
  <2>8. ListIsExact'
    BY <2>6, <2>7 DEF ListIsExact
  <2>9. life' \in [Listeners -> {"none", "open", "left", "ended"}]
    BY <1>2, <2>3
  <2>10. next = 1
    BY <2>3 DEF InOrder
  <2>11. next' \in 1..(Len(listeners') + 1)
    BY <1>1, <1>2, <2>1, <2>4, <2>10 DEF InOrder
  <2>12. TypeOK'
    BY <1>1, <2>3, <2>4, <2>9, <2>11 DEF TypeOK
  <2>13. OnlyPublishPanics'
    BY <2>3 DEF OnlyPublishPanics
  <2>14. QED
    BY <1>3, <2>8, <2>12, <2>13
<1>7. QED
  BY <1>4, <1>5, <1>6

(* What Shutdown does.                                                     *)
LEMMA ShutdownStep ==
  ASSUME IInv, BeginShutdown \/ PoolStopped \/ CloseInput \/ ShutdownDone
  PROVE  IInv'
<1> USE DEF IInv, listenerVars, senderVars, reporterVars, broadcastVars, Proceed
<1>1. /\ UNCHANGED <<log, listeners, life, got, unread, taken, broadcast, next, sender,
                     pending, sent, reporting, batches, panicked>>
      /\ shutdown' \in {"pool", "cancelled", "closed", "done"}
      /\ inputClosed' \in BOOLEAN
  BY DEF BeginShutdown, PoolStopped, CloseInput, ShutdownDone, TypeOK
<1>2. TypeOK'
  BY <1>1 DEF TypeOK
<1>3. ListIsExact' /\ OnlyPublishPanics'
  BY <1>1 DEF ListIsExact, OnlyPublishPanics
<1>4. InOrder'
  BY <1>1 DEF BeginShutdown, PoolStopped, CloseInput, ShutdownDone, InOrder
<1>5. QED
  BY <1>2, <1>3, <1>4

LEMMA EventStep == IInv /\ [Next]_serviceVars => IInv'
<1>1. SUFFICES ASSUME IInv, [Next]_serviceVars PROVE IInv'
  OBVIOUS
<1>2. CASE UNCHANGED serviceVars
  BY <1>1, <1>2 DEF serviceVars, inputVars, listenerVars, broadcastVars, senderVars,
     reporterVars, IInv, TypeOK, ListIsExact, InOrder, OnlyPublishPanics
<1>3. CASE Next
  BY <1>1, <1>3, SenderStep, ReporterStep, BroadcasterStep, ListenerStep, ShutdownStep
     DEF Next
<1>4. QED
  BY <1>1, <1>2, <1>3

THEOREM EventsAlways == Spec => []IInv
BY EventInit, EventStep, PTL DEF Spec

(* The types of the event service's state.                                 *)
THEOREM EventServiceTypes == Spec => []TypeOK
<1>1. IInv => TypeOK
  BY DEF IInv
<1>2. QED
  BY <1>1, EventsAlways, PTL

(* The service never sends on a closed channel and closes none twice.      *)
THEOREM ServiceNeverPanics == Spec => []OnlyPublishPanics
<1>1. IInv => OnlyPublishPanics
  BY DEF IInv
<1>2. QED
  BY <1>1, EventsAlways, PTL
-----------------------------------------------------------------------------
(* How much a listener has been offered does not depend on the senders,    *)
(* nor on the channels' contents.                                          *)
LEMMA OfferedSame ==
  ASSUME UNCHANGED <<life, broadcast, next, listeners, taken>>
  PROVE  \A l : Offered(l)' = Offered(l)
BY DEF Offered, Waits

(* Serving one listener takes it, and only it, off those that wait.        *)
LEMMA ServedOnce ==
  ASSUME IInv, NEW l \in Listeners, Serving(l),
         next' = next + 1, UNCHANGED <<life, broadcast, listeners, taken>>
  PROVE  /\ life[l] = "open" /\ Offered(l) = taken - 1 /\ Offered(l)' = taken
         /\ \A k : k # l => Offered(k)' = Offered(k)
<1>1. /\ Len(listeners) \in Nat /\ next \in 1..Len(listeners) /\ listeners[next] = l
      /\ broadcast = "send"
  BY DEF IInv, TypeOK, Serving
<1>2. life[l] = "open"
  BY <1>1 DEF IInv, ListIsExact
<1>3. Waits(l)
  BY <1>1 DEF Waits
<1>4. ~ Waits(l)'
  <2>1. ASSUME NEW i \in (next + 1)..Len(listeners) PROVE listeners[i] # l
    BY <1>1 DEF IInv, ListIsExact
  <2>2. QED
    BY <1>1, <2>1 DEF Waits
<1>5. ASSUME NEW k, k # l PROVE Waits(k)' <=> Waits(k)
  <2>1. (\E i \in next..Len(listeners) : listeners[i] = k)
          <=> (\E i \in (next + 1)..Len(listeners) : listeners[i] = k)
    BY <1>1, <1>5
  <2>2. QED
    BY <1>1, <2>1 DEF Waits
<1>6. QED
  BY <1>1, <1>2, <1>3, <1>4, <1>5 DEF Offered

(* Taking a message off InputCh, locking and unlocking offer nothing.      *)
LEMMA OfferedStays ==
  ASSUME IInv, Receive \/ Lock \/ Unlock
  PROVE  \A l \in Listeners : Offered(l)' = Offered(l)
<1> SUFFICES ASSUME NEW l \in Listeners, life[l] = "open" PROVE Offered(l)' = Offered(l)
  BY DEF Offered, Receive, Lock, Unlock, listenerVars
<1>1. taken \in Nat /\ Len(listeners) \in Nat /\ next \in Nat
  BY DEF IInv, TypeOK
<1>2. CASE Receive
  <2>1. ~ Waits(l) /\ Waits(l)' /\ broadcast # "over" /\ broadcast' # "over" /\ life' = life
        /\ taken' = taken + 1
    BY <1>2 DEF Receive, Waits, listenerVars
  <2>2. QED
    BY <1>1, <2>1 DEF Offered
<1>3. CASE Lock
  <2>1. \E i \in 1..Len(listeners) : listeners[i] = l
    BY DEF IInv, ListIsExact
  <2>2. Waits(l) /\ Waits(l)' /\ broadcast # "over" /\ broadcast' # "over"
        /\ UNCHANGED <<life, taken>>
    BY <1>3, <2>1 DEF Lock, Waits, listenerVars
  <2>3. QED
    BY <2>2 DEF Offered
<1>4. CASE Unlock
  <2>1. ~ \E i \in next..Len(listeners) : listeners[i] = l
    BY <1>1, <1>4 DEF Unlock
  <2>2. ~ Waits(l) /\ ~ Waits(l)' /\ broadcast # "over" /\ broadcast' # "over"
        /\ UNCHANGED <<life, taken>>
    BY <1>4, <2>1 DEF Unlock, Waits, listenerVars
  <2>3. QED
    BY <2>2 DEF Offered
<1>5. QED
  BY <1>2, <1>3, <1>4

(* Coming and going concerns one listener, for the lock is free.           *)
LEMMA OfferedElsewhere ==
  ASSUME broadcast # "send", NEW l \in Listeners, NEW x,
         life \in [Listeners -> {"none", "open", "left", "ended"}],
         life' = [life EXCEPT ![l] = x], UNCHANGED <<broadcast, taken>>
  PROVE  \A k \in Listeners : k # l => Offered(k)' = Offered(k)
BY DEF Offered, Waits

LEMMA LogInit == Init => Abstract!ELInit
BY DEF Init, Abstract!ELInit, Offered

LEMMA LogStep == IInv /\ [Next]_serviceVars => [Abstract!ELNext]_(Abstract!logVars)
<1> DEFINE off == [l \in Listeners |-> Offered(l)]
           over == broadcast = "over"
           same == UNCHANGED <<log, over, life, off, got, unread>>
<1> SUFFICES ASSUME IInv, [Next]_serviceVars PROVE Abstract!ELNext \/ same
  BY DEF Abstract!logVars
<1>0. /\ log \in Seq(Entries) /\ Len(log) \in Nat /\ taken \in 0..Len(log)
      /\ life \in [Listeners -> {"none", "open", "left", "ended"}]
      /\ got \in [Listeners -> Seq(Nat)] /\ unread \in [Listeners -> 0..Buffer]
  BY EventAssumption DEF IInv, TypeOK
<1>1. ASSUME UNCHANGED <<log, broadcast, next, listeners, taken, life, got, unread>> PROVE same
  <2>1. off' = off
    BY <1>1, OfferedSame
  <2>2. QED
    BY <1>1, <2>1
<1>2. ASSUME NEW e \in Entries, log' = Append(log, e), ~inputClosed,
             UNCHANGED <<broadcast, next, listeners, taken, life, got, unread>>
      PROVE  Abstract!Accept
  <2>1. off' = off
    BY <1>2, OfferedSame
  <2>2. ~ over
    BY <1>2 DEF IInv, InOrder
  <2>3. QED
    BY <1>2, <2>1, <2>2 DEF Abstract!Accept
<1>3. ASSUME NEW p \in Senders, Start(p) \/ Prepare(p) \/ PublishTimesOut(p) \/ SendOnClosed(p)
             \/ Finish(p)
      PROVE  same
  BY <1>1, <1>3 DEF Start, Prepare, PublishTimesOut, SendOnClosed, Finish, inputVars,
     listenerVars, broadcastVars
<1>4. ASSUME NEW p \in Senders, Send(p) PROVE Abstract!Accept
  <2>1. [from |-> p, progress |-> pending[p]] \in Entries
    BY DEF IInv, TypeOK, Entries
  <2>2. QED
    BY <1>2, <1>4, <2>1 DEF Send, listenerVars, broadcastVars
<1>5. ASSUME Report PROVE Abstract!Accept \/ same
  <2>1. [from |-> Reporter, progress |-> TRUE] \in Entries
    BY DEF Entries
  <2>2. UNCHANGED <<broadcast, next, listeners, taken, life, got, unread>>
    BY <1>5 DEF Report, listenerVars, broadcastVars
  <2>3. CASE InputRoom /\ ~inputClosed
    BY <1>2, <1>5, <2>1, <2>2, <2>3 DEF Report
  <2>4. CASE ~(InputRoom /\ ~inputClosed)
    BY <1>1, <1>5, <2>2, <2>4 DEF Report
  <2>5. QED
    BY <2>3, <2>4
<1>6. ASSUME ReporterStops \/ BeginShutdown \/ PoolStopped \/ CloseInput \/ ShutdownDone
      PROVE  same
  BY <1>1, <1>6 DEF ReporterStops, BeginShutdown, PoolStopped, CloseInput, ShutdownDone,
     Proceed, inputVars, listenerVars, broadcastVars
<1>7. ASSUME Receive \/ Lock \/ Unlock PROVE same
  <2>1. off' = off
    BY <1>7, OfferedStays
  <2>2. QED
    BY <1>7, <2>1 DEF Receive, Lock, Unlock, inputVars, listenerVars
<1>8. ASSUME NEW l \in Listeners, Deliver(l) PROVE Abstract!Hand(l)
  <2>1. /\ next' = next + 1 /\ UNCHANGED <<log, life, broadcast, listeners, taken>>
        /\ Serving(l)
    BY <1>8 DEF Deliver, inputVars
  <2>2. /\ life[l] = "open" /\ off[l] = taken - 1 /\ taken > 0
        /\ off' = [off EXCEPT ![l] = off[l] + 1]
    <3>1. /\ life[l] = "open" /\ Offered(l) = taken - 1 /\ Offered(l)' = taken
          /\ \A k : k # l => Offered(k)' = Offered(k)
      BY <2>1, ServedOnce
    <3>2. taken > 0 /\ taken - 1 + 1 = taken
      BY <1>0, <2>1 DEF IInv, InOrder, Serving
    <3>3. off[l] = taken - 1 /\ off[l] + 1 = taken
      BY <3>1, <3>2
    <3>4. off' = [off EXCEPT ![l] = taken]
      BY <3>1
    <3>5. QED
      BY <3>1, <3>2, <3>3, <3>4
  <2>3. /\ unread[l] < Buffer
        /\ got' = [got EXCEPT ![l] = Append(got[l], taken)]
        /\ unread' = [unread EXCEPT ![l] = unread[l] + 1]
    BY <1>8 DEF Deliver
  <2> HIDE DEF off
  <2>4. off[l] + 1 = taken /\ off[l] < Len(log)
    BY <1>0, <2>2
  <2>5. QED
    BY <2>1, <2>2, <2>3, <2>4 DEF Abstract!Hand, off
<1>9. ASSUME NEW l \in Listeners, DropProgress(l) \/ DropCritical(l) PROVE Abstract!Miss(l)
  <2>1. /\ next' = next + 1 /\ UNCHANGED <<log, life, broadcast, listeners, taken, got, unread>>
        /\ Serving(l) /\ unread[l] = Buffer
    BY <1>9 DEF DropProgress, DropCritical, inputVars, listenerVars
  <2>2. /\ life[l] = "open" /\ off[l] = taken - 1 /\ taken > 0
        /\ off' = [off EXCEPT ![l] = off[l] + 1]
    <3>1. /\ life[l] = "open" /\ Offered(l) = taken - 1 /\ Offered(l)' = taken
          /\ \A k : k # l => Offered(k)' = Offered(k)
      BY <2>1, ServedOnce
    <3>2. taken > 0 /\ taken - 1 + 1 = taken
      BY <1>0, <2>1 DEF IInv, InOrder, Serving
    <3>3. off[l] = taken - 1 /\ off[l] + 1 = taken
      BY <3>1, <3>2
    <3>4. off' = [off EXCEPT ![l] = taken]
      BY <3>1
    <3>5. QED
      BY <3>1, <3>2, <3>3, <3>4
  <2> HIDE DEF off
  <2>3. off[l] < Len(log)
    BY <1>0, <2>2
  <2>4. QED
    BY <2>1, <2>2, <2>3 DEF Abstract!Miss, off
<1>10. ASSUME EndStreams PROVE Abstract!End
  <2>1. /\ broadcast = "wait" /\ broadcast' = "over" /\ taken = Len(log)
        /\ listeners' = <<>> /\ UNCHANGED <<log, got, unread, taken>>
        /\ life' = [l \in Listeners |->
                      IF l \in {listeners[i] : i \in DOMAIN listeners} THEN "ended" ELSE life[l]]
    BY <1>10 DEF EndStreams, inputVars
  <2>2. \A l \in Listeners : life[l] = "open" => off[l] = Len(log)
    BY <2>1 DEF Offered, Waits
  <2>3. off' = [l \in Listeners |-> 0]
    BY <2>1 DEF Offered
  <2>4. \A l \in Listeners : life[l] = "open" <=> l \in {listeners[i] : i \in DOMAIN listeners}
    <3>1. DOMAIN listeners = 1..Len(listeners)
      BY DEF IInv, TypeOK
    <3>2. \A l : l \in {listeners[i] : i \in DOMAIN listeners}
                   <=> \E i \in 1..Len(listeners) : listeners[i] = l
      BY <3>1
    <3>3. QED
      BY <3>2, Zenon DEF IInv, ListIsExact
  <2>5. life' = [l \in Listeners |-> IF life[l] = "open" THEN "ended" ELSE life[l]]
    BY <2>1, <2>4
  <2>6. QED
    BY <2>1, <2>2, <2>3, <2>5 DEF Abstract!End
<1>11. ASSUME NEW l \in Listeners, StreamEvents(l) PROVE Abstract!Join(l)
  <2>1. /\ life[l] = "none" /\ broadcast # "send" /\ life' = [life EXCEPT ![l] = "open"]
        /\ UNCHANGED <<log, broadcast, taken, got, unread>>
    BY <1>11 DEF StreamEvents, LockFree, inputVars, broadcastVars
  <2>2. \A k \in Listeners : k # l => Offered(k)' = Offered(k)
    BY <1>0, <2>1, OfferedElsewhere
  <2>3. Offered(l)' \in 0..Len(log)
    <3>1. broadcast = "locking" => taken > 0
      BY DEF IInv, InOrder
    <3>2. QED
      BY <1>0, <2>1, <3>1 DEF Offered, Waits
  <2>4. off' = [off EXCEPT ![l] = Offered(l)']
    BY <2>2
  <2>5. QED
    BY <2>1, <2>3, <2>4 DEF Abstract!Join
<1>12. ASSUME NEW l \in Listeners, Read(l) PROVE Abstract!Take(l)
  <2>1. off' = off
    BY <1>12, OfferedSame DEF Read, broadcastVars
  <2>2. QED
    BY <1>12, <2>1 DEF Read, Abstract!Take, inputVars, broadcastVars
<1>13. ASSUME NEW l \in Listeners, CleanUp(l) PROVE Abstract!Leave(l)
  <2>1. life[l] = "open"
    BY <1>13 DEF CleanUp, IInv, ListIsExact, TypeOK
  <2>2. /\ broadcast # "send" /\ life' = [life EXCEPT ![l] = "left"]
        /\ UNCHANGED <<log, broadcast, taken, got, unread>>
    BY <1>13 DEF CleanUp, LockFree, inputVars, broadcastVars
  <2>3. \A k \in Listeners : k # l => Offered(k)' = Offered(k)
    BY <1>0, <2>2, OfferedElsewhere
  <2>4. Offered(l)' = 0
    BY <1>0, <2>2 DEF Offered
  <2>5. off' = [off EXCEPT ![l] = 0]
    BY <2>3, <2>4
  <2>6. QED
    BY <2>1, <2>2, <2>5 DEF Abstract!Leave
<1>14. CASE UNCHANGED serviceVars
  BY <1>1, <1>14 DEF serviceVars
<1>15. CASE Next
  BY <1>3, <1>4, <1>5, <1>6, <1>7, <1>8, <1>9, <1>10, <1>11, <1>12, <1>13, <1>15
     DEF Next, Broadcaster, Abstract!ELNext
<1>16. QED
  BY <1>14, <1>15

(* Every subscriber sees the events in the order they were accepted, each  *)
(* at most once, misses one only behind a full buffer, and is ended by the *)
(* service only after it has been offered all of them.                     *)
THEOREM EventsArriveInOrder == Spec => ImplementsEventLog
BY LogInit, LogStep, EventsAlways, PTL DEF Spec, ImplementsEventLog, Abstract!ELSpec
=============================================================================
