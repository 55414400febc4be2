----------------------------- MODULE EventService -----------------------------
(***************************************************************************)
(* The event stream of LocalDownloadService                                *)
(* (src/internal/core/local_service.go): workers, stream downloads and the *)
(* progress reporter put events into InputCh, a broadcaster copies each of *)
(* them to every listener's channel while it holds listenerMu, listeners   *)
(* come and go under the same lock, and Shutdown stops the pool, the       *)
(* reporter and the broadcaster one after the other.                       *)
(*                                                                         *)
(* A channel is its history: InputCh holds the events of log after the     *)
(* first taken, a listener's channel the last unread of those in got.      *)
(* A panic that nothing recovers ends the process.                         *)
(***************************************************************************)
EXTENDS Naturals, Sequences

CONSTANTS Listeners,  \* callers of StreamEvents
          Workers,    \* pool workers, which send through safeSendProgress
          Streams,    \* stream and yt-dlp downloads, which call Publish
          Reporter,   \* reportProgressLoop
          Service,    \* the broadcaster and the clean-ups, when they panic
          Nobody,
          MaxEvents,  \* bound: events of one worker or stream
          MaxBatches, \* bound: batches of the reporter
          InputCap,   \* capacity of InputCh (100 in the code)
          Buffer      \* capacity of a listener's channel (100 in the code)

Senders == Workers \cup Streams

ASSUME EventAssumption ==
  /\ MaxEvents \in Nat /\ MaxBatches \in Nat
  /\ InputCap \in Nat \ {0} /\ Buffer \in Nat \ {0}
  /\ Workers \cap Streams = {}
  /\ Reporter \notin Senders
  /\ Service \notin Senders \cup {Reporter}
  /\ Nobody \notin Senders \cup {Reporter, Service}

(* Progress may be lost, the rest is critical.                             *)
Entries == [from : Senders \cup {Reporter}, progress : BOOLEAN]

VARIABLES log,         \* every event InputCh accepted
          taken,       \* how many of them the broadcaster has received
          inputClosed, \* close(InputCh) has run
          listeners,   \* s.listeners
          life,        \* a listener's channel: "none", "open", "left" (closed
                       \* by its owner), "ended" (closed by the service)
          got,         \* positions in log of what went into the channel
          unread,      \* how many of them are still in it
          broadcast,   \* the broadcaster: "wait", "locking", "send", "over"
          next,        \* index of the listener it serves next
          sender,      \* a worker or stream: "idle", "working", "sending", "over"
          pending,     \* what a sender wants to send is progress
          sent,        \* events a sender has begun to send
          reporting,   \* reportProgressLoop runs
          batches,     \* batches the reporter has made
          shutdown,    \* "none", "pool", "cancelled", "closed", "done"
          panicked     \* whose panic ended the process

serviceVars == <<log, taken, inputClosed, listeners, life, got, unread,
                 broadcast, next, sender, pending, sent, reporting, batches,
                 shutdown, panicked>>
inputVars == <<log, inputClosed>>
listenerVars == <<listeners, life, got, unread>>
broadcastVars == <<taken, broadcast, next>>
senderVars == <<sender, pending, sent>>
reporterVars == <<reporting, batches>>

TypeOK ==
  /\ log \in Seq(Entries)
  /\ taken \in 0..Len(log)
  /\ Len(log) - taken <= InputCap
  /\ inputClosed \in BOOLEAN
  /\ listeners \in Seq(Listeners)
  /\ life \in [Listeners -> {"none", "open", "left", "ended"}]
  /\ got \in [Listeners -> Seq(Nat)]
  /\ unread \in [Listeners -> 0..Buffer]
  /\ \A l \in Listeners : unread[l] <= Len(got[l])
  /\ broadcast \in {"wait", "locking", "send", "over"}
  /\ next \in 1..(Len(listeners) + 1)
  /\ sender \in [Senders -> {"idle", "working", "sending", "over"}]
  /\ pending \in [Senders -> BOOLEAN]
  /\ sent \in [Senders -> 0..MaxEvents]
  /\ reporting \in BOOLEAN
  /\ batches \in 0..MaxBatches
  /\ shutdown \in {"none", "pool", "cancelled", "closed", "done"}
  /\ panicked \in Senders \cup {Reporter, Service, Nobody}

Init ==
  /\ log = <<>>
  /\ taken = 0
  /\ inputClosed = FALSE
  /\ listeners = <<>>
  /\ life = [l \in Listeners |-> "none"]
  /\ got = [l \in Listeners |-> <<>>]
  /\ unread = [l \in Listeners |-> 0]
  /\ broadcast = "wait"
  /\ next = 1
  /\ sender = [p \in Senders |-> "idle"]
  /\ pending = [p \in Senders |-> FALSE]
  /\ sent = [p \in Senders |-> 0]
  /\ reporting = TRUE
  /\ batches = 0
  /\ shutdown = "none"
  /\ panicked = Nobody

Running == panicked = Nobody
InputRoom == Len(log) - taken < InputCap

(* The broadcaster holds listenerMu while it serves a message.             *)
LockFree == broadcast # "send"
-----------------------------------------------------------------------------
(***************************************************************************)
(* Senders.  A worker that has its configuration runs whether or not the   *)
(* service is shutting down (pool.go has no check between the map and      *)
(* wg.Add); a stream download is known to no pool at all.                  *)
(***************************************************************************)
Start(p) ==
  /\ sender[p] = "idle"
  /\ sender' = [sender EXCEPT ![p] = "working"]
  /\ UNCHANGED <<inputVars, listenerVars, broadcastVars, pending, sent,
                 reporterVars, shutdown, panicked>>

(* A worker only sends state changes, a stream progress as well.           *)
Prepare(p) ==
  /\ sender[p] = "working"
  /\ sent[p] < MaxEvents
  /\ \E progress \in BOOLEAN :
       /\ progress => p \in Streams
       /\ pending' = [pending EXCEPT ![p] = progress]
  /\ sender' = [sender EXCEPT ![p] = "sending"]
  /\ sent' = [sent EXCEPT ![p] = @ + 1]
  /\ UNCHANGED <<inputVars, listenerVars, broadcastVars, reporterVars,
                 shutdown, panicked>>

Send(p) ==
  /\ sender[p] = "sending"
  /\ ~inputClosed
  /\ InputRoom
  /\ log' = Append(log, [from |-> p, progress |-> pending[p]])
  /\ sender' = [sender EXCEPT ![p] = "working"]
  /\ pending' = [pending EXCEPT ![p] = FALSE]
  /\ UNCHANGED <<inputClosed, listenerVars, broadcastVars, sent,
                 reporterVars, shutdown, panicked>>

(* Publish's second is over only while the channel stays full.             *)
PublishTimesOut(p) ==
  /\ p \in Streams
  /\ sender[p] = "sending"
  /\ ~inputClosed
  /\ ~InputRoom
  /\ sender' = [sender EXCEPT ![p] = "working"]
  /\ pending' = [pending EXCEPT ![p] = FALSE]
  /\ UNCHANGED <<inputVars, listenerVars, broadcastVars, sent,
                 reporterVars, shutdown, panicked>>

(* A send on the closed channel panics: safeSendProgress recovers, Publish *)
(* does not.                                                               *)
SendOnClosed(p) ==
  /\ sender[p] = "sending"
  /\ inputClosed
  /\ panicked' = IF p \in Workers THEN panicked ELSE p
  /\ sender' = [sender EXCEPT ![p] = "working"]
  /\ pending' = [pending EXCEPT ![p] = FALSE]
  /\ UNCHANGED <<inputVars, listenerVars, broadcastVars, sent,
                 reporterVars, shutdown>>

Finish(p) ==
  /\ sender[p] = "working"
  /\ sender' = [sender EXCEPT ![p] = "over"]
  /\ UNCHANGED <<inputVars, listenerVars, broadcastVars, pending, sent,
                 reporterVars, shutdown, panicked>>
-----------------------------------------------------------------------------
(***************************************************************************)
(* The progress reporter never blocks: a batch that finds InputCh full is  *)
(* dropped.  Its select may take a tick over the cancelled context.        *)
(***************************************************************************)
Report ==
  /\ reporting
  /\ batches < MaxBatches
  /\ batches' = batches + 1
  /\ panicked' = IF inputClosed THEN Reporter ELSE panicked
  /\ log' = IF InputRoom /\ ~inputClosed
              THEN Append(log, [from |-> Reporter, progress |-> TRUE])
              ELSE log
  /\ UNCHANGED <<inputClosed, listenerVars, broadcastVars, senderVars,
                 reporting, shutdown>>

ReporterStops ==
  /\ reporting
  /\ shutdown \notin {"none", "pool"}
  /\ reporting' = FALSE
  /\ UNCHANGED <<inputVars, listenerVars, broadcastVars, senderVars, batches,
                 shutdown, panicked>>
-----------------------------------------------------------------------------
(***************************************************************************)
(* broadcastLoop.  The message is received before the lock is taken; the   *)
(* lock is kept until every listener has been served.                      *)
(***************************************************************************)
Receive ==
  /\ broadcast = "wait"
  /\ taken < Len(log)
  /\ taken' = taken + 1
  /\ broadcast' = "locking"
  /\ UNCHANGED <<inputVars, listenerVars, next, senderVars, reporterVars,
                 shutdown, panicked>>

Lock ==
  /\ broadcast = "locking"
  /\ broadcast' = "send"
  /\ next' = 1
  /\ UNCHANGED <<inputVars, listenerVars, taken, senderVars, reporterVars,
                 shutdown, panicked>>

Serving(l) ==
  /\ broadcast = "send"
  /\ next <= Len(listeners)
  /\ l = listeners[next]

Deliver(l) ==
  /\ Serving(l)
  /\ unread[l] < Buffer
  /\ panicked' = IF life[l] # "open" THEN Service ELSE panicked
  /\ got' = [got EXCEPT ![l] = Append(@, taken)]
  /\ unread' = [unread EXCEPT ![l] = @ + 1]
  /\ next' = next + 1
  /\ UNCHANGED <<inputVars, listeners, life, taken, broadcast, senderVars,
                 reporterVars, shutdown>>

DropProgress(l) ==
  /\ Serving(l)
  /\ log[taken].progress
  /\ unread[l] = Buffer
  /\ next' = next + 1
  /\ UNCHANGED <<inputVars, listenerVars, taken, broadcast, senderVars,
                 reporterVars, shutdown, panicked>>

\* Mutant: a critical event waits for its listener.
DropNothing(l) == FALSE /\ UNCHANGED serviceVars

(* After a second in which the listener took nothing.                      *)
DropCritical(l) ==
  /\ Serving(l)
  /\ ~log[taken].progress
  /\ unread[l] = Buffer
  /\ next' = next + 1
  /\ UNCHANGED <<inputVars, listenerVars, taken, broadcast, senderVars,
                 reporterVars, shutdown, panicked>>

Unlock ==
  /\ broadcast = "send"
  /\ next > Len(listeners)
  /\ broadcast' = "wait"
  /\ next' = 1
  /\ UNCHANGED <<inputVars, listenerVars, taken, senderVars, reporterVars,
                 shutdown, panicked>>

\* Mutant: the broadcaster leaves what is still in the channel.
EndUndrained ==
  LET listening == {listeners[i] : i \in DOMAIN listeners} IN
  /\ broadcast = "wait"
  /\ inputClosed
  /\ life' = [l \in Listeners |-> IF l \in listening THEN "ended" ELSE life[l]]
  /\ listeners' = <<>>
  /\ broadcast' = "over"
  /\ UNCHANGED <<inputVars, got, unread, taken, next, senderVars,
                 reporterVars, shutdown, panicked>>

(* InputCh is closed and drained: every listener is closed.                *)
EndStreams ==
  LET listening == {listeners[i] : i \in DOMAIN listeners} IN
  /\ broadcast = "wait"
  /\ inputClosed
  /\ taken = Len(log)
  /\ panicked' = IF \A l \in listening : life[l] = "open" THEN panicked ELSE Service
  /\ life' = [l \in Listeners |-> IF l \in listening THEN "ended" ELSE life[l]]
  /\ listeners' = <<>>
  /\ broadcast' = "over"
  /\ UNCHANGED <<inputVars, got, unread, taken, next, senderVars,
                 reporterVars, shutdown>>

Broadcaster ==
  \/ Receive \/ Lock \/ Unlock \/ EndStreams
  \/ \E l \in Listeners : Deliver(l) \/ DropProgress(l) \/ DropCritical(l)
-----------------------------------------------------------------------------
(***************************************************************************)
(* Listeners.  StreamEvents and its clean-up, which runs once, on request  *)
(* or when the caller's context is done, want listenerMu.  Whoever comes   *)
(* after EndStreams is never served and never closed.                      *)
(***************************************************************************)
StreamEvents(l) ==
  /\ life[l] = "none"
  /\ LockFree
  /\ life' = [life EXCEPT ![l] = "open"]
  /\ listeners' = Append(listeners, l)
  /\ UNCHANGED <<inputVars, got, unread, broadcastVars, senderVars,
                 reporterVars, shutdown, panicked>>

Read(l) ==
  /\ unread[l] > 0
  /\ unread' = [unread EXCEPT ![l] = @ - 1]
  /\ UNCHANGED <<inputVars, listeners, life, got, broadcastVars, senderVars,
                 reporterVars, shutdown, panicked>>

(* append(s.listeners[:i], s.listeners[i+1:]...)                           *)
Cut(s, i) == [j \in 1..(Len(s) - 1) |-> IF j < i THEN s[j] ELSE s[j + 1]]

CleanUp(l) ==
  /\ LockFree
  /\ \E i \in DOMAIN listeners :
       /\ listeners[i] = l
       /\ listeners' = Cut(listeners, i)
  /\ panicked' = IF life[l] # "open" THEN Service ELSE panicked
  /\ life' = [life EXCEPT ![l] = "left"]
  /\ UNCHANGED <<inputVars, got, unread, broadcastVars, senderVars,
                 reporterVars, shutdown>>
-----------------------------------------------------------------------------
(***************************************************************************)
(* Shutdown, once: pool, context, reporter, InputCh, broadcaster.          *)
(***************************************************************************)
Proceed(from, to) ==
  /\ shutdown = from
  /\ shutdown' = to
  /\ UNCHANGED <<listenerVars, broadcastVars, senderVars, reporterVars,
                 log, panicked>>

BeginShutdown ==
  /\ Proceed("none", "pool")
  /\ UNCHANGED inputClosed

(* Pool.GracefulShutdown has paused the workers and returns when those     *)
(* that count in wg are done.                                              *)
PoolStopped ==
  /\ \A p \in Workers : sender[p] \in {"idle", "over"}
  /\ Proceed("pool", "cancelled")
  /\ UNCHANGED inputClosed

\* Mutant: the channel is closed before the reporter has been joined.
CloseInputEarly ==
  /\ Proceed("cancelled", "closed")
  /\ inputClosed' = TRUE

CloseInput ==
  /\ ~reporting
  /\ Proceed("cancelled", "closed")
  /\ inputClosed' = TRUE

ShutdownDone ==
  /\ broadcast = "over"
  /\ Proceed("closed", "done")
  /\ UNCHANGED inputClosed
-----------------------------------------------------------------------------
Next ==
  /\ Running
  /\ \/ \E p \in Senders : \/ Start(p) \/ Prepare(p) \/ Send(p)
                           \/ PublishTimesOut(p) \/ SendOnClosed(p) \/ Finish(p)
     \/ Report \/ ReporterStops
     \/ Broadcaster
     \/ \E l \in Listeners : StreamEvents(l) \/ Read(l) \/ CleanUp(l)
     \/ BeginShutdown \/ PoolStopped \/ CloseInput \/ ShutdownDone

(* Goroutines that can run are run, and a paused worker comes to an end.   *)
(* Listeners and stream downloads owe nothing.                             *)
Fairness ==
  /\ WF_serviceVars(Running /\ Broadcaster)
  /\ \A p \in Workers :
       /\ WF_serviceVars(Running /\ (Send(p) \/ SendOnClosed(p)))
       /\ WF_serviceVars(Running /\ Finish(p))
  /\ WF_serviceVars(Running /\ ReporterStops)
  /\ WF_serviceVars(Running /\ (PoolStopped \/ CloseInput \/ ShutdownDone))

Spec == Init /\ [][Next]_serviceVars /\ Fairness
-----------------------------------------------------------------------------
(* No channel is closed twice, and nothing is sent on a closed one, by the *)
(* broadcaster, by a clean-up or by the reporter, however a subscriber's   *)
(* departure and the shutdown cross (local_service.go:163-168, 296-302,    *)
(* 342-349).  Only a Publish that comes after Shutdown can bring the       *)
(* process down.                                                           *)
OnlyPublishPanics == panicked \in Streams \cup {Nobody}

(* What that rests on, and is inductive with it: the list holds exactly    *)
(* the open channels, each once; InputCh is closed after the reporter has  *)
(* been joined; the broadcaster is over only when it is closed and empty.  *)
ListIsExact ==
  /\ \A l \in Listeners :
       life[l] = "open" <=> \E i \in 1..Len(listeners) : listeners[i] = l
  /\ \A i, j \in 1..Len(listeners) : listeners[i] = listeners[j] => i = j

InOrder ==
  /\ inputClosed => shutdown \in {"closed", "done"} /\ ~reporting
  /\ broadcast = "over" => inputClosed /\ taken = Len(log)
  /\ broadcast \in {"locking", "send"} => taken > 0
  /\ broadcast # "send" => next = 1

IInv == TypeOK /\ ListIsExact /\ InOrder /\ OnlyPublishPanics

(* The abstract log: a listener that is still to be served with the        *)
(* message the broadcaster has in hand has been offered one event less.    *)
Waits(l) ==
  \/ broadcast = "locking"
  \/ broadcast = "send" /\ \E i \in next..Len(listeners) : listeners[i] = l

Offered(l) ==
  IF life[l] # "open" \/ broadcast = "over" THEN 0
  ELSE IF Waits(l) THEN taken - 1 ELSE taken

(* The stream keeps the promise of EventLog: order, at most once, a loss   *)
(* only behind a full buffer, and the end only after everything accepted   *)
(* has been offered (the comments at local_service.go:154 and 308).        *)
Abstract == INSTANCE EventLog WITH
  Readers <- Listeners,
  ended <- broadcast = "over",
  offered <- [l \in Listeners |-> Offered(l)]

ImplementsEventLog == Abstract!ELSpec

(* Shutdown returns although a listener has stopped reading for good       *)
(* (local_service.go:154-160, 340-350), unless a Publish has ended the     *)
(* process.                                                                *)
ShutdownReturns == shutdown = "pool" ~> (shutdown = "done" \/ ~Running)
=============================================================================
