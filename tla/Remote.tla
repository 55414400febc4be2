------------------------------- MODULE Remote -------------------------------
(***************************************************************************)
(* A terminal program that is connected to a server elsewhere: the         *)
(* RemoteDownloadService of src/internal/core/remote_service.go, the HTTP  *)
(* handlers of src/cmd/http_api.go it talks to, and the connection, which  *)
(* may break at any time.  Events come over one long answer, are read into *)
(* a channel, and what does not fit into it is dropped; after a break the  *)
(* client connects again, and nothing is sent a second time.               *)
(*                                                                         *)
(* How the service hands an event to its listeners is EventService's, what *)
(* the interface does with it Dashboard's: here the list is the last       *)
(* status heard.                                                           *)
(***************************************************************************)
EXTENDS Integers, Sequences, FiniteSets

CONSTANTS Downloads,
          ChannelCap,  \* events the client's channel holds (100)
          ListenerCap, \* events a handler's listener holds (100)
          MaxChanges,  \* bound: changes of a download's status
          MaxBreaks,   \* bound: broken connections
          MaxCalls     \* bound: requests

ASSUME RemoteAssumption ==
  /\ IsFiniteSet(Downloads)
  /\ {ChannelCap, ListenerCap} \subseteq Nat \ {0}
  /\ {MaxChanges, MaxBreaks, MaxCalls} \subseteq Nat

VARIABLES
  status,    \* status[d]: at the server
  handler,   \* the handler of the connection the client reads: "none", "open"
  listener,  \* events its listener holds
  orphans,   \* handlers whose client has gone
  wire,      \* frames on their way
  loop,      \* the client's goroutine: "idle", "connect", "read", "backoff", "ended"
  channel,   \* its channel
  closed,    \* ... is closed
  pump,      \* the goroutine that passes events to the interface has ended
  shown,     \* shown[d]: in the interface
  listed,    \* the list was read
  leaving,   \* the program is being left: its contexts are cancelled
  missed,    \* downloads an event was lost of, which the list does not make up for
  call,      \* the request under way
  happened   \* how often the bounded things happened

server == <<status, handler, listener, orphans>>
client == <<loop, channel, closed, pump, leaving>>
remoteVars == <<server, wire, client, shown, listed, missed, call, happened>>

\* What downloads come to by themselves does not differ from these here.
Statuses == {"downloading", "paused", "removed"}
NoCall == [d |-> "none", s |-> "none"]
Happen(k) == happened' = [happened EXCEPT ![k] = @ + 1]

RemoteInit ==
  /\ status = [d \in Downloads |-> "paused"]
  /\ handler = "none" /\ listener = <<>> /\ orphans = 0
  /\ wire = <<>>
  /\ loop = "idle" /\ channel = <<>> /\ closed = FALSE /\ pump = "on"
  /\ shown = [d \in Downloads |-> "none"] /\ listed = FALSE
  /\ leaving = FALSE
  /\ missed = {}
  /\ call = NoCall
  /\ happened = [changes |-> 0, breaks |-> 0, calls |-> 0]

-----------------------------------------------------------------------------
(* The server.                                                             *)

(* An event of the service: EncodeSSEMessages has a frame for every kind.  *)
Publish(d, s) ==
  IF handler = "open" /\ Len(listener) < ListenerCap
  THEN listener' = Append(listener, [d |-> d, s |-> s]) /\ UNCHANGED missed
  ELSE missed' = missed \cup {d} /\ UNCHANGED listener

Changes(d, s) ==
  /\ status[d] # s
  /\ status' = [status EXCEPT ![d] = s]
  /\ Publish(d, s)

Change(d) ==
  /\ happened.changes < MaxChanges
  /\ Happen("changes")
  /\ \E s \in Statuses : Changes(d, s)
  /\ UNCHANGED <<handler, orphans, wire, client, shown, listed, call>>

(* eventsHandler: an event goes out, ...                                   *)
EventsHandler ==
  /\ handler = "open" /\ listener # <<>>
  /\ wire' = Append(wire, Head(listener))
  /\ listener' = Tail(listener)
  /\ UNCHANGED <<status, handler, orphans, client, shown, listed, missed, call, happened>>

(* ... and it returns when its client has gone.                            *)
HandlerReturns ==
  /\ orphans > 0
  /\ orphans' = orphans - 1
  /\ UNCHANGED <<status, handler, listener, wire, client, shown, listed, missed, call, happened>>

-----------------------------------------------------------------------------
(* The client's stream.                                                    *)

(* connectAndRunTUI: StreamEvents, whose goroutine is started, ...         *)
StreamEvents ==
  /\ loop = "idle"
  /\ loop' = "connect"
  /\ UNCHANGED <<server, wire, channel, closed, pump, shown, listed, leaving, missed, call, happened>>

(* ... and then the list, which older events may yet overwrite.            *)
Heard(q) == {q[k].d : k \in DOMAIN q}
UnderWay == Heard(channel) \cup Heard(wire) \cup Heard(listener)
List ==
  /\ loop # "idle" /\ ~listed /\ ~leaving
  /\ listed' = TRUE
  /\ shown' = status
  /\ missed' = missed \cap UnderWay
  /\ UNCHANGED <<server, wire, client, call, happened>>

(* connectSSE: the request for the stream is answered, ...                 *)
ConnectSSE ==
  /\ loop = "connect" /\ ~leaving
  /\ loop' = "read"
  /\ handler' = "open" /\ listener' = <<>>
  /\ UNCHANGED <<status, orphans, wire, channel, closed, pump, shown, listed, leaving, missed, call, happened>>

(* ... or fails.                                                           *)
ConnectFails ==
  /\ loop = "connect" /\ ~leaving
  /\ happened.breaks < MaxBreaks
  /\ Happen("breaks")
  /\ loop' = "backoff"
  /\ UNCHANGED <<server, wire, channel, closed, pump, shown, listed, leaving, missed, call>>

\* Mutant: removals have no case.
DecodesButRemovals(f) == f.s # "removed"

(* DecodeSSEMessage has a case for each kind of frame that is sent.        *)
Decodes(f) == f.s \in Statuses

(* A frame is read, decoded, and put into the channel if it fits; one of   *)
(* a kind that is not known is skipped.                                    *)
ReadFrame ==
  /\ loop = "read" /\ wire # <<>>
  /\ wire' = Tail(wire)
  /\ LET f == Head(wire) IN
       IF Len(channel) < ChannelCap
       THEN channel' = (IF Decodes(f) THEN Append(channel, f) ELSE channel) /\ UNCHANGED missed
       ELSE missed' = (IF Decodes(f) THEN missed \cup {f.d} ELSE missed) /\ UNCHANGED channel
  /\ UNCHANGED <<server, loop, closed, pump, shown, listed, leaving, call, happened>>

Disconnected ==
  /\ handler' = "none" /\ listener' = <<>> /\ wire' = <<>>
  /\ orphans' = orphans + 1
  /\ missed' = missed \cup Heard(wire) \cup Heard(listener)

(* The connection breaks; the handler does not notice yet.                 *)
Break ==
  /\ loop = "read"
  /\ happened.breaks < MaxBreaks
  /\ Happen("breaks")
  /\ Disconnected
  /\ loop' = "backoff"
  /\ UNCHANGED <<status, channel, closed, pump, shown, listed, leaving, call>>

(* streamWithReconnect, when the wait is over.                             *)
Reconnect ==
  /\ loop = "backoff" /\ ~leaving
  /\ loop' = "connect"
  /\ UNCHANGED <<server, wire, channel, closed, pump, shown, listed, leaving, missed, call, happened>>

\* Mutant: nobody ends a stream that waits for its next try.
StreamEndsUnlessWaiting ==
  /\ loop \in {"connect", "read"} /\ leaving
  /\ loop' = "ended" /\ closed' = TRUE
  /\ IF loop = "read" THEN Disconnected ELSE UNCHANGED <<handler, listener, wire, orphans, missed>>
  /\ UNCHANGED <<status, channel, pump, shown, listed, leaving, call, happened>>

(* Its context is cancelled, by the caller or by Shutdown: the read, the   *)
(* connection or the wait is given up, and the channel closed.             *)
StreamEnds ==
  /\ loop \in {"connect", "read", "backoff"} /\ leaving
  /\ loop' = "ended" /\ closed' = TRUE
  /\ IF loop = "read" THEN Disconnected ELSE UNCHANGED <<handler, listener, wire, orphans, missed>>
  /\ UNCHANGED <<status, channel, pump, shown, listed, leaving, call, happened>>

(* The goroutine between the channel and the interface.                    *)
Receive ==
  /\ listed /\ pump = "on" /\ channel # <<>>
  /\ shown' = [shown EXCEPT ![Head(channel).d] = Head(channel).s]
  /\ channel' = Tail(channel)
  /\ UNCHANGED <<server, wire, loop, closed, pump, listed, leaving, missed, call, happened>>

PumpEnds ==
  /\ pump = "on" /\ channel = <<>> /\ closed
  /\ pump' = "off"
  /\ UNCHANGED <<server, wire, loop, channel, closed, shown, listed, leaving, missed, call, happened>>

(* The program is left; what was not shown is not shown any more.          *)
LeaveProgram ==
  /\ listed /\ ~leaving
  /\ leaving' = TRUE
  /\ UNCHANGED <<server, wire, loop, channel, closed, pump, shown, listed, missed, call, happened>>

-----------------------------------------------------------------------------
(* Requests: to add or resume, pause or delete, one at a time.             *)
Wishes == {"downloading", "paused", "removed"}

DoRequest(d) ==
  /\ listed /\ ~leaving /\ call = NoCall
  /\ happened.calls < MaxCalls
  /\ Happen("calls")
  /\ \E s \in Wishes : call' = [d |-> d, s |-> s]
  /\ UNCHANGED <<server, wire, client, shown, listed, missed>>

(* The handler calls the service, which does it or answers with an error.  *)
HandleRequest ==
  /\ call # NoCall
  /\ call' = NoCall
  /\ Changes(call.d, call.s) \/ UNCHANGED <<status, listener, missed>>
  /\ UNCHANGED <<handler, orphans, wire, client, shown, listed, happened>>

(* The connection breaks before the request is through, or the time is up; *)
(* nobody repeats it.                                                      *)
RequestBreaks ==
  /\ call # NoCall
  /\ happened.breaks < MaxBreaks
  /\ Happen("breaks")
  /\ call' = NoCall
  /\ UNCHANGED <<server, wire, client, shown, listed, missed>>

RemoteNext ==
  \/ \E d \in Downloads : Change(d) \/ DoRequest(d)
  \/ EventsHandler \/ HandlerReturns
  \/ StreamEvents \/ List \/ ConnectSSE \/ ConnectFails \/ ReadFrame \/ Break \/ Reconnect
  \/ StreamEnds \/ Receive \/ PumpEnds \/ LeaveProgram
  \/ HandleRequest \/ RequestBreaks

RemoteFairness ==
  /\ WF_remoteVars(StreamEnds) /\ WF_remoteVars(Receive) /\ WF_remoteVars(PumpEnds)
  /\ WF_remoteVars(HandlerReturns)

RemoteSpec == RemoteInit /\ [][RemoteNext]_remoteVars /\ RemoteFairness

-----------------------------------------------------------------------------
(* When nothing is under way, what is shown of a download is what the      *)
(* server has, unless one of its events was dropped, or sent while no      *)
(* connection was open: events that are older than the list, or than a     *)
(* break, do not outlive newer ones (remote_service.go:267-293, 371-382).  *)
QuietIsCurrent ==
  listed /\ listener = <<>> /\ wire = <<>> /\ channel = <<>> =>
    \A d \in Downloads \ missed : shown[d] = status[d]

(* When the program is left, in whatever state its stream is, the stream's *)
(* goroutines end, and so do, at the server, the handlers it leaves behind *)
(* (remote_service.go:248-310, http_api.go:212-277).                       *)
LeavingEnds == leaving ~> (loop = "ended" /\ pump = "off" /\ orphans = 0)
=============================================================================
