------------------------------- MODULE EventLog -------------------------------
(***************************************************************************)
(* What the event stream of src/internal/core/local_service.go promises to *)
(* a subscriber: the events in the order they were accepted, each at most  *)
(* once; one is missed only while the subscriber has a full buffer of      *)
(* events it did not read; and when the service ends the stream, it has    *)
(* been offered every event there was.  EventService does it with          *)
(* channels, a lock and a broadcaster.                                     *)
(***************************************************************************)
EXTENDS Naturals, Sequences

CONSTANTS Readers,  \* subscribers: event worker, user interface, SSE clients
          Entries,  \* what may be published
          Buffer    \* events a subscriber may leave unread

VARIABLES log,     \* the events accepted, in order
          ended,   \* the stream is over
          life,    \* per reader: "none", "open", "left", "ended"
          offered, \* how far down the log each reader has been served
          got,     \* the positions of the events each reader was handed
          unread   \* how many of those it has not taken yet

logVars == <<log, ended, life, offered, got, unread>>

ELInit ==
  /\ log = <<>>
  /\ ended = FALSE
  /\ life = [r \in Readers |-> "none"]
  /\ offered = [r \in Readers |-> 0]
  /\ got = [r \in Readers |-> <<>>]
  /\ unread = [r \in Readers |-> 0]

Accept ==
  /\ ~ended
  /\ \E e \in Entries : log' = Append(log, e)
  /\ UNCHANGED <<ended, life, offered, got, unread>>

(* A reader starts somewhere in the log; offered counts while it is open.  *)
Join(r) ==
  /\ life[r] = "none"
  /\ life' = [life EXCEPT ![r] = "open"]
  /\ \E n \in 0..Len(log) : offered' = [offered EXCEPT ![r] = n]
  /\ UNCHANGED <<log, ended, got, unread>>

Hand(r) ==
  /\ life[r] = "open"
  /\ offered[r] < Len(log)
  /\ unread[r] < Buffer
  /\ offered' = [offered EXCEPT ![r] = @ + 1]
  /\ got' = [got EXCEPT ![r] = Append(@, offered[r] + 1)]
  /\ unread' = [unread EXCEPT ![r] = @ + 1]
  /\ UNCHANGED <<log, ended, life>>

Miss(r) ==
  /\ life[r] = "open"
  /\ offered[r] < Len(log)
  /\ unread[r] = Buffer
  /\ offered' = [offered EXCEPT ![r] = @ + 1]
  /\ UNCHANGED <<log, ended, life, got, unread>>

Take(r) ==
  /\ unread[r] > 0
  /\ unread' = [unread EXCEPT ![r] = @ - 1]
  /\ UNCHANGED <<log, ended, life, offered, got>>

Leave(r) ==
  /\ life[r] = "open"
  /\ life' = [life EXCEPT ![r] = "left"]
  /\ offered' = [offered EXCEPT ![r] = 0]
  /\ UNCHANGED <<log, ended, got, unread>>

End ==
  /\ ~ended
  /\ \A r \in Readers : life[r] = "open" => offered[r] = Len(log)
  /\ ended' = TRUE
  /\ life' = [r \in Readers |-> IF life[r] = "open" THEN "ended" ELSE life[r]]
  /\ offered' = [r \in Readers |-> 0]
  /\ UNCHANGED <<log, got, unread>>

ELNext ==
  \/ Accept
  \/ End
  \/ \E r \in Readers : Join(r) \/ Hand(r) \/ Miss(r) \/ Take(r) \/ Leave(r)

ELSpec == ELInit /\ [][ELNext]_logVars
=============================================================================
