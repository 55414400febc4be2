---------------------------- MODULE ExitWhenDone ----------------------------
(***************************************************************************)
(* `--exit-when-done` of src/cmd: a watcher adds up, from three counters   *)
(* that others keep, whether there is still something to download.         *)
(* pendingEnqueue is 1 while the URLs of the command line are enqueued;    *)
(* the server's activeDownloads goes up when an enqueue has returned, and  *)
(* down when a listener hears that the download has ended; the pool counts *)
(* what it has.  The terminal program does not look at activeDownloads.    *)
(***************************************************************************)
EXTENDS Integers, Sequences, FiniteSets

CONSTANTS Named,    \* downloads of the command line
          Stored,   \* downloads the database has as paused
          Asked,    \* downloads other programs may ask for
          MaxPauses \* bound

ASSUME ExitAssumption ==
  /\ IsFiniteSet(Named \cup Stored \cup Asked)
  /\ MaxPauses \in Nat

VARIABLES
  ui,              \* "server", or "tui"
  place,           \* place[d]: "named", "stored", "asked", "pool", "paused", "ended", "refused"
  uncounted,       \* downloads whose enqueue has returned, activeDownloads not yet counted up
  pendingEnqueue, activeDownloads,
  consumer,        \* the listener is registered
  feed,            \* what it has yet to hear
  watch,           \* what the watcher looks at next: "wait", "pending", "active", "pool", "fired"
  spoiled          \* something happened after which activeDownloads is wrong for good

exitVars == <<ui, place, uncounted, pendingEnqueue, activeDownloads, consumer, feed, watch, spoiled>>

AllDownloads == Named \cup Stored \cup Asked
At0(d) == IF d \in Named THEN "named" ELSE IF d \in Stored THEN "stored" ELSE "asked"

ExitInit ==
  /\ ui \in {"server", "tui"}
  /\ place = [d \in AllDownloads |-> At0(d)]
  /\ uncounted = {}
  /\ pendingEnqueue = 1 /\ activeDownloads = 0
  /\ consumer = FALSE /\ feed = <<>>
  /\ watch = "wait"
  /\ spoiled = FALSE

Alive == watch # "fired"
Hears(d) == feed' = IF consumer THEN Append(feed, d) ELSE feed

(* StartHeadlessConsumer registers its listener in a goroutine.            *)
StartHeadlessConsumer ==
  /\ Alive /\ ui = "server" /\ ~consumer
  /\ consumer' = TRUE
  /\ UNCHANGED <<ui, place, uncounted, pendingEnqueue, activeDownloads, feed, watch, spoiled>>

(* Enqueue has returned; the counter follows.                              *)
Accepted(d) ==
  /\ place' = [place EXCEPT ![d] = "pool"]
  /\ uncounted' = uncounted \cup {d}
  /\ UNCHANGED <<feed, spoiled>>

(* recordPreflightDownloadError tells of an error that was never counted.  *)
Refused(d) ==
  /\ place' = [place EXCEPT ![d] = "refused"]
  /\ Hears(d)
  /\ spoiled' = (spoiled \/ consumer)
  /\ UNCHANGED uncounted

(* processDownloads, one URL after the other.                              *)
ProcessDownloads ==
  /\ Alive /\ uncounted \cap Named = {}
  /\ \E d \in Named : place[d] = "named" /\ (Accepted(d) \/ Refused(d))
  /\ UNCHANGED <<ui, pendingEnqueue, activeDownloads, consumer, watch>>

\* Mutant: the count goes down as soon as there is nothing left to take up.
QueueEndsEarly ==
  /\ Alive /\ pendingEnqueue > 0
  /\ Cardinality({d \in Named : place[d] = "named"}) < 2
  /\ pendingEnqueue' = pendingEnqueue - 1
  /\ UNCHANGED <<ui, place, uncounted, activeDownloads, consumer, feed, watch, spoiled>>

QueueEnds ==
  /\ Alive /\ pendingEnqueue > 0
  /\ \A d \in Named : place[d] # "named"
  /\ uncounted \cap Named = {}
  /\ pendingEnqueue' = pendingEnqueue - 1
  /\ UNCHANGED <<ui, place, uncounted, activeDownloads, consumer, feed, watch, spoiled>>

(* handleDownload                                                          *)
HandleDownload(d) ==
  /\ Alive /\ place[d] = "asked"
  /\ Accepted(d) \/ Refused(d)
  /\ UNCHANGED <<ui, pendingEnqueue, activeDownloads, consumer, watch>>

(* resumePausedDownloads, before the watcher starts; the terminal program  *)
(* resumes from its own loop and does not count.                           *)
ResumePausedDownloads(d) ==
  /\ Alive /\ place[d] = "stored"
  /\ ui = "server" => watch = "wait" /\ uncounted \cap Stored = {}
  /\ place' = [place EXCEPT ![d] = "pool"]
  /\ uncounted' = IF ui = "server" THEN uncounted \cup {d} ELSE uncounted
  /\ UNCHANGED <<ui, pendingEnqueue, activeDownloads, consumer, feed, watch, spoiled>>

CountActive(d) ==
  /\ Alive /\ d \in uncounted
  /\ uncounted' = uncounted \ {d}
  /\ activeDownloads' = activeDownloads + 1
  /\ UNCHANGED <<ui, place, pendingEnqueue, consumer, feed, watch, spoiled>>

(* A download completes or fails.  Who registers later does not hear it.   *)
PoolEnds(d) ==
  /\ Alive /\ place[d] = "pool"
  /\ place' = [place EXCEPT ![d] = "ended"]
  /\ Hears(d)
  /\ spoiled' = (spoiled \/ (ui = "server" /\ ~consumer))
  /\ UNCHANGED <<ui, uncounted, pendingEnqueue, activeDownloads, consumer, watch>>

(* A pause or a removal is not counted.                                    *)
PoolPauses(d) ==
  /\ Alive /\ place[d] = "pool"
  /\ Cardinality({x \in AllDownloads : place[x] = "paused"}) < MaxPauses
  /\ place' = [place EXCEPT ![d] = "paused"]
  /\ spoiled' = TRUE
  /\ UNCHANGED <<ui, uncounted, pendingEnqueue, activeDownloads, consumer, feed, watch>>

\* Mutant: the counter is kept from going below zero.
ConsumeClamped ==
  /\ Alive /\ feed # <<>>
  /\ feed' = Tail(feed)
  /\ activeDownloads' = IF activeDownloads > 0 THEN activeDownloads - 1 ELSE 0
  /\ UNCHANGED <<ui, place, uncounted, pendingEnqueue, consumer, watch, spoiled>>

Consume ==
  /\ Alive /\ feed # <<>>
  /\ feed' = Tail(feed)
  /\ activeDownloads' = activeDownloads - 1
  /\ UNCHANGED <<ui, place, uncounted, pendingEnqueue, consumer, watch, spoiled>>

-----------------------------------------------------------------------------
(* The watcher's ticks, and its three looks.                               *)
Look(from, good, to) ==
  /\ watch = from
  /\ watch' = IF good THEN to ELSE "pending"
  /\ UNCHANGED <<ui, place, uncounted, pendingEnqueue, activeDownloads, consumer, feed, spoiled>>

StartWatch ==
  /\ ui = "server" =>
       (\A d \in Stored : place[d] # "stored") /\ uncounted \cap Stored = {}
  /\ Look("wait", TRUE, "pending")
LookPending == Look("pending", pendingEnqueue = 0, IF ui = "server" THEN "active" ELSE "pool")
LookActive == Look("active", activeDownloads = 0, "pool")
LookPool == Look("pool", \A d \in AllDownloads : place[d] # "pool", "fired")

ExitNext ==
  \/ StartHeadlessConsumer \/ ProcessDownloads \/ QueueEnds
  \/ \E d \in AllDownloads :
       \/ HandleDownload(d) \/ ResumePausedDownloads(d) \/ CountActive(d)
       \/ PoolEnds(d) \/ PoolPauses(d)
  \/ Consume
  \/ StartWatch \/ LookPending \/ LookActive \/ LookPool

(* Whoever enqueues, downloads, listens and watches gets on with it; other *)
(* programs owe no request and no pause.                                   *)
ExitFairness ==
  /\ WF_exitVars(ProcessDownloads) /\ WF_exitVars(QueueEnds)
  /\ WF_exitVars(StartHeadlessConsumer) /\ WF_exitVars(Consume)
  /\ \A d \in AllDownloads :
       WF_exitVars(ResumePausedDownloads(d)) /\ WF_exitVars(CountActive(d)) /\ WF_exitVars(PoolEnds(d))
  /\ WF_exitVars(StartWatch) /\ WF_exitVars(LookPending)
  /\ WF_exitVars(LookActive) /\ WF_exitVars(LookPool)

ExitSpec == ExitInit /\ [][ExitNext]_exitVars /\ ExitFairness

-----------------------------------------------------------------------------
(* Nothing of the command line, and nothing a server has resumed, is still *)
(* to be taken up or downloaded when the program decides to exit, although *)
(* it looks at the counters one after the other (server.go:135-153,        *)
(* root.go:523-538).                                                       *)
NothingIsCutOff ==
  [][watch # "fired" /\ watch' = "fired" =>
       \A d \in Named \cup (IF ui = "server" THEN Stored ELSE {}) :
         place[d] \notin {"named", "stored", "pool"}]_exitVars

(* It does exit, unless a download was refused or paused, or has ended     *)
(* before the listener was there (root_headless.go:14-48).                 *)
Exits == <>(watch = "fired" \/ spoiled)
=============================================================================
