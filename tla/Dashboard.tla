------------------------------ MODULE Dashboard ------------------------------
(***************************************************************************)
(* The terminal user interface (src/internal/tui): RootModel, which one    *)
(* goroutine updates with one message after the other.  Messages come from *)
(* three sides that nothing orders: the event stream of the service, the   *)
(* results of commands (goroutines the interface starts, such as an        *)
(* enqueue), and keys.  A download the user asks for is shown at once,     *)
(* under a temporary id, before the service knows it.                      *)
(*                                                                         *)
(* A row keeps the flags that say what a download does; bytes, speeds, the *)
(* graph, the log, search and categories, which only hide rows, and all    *)
(* drawing are left out.  The service is cut down to what it does with a   *)
(* download and what it publishes about it; Lifecycle, WorkerPool and      *)
(* EventService have the rest.                                             *)
(***************************************************************************)
EXTENDS Integers, Sequences, FiniteSets, SequencesExt

CONSTANTS Downloads,
          Stored,     \* downloads the database has when the interface starts
          Slips,      \* which of KnownSlips may happen
          MaxStream,  \* bound: events under way
          MaxTurns    \* bound: calls to pause, resume or delete, and messages lost

(* What the code does not rule out, and which breaks what is stated below; *)
(* a run without them shows that nothing else does.                        *)
(*   "ghost"    a download is removed before the interface has learned its *)
(*              id: the result of the enqueue brings the row back          *)
(*   "slow"     the result of a resume at the start arrives after the      *)
(*              download was paused again                                  *)
(*   "waiting"  a download is paused that waits for a worker: the service  *)
(*              says it is paused, and starts it all the same              *)
(*   "revived"  a download that failed is resumed by another client        *)
(*   "overlap"  a request or an update notice arrives while the user is    *)
(*              asked about a download                                     *)
KnownSlips == {"ghost", "slow", "waiting", "revived", "overlap"}

ASSUME DashboardAssumption ==
  /\ IsFiniteSet(Downloads) /\ "none" \notin Downloads /\ Stored \subseteq Downloads
  /\ Slips \subseteq KnownSlips
  /\ MaxStream \in Nat \ {0} /\ MaxTurns \in Nat

VARIABLES
  rows,     \* m.downloads
  items,    \* the ids in m.list
  cursor,   \* the index of m.list, from 1
  tab,      \* m.activeTab
  pinned,   \* m.pinnedTab = m.activeTab
  dialog,   \* m.state
  origin,   \* m.filepickerOrigin
  asked,    \* m.pendingURL, while a dialog asks about it
  stream,   \* events on their way from the service
  results,  \* results of commands on their way
  svc,      \* what the service does with a download
  enq,      \* how far the enqueue of a download is, and the id it was shown under
  awaiting, \* history: what the user is asked about and has not answered
  lost,     \* history: downloads a picker has taken a message of
  turns     \* how many of MaxTurns there were

list == <<items, cursor, tab>>
dialogs == <<dialog, origin, asked, awaiting>>
service == <<svc, enq>>
counts == <<lost, turns>>
vars == <<rows, list, pinned, dialogs, stream, results, service, counts>>

None == <<"none", "none">>
Temp(d) == <<"temp", d>>
Real(d) == <<"real", d>>
Ids == {"temp", "real"} \X Downloads

-----------------------------------------------------------------------------
(* Rows.                                                                   *)
NewDownloadModel(id) ==
  [id |-> id, done |-> FALSE, err |-> FALSE, paused |-> FALSE, pausing |-> FALSE,
   resuming |-> FALSE, started |-> FALSE]

RowIds(rs) == {rs[i].id : i \in DOMAIN rs}
FindDownloadByID(rs, id) == rs[CHOOSE i \in DOMAIN rs : rs[i].id = id]
Put(rs, r) == [i \in DOMAIN rs |-> IF rs[i].id = r.id THEN r ELSE rs[i]]
RemoveDownloadByID(rs, id) ==
  IF id \in RowIds(rs) THEN RemoveAt(rs, CHOOSE i \in DOMAIN rs : rs[i].id = id) ELSE rs

TabOf(r) ==
  CASE r.done -> "done"
    [] ~r.done /\ ~r.paused /\ ~r.pausing /\ (r.resuming \/ r.started) -> "active"
    [] OTHER -> "queued"

(* The n-th of a set of indexes, and the ids of the rows tab t shows.      *)
Nth(is, n) == CHOOSE i \in is : Cardinality({j \in is : j <= i}) = n

Filtered(rs, t) ==
  LET shown == {i \in DOMAIN rs : TabOf(rs[i]) = t}
  IN  [n \in 1 .. Cardinality(shown) |-> rs[Nth(shown, n)].id]

Selected == IF cursor \in DOMAIN items THEN items[cursor] ELSE None

(* bubbles' SetItems keeps the index; where it puts one that is behind the *)
(* end is its own affair.                                                  *)
SetItems(is) ==
  /\ items' = is
  /\ cursor' \in IF cursor = 1 \/ cursor <= Len(is) THEN {cursor} ELSE 1 .. cursor

\* Mutant: the selection is not restored.
ShowUnrestored(rs, target, t) ==
  tab' = t /\ SetItems(Filtered(rs, t))

(* UpdateListItems, from its first SetItems on: the target is selected     *)
(* again, in the tab it has moved to, which opens unless one is pinned.    *)
Show(rs, target, t) ==
  LET here == Filtered(rs, t)
      home == IF ~Contains(here, target) /\ target \in RowIds(rs) /\ ~pinned
              THEN TabOf(FindDownloadByID(rs, target)) ELSE t
      is == Filtered(rs, home) IN
  /\ tab' = home
  /\ IF Contains(is, target)
     THEN items' = is /\ cursor' = CHOOSE i \in DOMAIN is : is[i] = target
     ELSE SetItems(is)

UpdateListItems(rs, forced) ==
  /\ rows' = rs
  /\ Show(rs, IF forced # None THEN forced ELSE Selected, tab)

-----------------------------------------------------------------------------
(* The service.                                                            *)
Event(k, d) == [kind |-> k, d |-> d]
Publish(e) == Len(stream) < MaxStream /\ stream' = Append(stream, e)
Turn == turns < MaxTurns /\ turns' = turns + 1
ServiceIs(d, s) == svc' = [svc EXCEPT ![d] = s]
EnqAt(d, l) == enq' = [enq EXCEPT ![d].at = l]
Known(d) == "ghost" \in Slips \/
  (enq[d].at \in {"stored", "done"} /\ ~\E r \in results : r.kind = "enqueueSuccess" /\ r.d = d)
Paused(d) == "slow" \in Slips \/ ~\E r \in results : r.kind = "resumeResult" /\ r.d = d
InterfaceKeeps == UNCHANGED <<rows, list, pinned, dialogs>>

(* Enqueue: it fails, or the pool takes the download and it is published.  *)
EnqueueFails(d) ==
  /\ enq[d].at = "called"
  /\ EnqAt(d, "failed")
  /\ results' = results \cup
       IF enq[d].via = "none" THEN {} ELSE {[kind |-> "enqueueError", d |-> d]}
  /\ InterfaceKeeps /\ UNCHANGED <<stream, svc, counts>>

Dispatch(d) ==
  /\ enq[d].at = "called"
  /\ EnqAt(d, "dispatched")
  /\ ServiceIs(d, "queued")
  /\ InterfaceKeeps /\ UNCHANGED <<stream, results, counts>>

(* The queued event, and the result, which may arrive before it.           *)
PublishQueued(d) ==
  /\ enq[d].at = "dispatched"
  /\ EnqAt(d, "done")
  /\ Publish(Event("queued", d))
  /\ results' = results \cup
       IF enq[d].via = "none" THEN {} ELSE {[kind |-> "enqueueSuccess", d |-> d]}
  /\ InterfaceKeeps /\ UNCHANGED <<svc, counts>>

(* Another client adds a download, or asks for one the user is to approve. *)
AddElsewhere(d) ==
  /\ enq[d].at = "no"
  /\ enq' = [enq EXCEPT ![d] = [at |-> "called", via |-> "none"]]
  /\ InterfaceKeeps /\ UNCHANGED <<stream, results, svc, counts>>

RequestElsewhere(d) ==
  /\ enq[d].at = "no"
  /\ EnqAt(d, "requested")
  /\ Publish(Event("request", d))
  /\ InterfaceKeeps /\ UNCHANGED <<results, svc, counts>>

(* A worker of the pool.                                                   *)
Works(d, from, to, e) ==
  /\ svc[d] = from
  /\ ServiceIs(d, to)
  /\ Publish(Event(e, d))
  /\ InterfaceKeeps /\ UNCHANGED <<results, enq, counts>>

Starts(d) == Works(d, "queued", "active", "started")
Progresses(d) == Works(d, "active", "active", "progress")
Completes(d) == \E s \in {"active", "pausing"} : Works(d, s, "complete", "complete")
Fails(d) == Works(d, "active", "error", "error")
Stops(d) == Works(d, "pausing", "paused", "paused")

(* Pause, Resume and Delete of the service: what the call answers, what it *)
(* changes and what it publishes.  A download that is not in the pool but  *)
(* in the database is said to be paused, whatever it is.  A download that  *)
(* is queued or runs is not resumed here: that is "reuse" of Lifecycle.    *)
PauseOf(d, answer) ==
  \/ /\ svc[d] \in {"active", "pausing"} /\ Paused(d)
     /\ answer = "nil" /\ ServiceIs(d, "pausing") /\ UNCHANGED stream
  \/ /\ svc[d] = "complete"
     /\ answer = "nil" /\ UNCHANGED <<svc, stream>>
  \/ /\ \/ svc[d] \in {"paused", "complete", "error"}
        \/ "waiting" \in Slips /\ svc[d] = "queued"
     /\ answer = "nil" /\ Publish(Event("paused", d)) /\ UNCHANGED svc
  \/ /\ svc[d] \in {"none", "removed"}
     /\ answer = "error" /\ UNCHANGED <<svc, stream>>

ResumeOf(d, answer) ==
  \/ /\ svc[d] = "paused" \/ (svc[d] = "error" /\ "revived" \in Slips)
     /\ answer = "nil" /\ ServiceIs(d, "queued") /\ Publish(Event("resumed", d))
  \/ /\ svc[d] \in {"pausing", "complete", "none", "removed"}
     /\ answer = "error" /\ UNCHANGED <<svc, stream>>

DeleteOf(d) ==
  IF svc[d] \in {"none", "removed"} THEN UNCHANGED <<svc, stream>>
  ELSE Known(d) /\ ServiceIs(d, "removed") /\ Publish(Event("removed", d))

CallElsewhere(d) ==
  /\ Turn
  /\ (\E answer \in {"nil", "error"} : PauseOf(d, answer) \/ ResumeOf(d, answer)) \/ DeleteOf(d)
  /\ InterfaceKeeps /\ UNCHANGED <<results, enq, lost>>

(* ResumeBatch, which Init starts.                                         *)
ResumeStored(d) ==
  /\ enq[d].at = "stored"
  /\ EnqAt(d, "done")
  /\ \/ svc[d] = "paused" /\ ServiceIs(d, "queued") /\ Publish(Event("resumed", d))
        /\ results' = results \cup {[kind |-> "resumeResult", d |-> d]}
     \/ svc[d] # "paused" /\ UNCHANGED <<svc, stream, results>>
  /\ InterfaceKeeps /\ UNCHANGED counts
-----------------------------------------------------------------------------
(* The start of the interface: a row for each download the database has,   *)
(* which service.List returns as paused, queued or completed.  To the      *)
(* service a queued one is like a paused one: it is not in the pool.       *)
ToResume(s, auto) == s = "queued" \/ (s = "paused" /\ auto)

Listed == [Stored -> {"paused", "queued", "complete"}]

StoredRow(d, s, auto) ==
  [NewDownloadModel(Real(d)) EXCEPT !.done = (s = "complete"), !.started = (s # "queued"),
     !.paused = (s # "complete"), !.resuming = ToResume(s, auto)]

Init ==
  /\ \E status \in Listed, auto \in BOOLEAN :
       /\ rows = LET ds == SetToSeq(Stored)
                 IN  [i \in DOMAIN ds |-> StoredRow(ds[i], status[ds[i]], auto)]
       /\ svc = [d \in Downloads |->
                  IF d \notin Stored THEN "none"
                  ELSE IF status[d] = "complete" THEN "complete" ELSE "paused"]
       /\ enq = [d \in Downloads |->
                  [at |-> IF d \notin Stored THEN "no"
                          ELSE IF ToResume(status[d], auto) THEN "stored" ELSE "done",
                   via |-> "none"]]
  /\ items = <<>> /\ cursor = 1 /\ tab = "queued"
  /\ pinned = FALSE
  /\ dialog = "dashboard" /\ origin = "none" /\ asked = "none" /\ awaiting = {}
  /\ stream = <<>> /\ results = {}
  /\ turns = 0 /\ lost = {}

-----------------------------------------------------------------------------
(* Messages from the service.                                              *)
Pickers == {"picker", "batchpicker"}

Receive(e) ==
  /\ stream # <<>> /\ e = Head(stream) /\ stream' = Tail(stream)
  /\ dialog \notin Pickers
  /\ UNCHANGED <<results, counts>>

Has(id) == id \in RowIds(rows)
Row(id) == FindDownloadByID(rows, id)
Keeps == UNCHANGED <<pinned, dialogs, service>>

Queued(d) ==
  /\ Receive(Event("queued", d))
  /\ IF Has(Real(d)) THEN UNCHANGED <<rows, list>>
     ELSE UpdateListItems(Append(rows, NewDownloadModel(Real(d))), Real(d))
  /\ Keeps

Started(d) ==
  /\ Receive(Event("started", d))
  /\ UpdateListItems(
       IF Has(Real(d))
       THEN Put(rows, [Row(Real(d)) EXCEPT !.paused = FALSE, !.pausing = FALSE, !.started = TRUE])
       ELSE Append(rows, [NewDownloadModel(Real(d)) EXCEPT !.started = TRUE]), Real(d))
  /\ Keeps

Progress(d) ==
  /\ Receive(Event("progress", d))
  /\ IF Has(Real(d)) /\ ~Row(Real(d)).done /\ ~Row(Real(d)).paused
     THEN \E r \in {Row(Real(d)).resuming, FALSE} :
            UpdateListItems(Put(rows, [Row(Real(d)) EXCEPT !.resuming = r]), None)
     ELSE UNCHANGED <<rows, list>>
  /\ Keeps

Complete(d) ==
  /\ Receive(Event("complete", d))
  /\ UpdateListItems(IF Has(Real(d)) THEN Put(rows, [Row(Real(d)) EXCEPT !.done = TRUE])
                     ELSE rows, None)
  /\ Keeps

Error(d) ==
  /\ Receive(Event("error", d))
  /\ UpdateListItems(
       IF Has(Real(d)) THEN Put(rows, [Row(Real(d)) EXCEPT !.err = TRUE, !.done = TRUE])
       ELSE Append(rows, [NewDownloadModel(Real(d)) EXCEPT !.err = TRUE, !.done = TRUE]), None)
  /\ Keeps

PausedOrResumed(d, kind) ==
  /\ Receive(Event(kind, d))
  /\ UpdateListItems(
       IF Has(Real(d))
       THEN Put(rows, [Row(Real(d)) EXCEPT !.paused = (kind = "paused"), !.pausing = FALSE,
                                           !.resuming = (kind = "resumed")])
       ELSE rows, None)
  /\ Keeps

Removed(d) ==
  /\ Receive(Event("removed", d))
  /\ IF Has(Real(d)) THEN UpdateListItems(RemoveDownloadByID(rows, Real(d)), None)
     ELSE UNCHANGED <<rows, list>>
  /\ Keeps

-----------------------------------------------------------------------------
(* Results of commands.                                                    *)
Result(r) ==
  /\ r \in results /\ results' = results \ {r}
  /\ dialog \notin Pickers
  /\ UNCHANGED <<stream, counts, pinned, dialogs, service>>

\* Mutant: the temporary row stays beside the real one.
EnqueueSuccessBoth(d) ==
  /\ Result([kind |-> "enqueueSuccess", d |-> d])
  /\ UpdateListItems(
       IF Has(Temp(d)) /\ ~Has(Real(d)) /\ enq[d].via = "temp"
       THEN [i \in DOMAIN rows |-> IF rows[i].id = Temp(d) THEN [rows[i] EXCEPT !.id = Real(d)]
                                   ELSE rows[i]]
       ELSE rows,
       IF Has(Temp(d)) /\ Selected = Temp(d) THEN Real(d) ELSE None)

EnqueueSuccess(d) ==
  /\ Result([kind |-> "enqueueSuccess", d |-> d])
  /\ UpdateListItems(
       IF ~Has(Temp(d)) \/ enq[d].via # "temp" THEN rows
       ELSE IF Has(Real(d)) THEN RemoveDownloadByID(rows, Temp(d))
       ELSE [i \in DOMAIN rows |-> IF rows[i].id = Temp(d) THEN [rows[i] EXCEPT !.id = Real(d)]
                                   ELSE rows[i]],
       IF Has(Temp(d)) /\ Selected = Temp(d) THEN Real(d) ELSE None)

EnqueueError(d) ==
  /\ Result([kind |-> "enqueueError", d |-> d])
  /\ LET id == IF enq[d].via = "temp" THEN Temp(d) ELSE Real(d)
         failed(r) == [r EXCEPT !.err = TRUE, !.done = TRUE, !.paused = FALSE,
                                !.pausing = FALSE, !.resuming = FALSE]
     IN  UpdateListItems(IF Has(id) THEN Put(rows, failed(Row(id)))
                         ELSE Append(rows, failed(NewDownloadModel(id))), None)

ResumeResult(d) ==
  /\ Result([kind |-> "resumeResult", d |-> d])
  /\ rows' = IF Has(Real(d))
             THEN Put(rows, [Row(Real(d)) EXCEPT !.paused = FALSE, !.pausing = FALSE,
                                                 !.resuming = TRUE])
             ELSE rows
  /\ UNCHANGED list

(* A picker takes every message for itself, and nobody else gets it.       *)
Swallow ==
  /\ dialog \in Pickers /\ Turn
  /\ \/ /\ stream # <<>> /\ stream' = Tail(stream) /\ UNCHANGED results
        /\ lost' = lost \cup {Head(stream).d}
     \/ \E r \in results :
          /\ results' = results \ {r} /\ UNCHANGED stream
          /\ lost' = lost \cup {r.d}
  /\ InterfaceKeeps /\ UNCHANGED service

(* A tick of the spinner or a new size of the window.                      *)
Refresh ==
  /\ UpdateListItems(rows, None)
  /\ Keeps /\ UNCHANGED <<stream, results, counts>>

-----------------------------------------------------------------------------
(* New downloads.  What the user is asked first is up to the settings and  *)
(* to what is in the list already; here both may happen.                   *)
StartDownload(d, via) ==
  LET id == IF via = "temp" THEN Temp(d) ELSE Real(d)
      rs == Append(rows, NewDownloadModel(id)) IN
  /\ rows' = rs
  /\ Show(rs, id, IF pinned THEN tab ELSE "queued")
  /\ enq' = [enq EXCEPT ![d] = [at |-> "called", via |-> via]]
  /\ UNCHANGED svc

Ask(d, about) ==
  /\ dialog' = about /\ asked' = d /\ awaiting' = awaiting \cup {d}
  /\ UNCHANGED <<rows, list, origin, svc>>

Answered ==
  /\ dialog' = "dashboard" /\ awaiting' = awaiting \ {asked} /\ asked' = "none"

Quiet == UNCHANGED <<stream, results, pinned, counts>>

Request(d) ==
  /\ awaiting = {} \/ "overlap" \in Slips
  /\ Receive(Event("request", d))
  /\ \/ (\E about \in {"duplicate", "confirm"} : Ask(d, about)) /\ UNCHANGED enq
     \/ StartDownload(d, "real") /\ UNCHANGED dialogs
  /\ UNCHANGED pinned

(* The form of a new download.                                             *)
SubmitInputForm(d) ==
  /\ dialog = "input" /\ enq[d].at = "no"
  /\ \/ Ask(d, "duplicate") /\ EnqAt(d, "requested")
     \/ StartDownload(d, "temp") /\ dialog' = "dashboard" /\ UNCHANGED <<origin, asked, awaiting>>
  /\ Quiet

(* The answers to a request (enter) and to the warning of a duplicate      *)
(* ("continue"): the download starts under an id of its own, unless the    *)
(* form it was asked in finds that it is one the list has.                 *)
UpdateExtensionConfirmation ==
  /\ dialog = "confirm"
  /\ \/ dialog' = "duplicate" /\ UNCHANGED <<rows, list, origin, asked, awaiting, service>>
     \/ Answered /\ StartDownload(asked, "temp") /\ UNCHANGED origin
  /\ Quiet

UpdateDuplicateWarning ==
  /\ dialog = "duplicate"
  /\ Answered /\ StartDownload(asked, "temp") /\ UNCHANGED origin
  /\ Quiet

(* The other answers: no, or a look at the download that is there.         *)
Decline ==
  /\ dialog \in {"confirm", "duplicate"}
  /\ Answered /\ EnqAt(asked, "declined")
  /\ origin' = IF dialog = "confirm" THEN "none" ELSE origin
  /\ \/ UNCHANGED cursor
     \/ dialog = "duplicate" /\ cursor' \in DOMAIN items
  /\ UNCHANGED <<rows, items, tab, svc>> /\ Quiet

(* A batch: one start after the other, of which the list shows the last.   *)
UpdateBatchConfirm(ds) ==
  /\ dialog = "batchconfirm" /\ ds # {} /\ \A d \in ds : enq[d].at = "no"
  /\ dialog' = "dashboard" /\ UNCHANGED <<origin, asked, awaiting, svc>>
  /\ LET new == SetToSeq(ds)
         rs == rows \o [i \in DOMAIN new |-> NewDownloadModel(Temp(new[i]))]
     IN  rows' = rs /\ Show(rs, Last(rs).id, IF pinned THEN tab ELSE "queued")
  /\ enq' = [d \in Downloads |-> IF d \in ds THEN [at |-> "called", via |-> "temp"] ELSE enq[d]]
  /\ Quiet

-----------------------------------------------------------------------------
(* Dialogs.  The settings, the categories and what else there is are one   *)
(* of them, "other", and their pickers are left out with them.             *)
Opens(from, to) ==
  /\ dialog = from /\ dialog' = to
  /\ UNCHANGED <<rows, list, service, asked, awaiting>> /\ Quiet

OpenDirectoryPicker ==
  \E from \in {"input", "confirm"} : Opens(from, "picker") /\ origin' = from

\* Mutant: every picker leads back to the form of a new download.
PickerToInput ==
  Opens("picker", "input") /\ origin' = "none"

(* Escape, or a directory: back to where the picker was opened.            *)
UpdateFilePicker ==
  Opens("picker", IF origin = "none" THEN "input" ELSE origin) /\ origin' = "none"

OpenDialog == \E to \in {"input", "batchpicker", "other"} : Opens("dashboard", to)

OtherDialogs ==
  /\ \/ OpenDialog
     \/ Opens("batchpicker", "batchconfirm")
     \/ \E from \in {"input", "batchpicker", "batchconfirm", "other"} : Opens(from, "dashboard")
  /\ UNCHANGED origin

UpdateNotice ==
  /\ awaiting = {} \/ "overlap" \in Slips
  /\ dialog' = "other" /\ origin' = "none"
  /\ UNCHANGED <<rows, list, asked, awaiting, service>> /\ Quiet

-----------------------------------------------------------------------------
(* Keys of the dashboard.                                                  *)
Key == dialog = "dashboard" /\ UNCHANGED <<dialogs, results>>

Move ==
  /\ Key /\ cursor' \in DOMAIN items
  /\ UNCHANGED <<rows, items, tab, pinned, stream, service, counts>>

SwitchTab(t) ==
  /\ Key /\ ~pinned
  /\ tab' = t /\ items' = Filtered(rows, t) /\ cursor' = 1
  /\ UNCHANGED <<rows, pinned, stream, service, counts>>

PinTab ==
  /\ Key /\ pinned' = ~pinned
  /\ UNCHANGED <<rows, list, stream, service, counts>>

Delete(d) ==
  /\ Key /\ Turn
  /\ \/ Selected = Temp(d) /\ UNCHANGED <<svc, stream>>
     \/ Selected = Real(d) /\ DeleteOf(d)
  /\ UpdateListItems(RemoveDownloadByID(rows, Selected), None)
  /\ UNCHANGED <<pinned, enq, lost>>

(* Pause or resume: the row is changed before the call is made or after    *)
(* it, and changed back when a resume is refused.                          *)
Pause(d) ==
  /\ Key /\ Turn
  /\ Selected = Real(d) /\ Has(Real(d)) /\ ~Row(Real(d)).done
  /\ LET r == Row(Real(d)) IN
       \/ /\ r.paused /\ ResumeOf(d, "nil")
          /\ UpdateListItems(Put(rows, [r EXCEPT !.paused = FALSE, !.resuming = TRUE]), None)
       \/ /\ r.paused /\ ResumeOf(d, "error")
          /\ UpdateListItems(Put(rows, [r EXCEPT !.resuming = FALSE]), None)
       \/ /\ ~r.paused /\ PauseOf(d, "nil")
          /\ UpdateListItems(Put(rows, [r EXCEPT !.resuming = FALSE, !.pausing = TRUE]), None)
       \/ /\ ~r.paused /\ PauseOf(d, "error")
          /\ UpdateListItems(rows, None)
  /\ UNCHANGED <<pinned, enq, lost>>

-----------------------------------------------------------------------------
TheService ==
  \E d \in Downloads :
    \/ EnqueueFails(d) \/ Dispatch(d) \/ PublishQueued(d)
    \/ AddElsewhere(d) \/ RequestElsewhere(d) \/ CallElsewhere(d) \/ ResumeStored(d)
    \/ Starts(d) \/ Progresses(d) \/ Completes(d) \/ Fails(d) \/ Stops(d)

Message ==
  \/ Refresh
  \/ \E d \in Downloads :
       \/ Progress(d) \/ Complete(d) \/ Error(d) \/ Removed(d)
       \/ \E kind \in {"paused", "resumed"} : PausedOrResumed(d, kind)
       \/ Queued(d) \/ Started(d) \/ Request(d)
       \/ EnqueueSuccess(d) \/ EnqueueError(d) \/ ResumeResult(d)

Dialog ==
  \/ UpdateExtensionConfirmation \/ UpdateDuplicateWarning \/ Decline
  \/ OpenDirectoryPicker \/ UpdateFilePicker \/ OtherDialogs \/ UpdateNotice
  \/ \E d \in Downloads : SubmitInputForm(d)
  \/ \E ds \in SUBSET Downloads : UpdateBatchConfirm(ds)

DashboardKey ==
  \/ Move \/ PinTab
  \/ \E t \in {"queued", "active", "done"} : SwitchTab(t)
  \/ \E d \in Downloads : Delete(d) \/ Pause(d)

Next == TheService \/ Message \/ Swallow \/ Dialog \/ DashboardKey

Spec == Init /\ [][Next]_vars

-----------------------------------------------------------------------------
(* Every variable keeps the shape of the fields of RootModel it stands     *)
(* for.                                                                    *)
TypeOK ==
  /\ rows \in Seq([id : Ids, done : BOOLEAN, err : BOOLEAN, paused : BOOLEAN,
                   pausing : BOOLEAN, resuming : BOOLEAN, started : BOOLEAN])
  /\ items \in Seq(Ids) /\ cursor \in Nat \ {0}
  /\ tab \in {"queued", "active", "done"}
  /\ pinned \in BOOLEAN
  /\ dialog \in Pickers \cup {"dashboard", "input", "confirm", "duplicate", "batchconfirm", "other"}
  /\ origin \in {"none", "input", "confirm"}
  /\ asked \in Downloads \cup {"none"} /\ awaiting \subseteq Downloads
  /\ svc \in [Downloads -> {"none", "queued", "active", "pausing", "paused", "complete",
                            "error", "removed"}]

RowsOf(d) == {i \in DOMAIN rows : rows[i].id[2] = d}
TheRow(d) == rows[CHOOSE i \in RowsOf(d) : TRUE]
EnqueueRuns(d) == enq[d].at \in {"called", "dispatched"}
AtRest == stream = <<>> /\ results = {} /\ \A d \in Downloads : ~EnqueueRuns(d)

(* When nothing is under way, the list says what is: a download the        *)
(* service has is one row, under its own id, done if it has ended, failed  *)
(* if it failed, paused if it is paused and neither while it waits or      *)
(* runs; one that was removed or refused has none; and an enqueue that     *)
(* failed has left at most one failed row.  What the rows are made of      *)
(* arrives from three sides in any order, and half of it is shown before   *)
(* the service has been asked.                                             *)
ListIsTrue ==
  AtRest => \A d \in Downloads \ lost :
    LET s == svc[d] IN
    IF enq[d].at = "failed"
    THEN Cardinality(RowsOf(d)) <= 1 /\ \A i \in RowsOf(d) : rows[i].done /\ rows[i].err
    ELSE IF s \in {"none", "removed"} THEN RowsOf(d) = {}
    ELSE /\ Cardinality(RowsOf(d)) = 1 /\ TheRow(d).id = Real(d)
         /\ TheRow(d).done = (s \in {"complete", "error"})
         /\ TheRow(d).err = (s = "error")
         /\ s = "paused" => TheRow(d).paused
         /\ s \in {"queued", "active"} => ~TheRow(d).paused
         /\ s = "active" => ~TheRow(d).pausing

(* A message that is not about a new or a starting download.               *)
QuietMessage ==
  /\ UNCHANGED <<service, counts>>
  /\ \/ results' # results
     \/ /\ stream # <<>> /\ stream' = Tail(stream)
        /\ Head(stream).kind \notin {"queued", "started", "request"}

(* It does not move the selection, whatever rows it adds, removes, renames *)
(* or moves to another tab: the row the next key will pause or delete is   *)
(* the one the user saw selected, under its new id if it was given one.    *)
(* A pinned tab stays in front, and then a row may go out of sight.        *)
CursorStays ==
  [][QuietMessage /\ Selected # None =>
       LET kept == IF Selected \in RowIds(rows') THEN Selected ELSE Real(Selected[2]) IN
       kept \in RowIds(rows') =>
         \/ Selected' = kept
         \/ pinned /\ tab' = tab /\ TabOf(FindDownloadByID(rows', kept)) # tab]_vars

(* A request that was put to the user stays in front of him, with what it  *)
(* asks about, until he has answered it: no dialog he can open from it     *)
(* leads elsewhere.                                                        *)
RequestsKept ==
  \A d \in awaiting :
    /\ asked = d
    /\ dialog \in {"confirm", "duplicate"} \/ (dialog = "picker" /\ origin = "confirm")
=============================================================================
