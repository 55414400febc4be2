------------------------------ MODULE Instance ------------------------------
(***************************************************************************)
(* The processes of one user, of src/cmd: terminal programs and servers    *)
(* start and end, at most one is to own the downloads at a time, and the   *)
(* files of the runtime directory, pid, port and token, tell commands like *)
(* `surge server stop` and `surge add` which one.                          *)
(*                                                                         *)
(* A process is a list of steps still to take, and the list of its         *)
(* deferred calls, the last of which is made first.  What it does with     *)
(* downloads while it runs is in the other modules.                        *)
(***************************************************************************)
EXTENDS Integers, Sequences, SequencesExt

CONSTANTS Processes,   \* process ids
          NoProcess,   \* no process id, no owner
          Ports,       \* the ports that are tried, in order
          Tokens,      \* tokens that may be asked for or generated
          NoToken,
          Attended,    \* TRUE if the desktop window, which takes no lock, is not started
          MaxStarts,   \* bound: starts and restarts
          MaxSpawns,   \* bound: restarts on Windows
          MaxStops,    \* bound: `surge server stop`
          MaxAsks      \* bound: `surge token`

ASSUME InstanceAssumption ==
  /\ NoProcess \notin Processes
  /\ Ports \subseteq Nat \ {0}
  /\ Attended \in BOOLEAN
  /\ {MaxStarts, MaxSpawns, MaxStops, MaxAsks} \subseteq Nat

VARIABLES
  phase,    \* phase[p]: "off", "starting", "running", "stopping", "leaving"
  steps,    \* steps[p]: what is left of its start
  defers,   \* defers[p]: what it will do when it leaves
  owner,    \* who has surge.lock
  bound,    \* bound[p]: the port it listens on, 0 without
  accepts,  \* accepts[p]: the token it accepts
  pidFile, portFile, tokenFile,
  stop,     \* the process `surge server stop` has read from the pid file
  ask,      \* `surge token` has found no token
  tally     \* how often the bounded things happened

files == <<pidFile, portFile, tokenFile>>
commands == <<stop, ask>>
instanceVars == <<phase, steps, defers, owner, bound, accepts, files, commands, tally>>

\* Of the terminal program, of a server, and of the desktop window.  The last step is
\* startHTTPServer's; its goroutine is taken to come so far before the program is left.
RootSteps == <<"lock", "pid", "state", "service", "bind", "port", "token">>
ServerSteps == <<"lock", "state", "pid", "bind", "service", "port", "override">>
EmbeddedSteps == <<"state", "bind", "service", "port", "token">>

InstanceInit ==
  /\ phase = [p \in Processes |-> "off"]
  /\ steps = [p \in Processes |-> <<>>]
  /\ defers = [p \in Processes |-> <<>>]
  /\ owner = NoProcess
  /\ bound = [p \in Processes |-> 0]
  /\ accepts = [p \in Processes |-> NoToken]
  /\ pidFile = NoProcess /\ portFile = 0 /\ tokenFile = NoToken
  /\ stop = NoProcess /\ ask = FALSE
  /\ tally = [starts |-> 0, spawns |-> 0, stops |-> 0, asks |-> 0]

Tally(k) == tally' = [tally EXCEPT ![k] = @ + 1]

-----------------------------------------------------------------------------
(* Starting.                                                               *)
Start(p) ==
  /\ phase[p] = "off"
  /\ tally.starts < MaxStarts
  /\ Tally("starts")
  /\ phase' = [phase EXCEPT ![p] = "starting"]
  /\ \E s \in {RootSteps, ServerSteps} \cup (IF Attended THEN {} ELSE {EmbeddedSteps}) :
       steps' = [steps EXCEPT ![p] = s]
  /\ UNCHANGED <<defers, owner, bound, accepts, files, commands>>

At(p, s) == phase[p] = "starting" /\ steps[p] # <<>> /\ Head(steps[p]) = s
Advance(p) == steps' = [steps EXCEPT ![p] = Tail(@)]
\* Mutant: deferred calls are made in the order they were deferred in.
DeferInOrder(p, d) == defers' = [defers EXCEPT ![p] = <<d>> \o @]
Defer(p, d) == defers' = [defers EXCEPT ![p] = Append(@, d)]
Leave(p) == /\ phase' = [phase EXCEPT ![p] = "leaving"]
            /\ steps' = [steps EXCEPT ![p] = <<>>]

AcquireLock(p) ==
  /\ At(p, "lock")
  /\ IF owner = NoProcess
     THEN owner' = p /\ Advance(p) /\ Defer(p, "unlock") /\ UNCHANGED phase
     ELSE Leave(p) /\ UNCHANGED <<owner, defers>>
  /\ UNCHANGED <<bound, accepts, files, commands, tally>>

SavePID(p) ==
  /\ At(p, "pid")
  /\ pidFile' = p
  /\ Advance(p) /\ Defer(p, "unpid")
  /\ UNCHANGED <<phase, owner, bound, accepts, portFile, tokenFile, commands, tally>>

GoOnOrLeave(p) ==
  /\ \/ Advance(p) /\ UNCHANGED phase
     \/ Leave(p)
  /\ UNCHANGED <<defers, owner, bound, accepts, files, commands, tally>>

(* Directories cannot be made.                                             *)
InitializeGlobalState(p) == At(p, "state") /\ GoOnOrLeave(p)

(* The service's events cannot be had.                                     *)
EnsureService(p) == At(p, "service") /\ GoOnOrLeave(p)

Free(n) == \A p \in Processes : bound[p] # n

(* The first free port, or the one that was asked for.                     *)
BindServerListener(p) ==
  /\ At(p, "bind")
  /\ \/ \E n \in Ports :
          /\ Free(n)
          /\ bound' = [bound EXCEPT ![p] = n]
          /\ Advance(p) /\ UNCHANGED phase
     \/ (\E n \in Ports : ~Free(n)) /\ Leave(p) /\ UNCHANGED bound
  /\ UNCHANGED <<defers, owner, accepts, files, commands, tally>>

SaveActivePort(p) ==
  /\ At(p, "port")
  /\ portFile' = bound[p]
  /\ Advance(p) /\ Defer(p, "unport")
  /\ UNCHANGED <<phase, owner, bound, accepts, pidFile, tokenFile, commands, tally>>

(* The token of a server's command line is written, ...                    *)
PersistToken(p) ==
  /\ At(p, "override")
  /\ \E t \in Tokens : tokenFile' = t /\ accepts' = [accepts EXCEPT ![p] = t]
  /\ Advance(p)
  /\ phase' = [phase EXCEPT ![p] = "running"]
  /\ UNCHANGED <<defers, owner, bound, pidFile, portFile, commands, tally>>

(* ... without one the file's is used, if it has any, ...                  *)
ReadToken(p) ==
  /\ At(p, "token") \/ At(p, "override")
  /\ IF tokenFile # NoToken
     THEN /\ accepts' = [accepts EXCEPT ![p] = tokenFile]
          /\ Advance(p)
          /\ phase' = [phase EXCEPT ![p] = "running"]
     ELSE steps' = [steps EXCEPT ![p] = <<"generate">>] /\ UNCHANGED <<accepts, phase>>
  /\ UNCHANGED <<defers, owner, bound, files, commands, tally>>

(* ... and else one is generated and written.                              *)
GenerateToken(p) ==
  /\ At(p, "generate")
  /\ \E t \in Tokens : tokenFile' = t /\ accepts' = [accepts EXCEPT ![p] = t]
  /\ Advance(p)
  /\ phase' = [phase EXCEPT ![p] = "running"]
  /\ UNCHANGED <<defers, owner, bound, pidFile, portFile, commands, tally>>

-----------------------------------------------------------------------------
(* Ending.                                                                 *)

(* The terminal program is left, every download has ended, the service     *)
(* manager or a signal says so; executeGlobalShutdown runs once.           *)
Ends(p) ==
  /\ phase[p] = "running"
  /\ phase' = [phase EXCEPT ![p] = "stopping"]
  /\ UNCHANGED <<steps, defers, owner, bound, accepts, files, commands, tally>>

ShutdownReturns(p) ==
  /\ phase[p] = "stopping"
  /\ Leave(p)
  /\ UNCHANGED <<defers, owner, bound, accepts, files, commands, tally>>

\* Deferred calls are made from the last to the first.
Deferred(p) == Last(defers[p])

RemovePID(p) ==
  /\ Deferred(p) = "unpid"
  /\ pidFile' = NoProcess
  /\ UNCHANGED <<portFile, owner>>
RemoveActivePort(p) ==
  /\ Deferred(p) = "unport"
  /\ portFile' = 0
  /\ UNCHANGED <<pidFile, owner>>
ReleaseLock(p) ==
  /\ Deferred(p) = "unlock"
  /\ owner' = IF owner = p THEN NoProcess ELSE owner
  /\ UNCHANGED <<pidFile, portFile>>

Unwind(p) ==
  /\ phase[p] = "leaving"
  /\ defers[p] # <<>>
  /\ RemovePID(p) \/ RemoveActivePort(p) \/ ReleaseLock(p)
  /\ defers' = [defers EXCEPT ![p] = Front(@)]
  /\ UNCHANGED <<phase, steps, bound, accepts, tokenFile, commands, tally>>

(* The system closes what a process had open.                              *)
Gone(p) ==
  /\ owner' = IF owner = p THEN NoProcess ELSE owner
  /\ bound' = [bound EXCEPT ![p] = 0]
  /\ accepts' = [accepts EXCEPT ![p] = NoToken]
  /\ defers' = [defers EXCEPT ![p] = <<>>]

Exit(p) ==
  /\ phase[p] = "leaving"
  /\ defers[p] = <<>>
  /\ Gone(p)
  /\ phase' = [phase EXCEPT ![p] = "off"]
  /\ UNCHANGED <<steps, files, commands, tally>>

Killed(p) ==
  /\ Gone(p)
  /\ phase' = [phase EXCEPT ![p] = "off"]
  /\ steps' = [steps EXCEPT ![p] = <<>>]

Kill(p) ==
  /\ phase[p] # "off"
  /\ Killed(p)
  /\ UNCHANGED <<files, commands, tally>>

(* performRestart, after the shutdown: the program takes the place of the  *)
(* process, which makes no deferred call ...                               *)
PerformRestart(p) ==
  /\ phase[p] = "stopping"
  /\ tally.starts < MaxStarts
  /\ Tally("starts")
  /\ Gone(p)
  /\ phase' = [phase EXCEPT ![p] = "starting"]
  /\ steps' = [steps EXCEPT ![p] = RootSteps]
  /\ UNCHANGED <<files, commands>>

(* ... or, on Windows, another is started, and this one leaves.            *)
SpawnRestart(p) ==
  /\ phase[p] = "stopping"
  /\ tally.spawns < MaxSpawns
  /\ Tally("spawns")
  /\ owner' = IF owner = p THEN NoProcess ELSE owner
  /\ \E q \in {x \in Processes : phase[x] = "off"} :
       /\ phase' = [phase EXCEPT ![p] = "leaving", ![q] = "starting"]
       /\ steps' = [steps EXCEPT ![p] = <<>>, ![q] = RootSteps]
  /\ UNCHANGED <<defers, bound, accepts, files, commands>>

-----------------------------------------------------------------------------
(* Commands.                                                               *)
StopReads ==
  /\ tally.stops < MaxStops
  /\ pidFile # NoProcess /\ stop = NoProcess
  /\ Tally("stops")
  /\ stop' = pidFile
  /\ UNCHANGED <<phase, steps, defers, owner, bound, accepts, files, ask>>

(* A process that runs catches the signal; before and after, it is killed  *)
(* by it.                                                                  *)
StopSignals ==
  /\ stop # NoProcess
  /\ stop' = NoProcess
  /\ \/ /\ phase[stop] = "running"
        /\ phase' = [phase EXCEPT ![stop] = "stopping"]
        /\ UNCHANGED <<steps, defers, owner, bound, accepts>>
     \/ phase[stop] \in {"starting", "leaving"} /\ Killed(stop)
     \/ /\ phase[stop] \in {"off", "stopping"}
        /\ UNCHANGED <<phase, steps, defers, owner, bound, accepts>>
  /\ UNCHANGED <<files, ask, tally>>

(* `surge token`, and other commands without a token of their own.         *)
AskToken ==
  /\ tally.asks < MaxAsks
  /\ tokenFile = NoToken /\ ~ask
  /\ Tally("asks")
  /\ ask' = TRUE
  /\ UNCHANGED <<phase, steps, defers, owner, bound, accepts, files, stop>>

AskWrites ==
  /\ ask
  /\ ask' = FALSE
  /\ \E t \in Tokens : tokenFile' = t
  /\ UNCHANGED <<phase, steps, defers, owner, bound, accepts, pidFile, portFile, stop, tally>>

InstanceNext ==
  \/ \E p \in Processes :
       \/ Start(p) \/ AcquireLock(p) \/ SavePID(p)
       \/ InitializeGlobalState(p) \/ EnsureService(p)
       \/ BindServerListener(p) \/ SaveActivePort(p)
       \/ PersistToken(p) \/ ReadToken(p) \/ GenerateToken(p)
       \/ Ends(p) \/ ShutdownReturns(p) \/ Unwind(p) \/ Exit(p) \/ Kill(p)
       \/ PerformRestart(p) \/ SpawnRestart(p)
  \/ StopReads \/ StopSignals \/ AskToken \/ AskWrites

InstanceSpec == InstanceInit /\ [][InstanceNext]_instanceVars

-----------------------------------------------------------------------------
(* The files name the process that runs, whatever was left behind by one   *)
(* that was killed, and whoever leaves or restarts meanwhile: its pid, its *)
(* port, the token it accepts; so there is one at most, and a command      *)
(* reaches it (root.go:454-476, server.go:33-72).  It is not so once a     *)
(* restart on Windows has left two processes, and a token that a command   *)
(* generates while there is none may replace the one that is accepted.     *)
FilesNameTheOwner ==
  tally.spawns = 0 =>
    \A p \in Processes :
      phase[p] \in {"running", "stopping"} =>
        /\ owner = p /\ pidFile = p /\ portFile = bound[p]
        /\ tally.asks = 0 => tokenFile = accepts[p]
=============================================================================
