---------------------------- MODULE ProgramProofs ----------------------------
(***************************************************************************)
(* Proofs about the programs around the engine: the processes of one user  *)
(* and their files (Instance), the watcher of `--exit-when-done`           *)
(* (ExitWhenDone), a terminal program connected to a server elsewhere      *)
(* (Remote), the time and the progress a download is recorded with         *)
(* (Checkpoint), and the HTTP transports downloads share (NetworkPool).    *)
(* They share no state; each has its part here.                            *)
(***************************************************************************)
EXTENDS Instance, ExitWhenDone, Remote, Checkpoint, NetworkPool, SequenceTheorems,
        FiniteSetTheorems, WellFoundedInduction, TLAPS

-----------------------------------------------------------------------------
(* The processes and their files.                                          *)

(* What is left of the steps of a terminal program and of a server.        *)
Root2 == <<"pid", "state", "service", "bind", "port", "token">>
Root3 == <<"state", "service", "bind", "port", "token">>
Root4 == <<"service", "bind", "port", "token">>
Root5 == <<"bind", "port", "token">>
Root6 == <<"port", "token">>
Root7 == <<"token">>
Server2 == <<"state", "pid", "bind", "service", "port", "override">>
Server3 == <<"pid", "bind", "service", "port", "override">>
Server4 == <<"bind", "service", "port", "override">>
Server5 == <<"service", "port", "override">>
Server6 == <<"port", "override">>
Server7 == <<"override">>
Generate == <<"generate">>

(* How far a start has come, by what it has done already.                  *)
NothingDone == {RootSteps, ServerSteps}
LockDone == {Root2, Server2, Server3}
PidDone == {Root3, Root4, Root5, Root6, Server4, Server5, Server6}
PortDone == {Root7, Server7, Generate}

\* What was deferred so far.
Unlock == Append(<<>>, "unlock")
Unpid == Append(Unlock, "unpid")
Unport == Append(Unpid, "unport")

LEMMA StepsGoOn ==
  /\ Head(RootSteps) = "lock" /\ Tail(RootSteps) = Root2
  /\ Head(Root2) = "pid" /\ Tail(Root2) = Root3
  /\ Head(Root3) = "state" /\ Tail(Root3) = Root4
  /\ Head(Root4) = "service" /\ Tail(Root4) = Root5
  /\ Head(Root5) = "bind" /\ Tail(Root5) = Root6
  /\ Head(Root6) = "port" /\ Tail(Root6) = Root7
  /\ Head(Root7) = "token" /\ Tail(Root7) = <<>>
  /\ Head(ServerSteps) = "lock" /\ Tail(ServerSteps) = Server2
  /\ Head(Server2) = "state" /\ Tail(Server2) = Server3
  /\ Head(Server3) = "pid" /\ Tail(Server3) = Server4
  /\ Head(Server4) = "bind" /\ Tail(Server4) = Server5
  /\ Head(Server5) = "service" /\ Tail(Server5) = Server6
  /\ Head(Server6) = "port" /\ Tail(Server6) = Server7
  /\ Head(Server7) = "override" /\ Tail(Server7) = <<>>
  /\ Head(Generate) = "generate" /\ Tail(Generate) = <<>>
<1>1. /\ Head(RootSteps) = "lock" /\ Tail(RootSteps) = Root2
      /\ Head(ServerSteps) = "lock" /\ Tail(ServerSteps) = Server2
  BY DEF RootSteps, ServerSteps, Root2, Server2
<1>2. /\ Head(Root2) = "pid" /\ Tail(Root2) = Root3
      /\ Head(Server2) = "state" /\ Tail(Server2) = Server3
  BY DEF Root2, Root3, Server2, Server3
<1>3. /\ Head(Root3) = "state" /\ Tail(Root3) = Root4
      /\ Head(Server3) = "pid" /\ Tail(Server3) = Server4
  BY DEF Root3, Root4, Server3, Server4
<1>4. /\ Head(Root4) = "service" /\ Tail(Root4) = Root5
      /\ Head(Server4) = "bind" /\ Tail(Server4) = Server5
  BY DEF Root4, Root5, Server4, Server5
<1>5. /\ Head(Root5) = "bind" /\ Tail(Root5) = Root6
      /\ Head(Server5) = "service" /\ Tail(Server5) = Server6
  BY DEF Root5, Root6, Server5, Server6
<1>6. /\ Head(Root6) = "port" /\ Tail(Root6) = Root7
      /\ Head(Server6) = "port" /\ Tail(Server6) = Server7
  BY DEF Root6, Root7, Server6, Server7
<1>7. /\ Head(Root7) = "token" /\ Tail(Root7) = <<>>
      /\ Head(Server7) = "override" /\ Tail(Server7) = <<>>
      /\ Head(Generate) = "generate" /\ Tail(Generate) = <<>>
  BY DEF Root7, Server7, Generate
<1>8. QED
  BY <1>1, <1>2, <1>3, <1>4, <1>5, <1>6, <1>7

LEMMA LastDeferred ==
  ASSUME NEW S, NEW s \in Seq(S), NEW e \in S
  PROVE  Append(s, e) # <<>> /\ Last(Append(s, e)) = e /\ Front(Append(s, e)) = s
<1> DEFINE r == Append(s, e)
<1>1. /\ r \in Seq(S) /\ Len(s) \in Nat /\ Len(r) = Len(s) + 1 /\ r[Len(s) + 1] = e
      /\ \A k \in 1 .. Len(s) : r[k] = s[k] /\ r[k] \in S
  OBVIOUS
<1> HIDE DEF r
<1>2. r # <<>> /\ Last(r) = e
  BY <1>1 DEF Last
<1>3. (Len(s) + 1) - 1 = Len(s)
  BY <1>1
<1>4. /\ Front(r) \in Seq(S) /\ Len(Front(r)) = Len(s)
      /\ \A k \in 1 .. Len(s) : Front(r)[k] = s[k]
  BY <1>1, <1>3, SubSeqProperties DEF Front
<1>5. Front(r) = s
  BY <1>4, SeqEqual
<1>6. QED
  BY <1>2, <1>5 DEF r

LEMMA DefersGoOn ==
  /\ Last(Unlock) = "unlock" /\ Last(Unpid) = "unpid" /\ Last(Unport) = "unport"
  /\ Front(Unlock) = <<>> /\ Front(Unpid) = Unlock /\ Front(Unport) = Unpid
  /\ Unlock # <<>> /\ Unpid # <<>> /\ Unport # <<>>
<1> DEFINE Calls == {"unlock", "unpid", "unport"}
<1>1. <<>> \in Seq(Calls) /\ Unlock \in Seq(Calls) /\ Unpid \in Seq(Calls)
  BY DEF Unlock, Unpid
<1>2. "unlock" \in Calls /\ "unpid" \in Calls /\ "unport" \in Calls
  OBVIOUS
<1> HIDE DEF Calls
<1>3. Last(Unlock) = "unlock" /\ Front(Unlock) = <<>> /\ Unlock # <<>>
  BY <1>1, <1>2, LastDeferred DEF Unlock
<1>4. Last(Unpid) = "unpid" /\ Front(Unpid) = Unlock /\ Unpid # <<>>
  BY <1>1, <1>2, LastDeferred DEF Unpid
<1>5. Last(Unport) = "unport" /\ Front(Unport) = Unpid /\ Unport # <<>>
  BY <1>1, <1>2, LastDeferred DEF Unport
<1>6. QED
  BY <1>3, <1>4, <1>5

IsOfProcesses(f) == f = [p \in Processes |-> f[p]]

ProcessTypes ==
  /\ IsOfProcesses(phase) /\ IsOfProcesses(steps) /\ IsOfProcesses(defers)
  /\ IsOfProcesses(bound) /\ IsOfProcesses(accepts)

RecordTypes ==
  /\ {owner, pidFile, stop} \subseteq Processes \cup {NoProcess}
  /\ tally \in [starts : Nat, spawns : Nat, stops : Nat, asks : Nat]
  /\ ask \in BOOLEAN
  /\ ask => tally.asks # 0

(* How far p has come, what it has done by then, and what it will undo.    *)
Placed(p) ==
  \/ phase[p] = "off" /\ defers[p] = <<>>
  \/ phase[p] = "starting" /\ steps[p] \in NothingDone /\ defers[p] = <<>>
  \/ phase[p] = "starting" /\ steps[p] \in LockDone /\ owner = p /\ defers[p] = Unlock
  \/ /\ phase[p] = "starting" /\ steps[p] \in PidDone
     /\ owner = p /\ pidFile = p /\ defers[p] = Unpid
  \/ /\ phase[p] = "starting" /\ steps[p] \in PortDone
     /\ owner = p /\ pidFile = p /\ portFile = bound[p] /\ defers[p] = Unport
  \/ /\ phase[p] \in {"running", "stopping"}
     /\ owner = p /\ pidFile = p /\ portFile = bound[p] /\ defers[p] = Unport
     /\ tally.asks = 0 => tokenFile = accepts[p]
  \/ phase[p] = "leaving" /\ defers[p] = <<>>
  \/ phase[p] = "leaving" /\ owner = p /\ defers[p] \in {Unlock, Unpid, Unport}

InstanceInv ==
  /\ ProcessTypes
  /\ RecordTypes
  /\ tally.spawns = 0 => \A p \in Processes : Placed(p)

(* Whoever is not the owner has none of the files; the owner keeps what it *)
(* has while another one acts.                                             *)
LEMMA OthersStay ==
  ASSUME NEW q \in Processes, Placed(q),
         phase'[q] = phase[q], steps'[q] = steps[q], defers'[q] = defers[q],
         bound'[q] = bound[q], accepts'[q] = accepts[q],
         owner = q => /\ owner' = q /\ pidFile' = pidFile /\ portFile' = portFile
                      /\ tally'.asks = 0 => tally.asks = 0 /\ tokenFile' = tokenFile
  PROVE  Placed(q)'
<1>1. CASE owner = q
  BY <1>1 DEF Placed
<1>2. CASE owner # q
  BY <1>2 DEF Placed
<1>3. QED
  BY <1>1, <1>2

(* A process at a step has done what comes before it.                      *)
LEMMA StepsSay ==
  ASSUME NEW p \in Processes, Placed(p)
  PROVE  /\ At(p, "lock") => /\ Tail(steps[p]) \in LockDone /\ defers[p] = <<>>
         /\ At(p, "pid") => /\ Tail(steps[p]) \in PidDone /\ owner = p /\ defers[p] = Unlock
         /\ At(p, "state") \/ At(p, "service") =>
              \/ /\ Tail(steps[p]) \in LockDone /\ owner = p /\ defers[p] = Unlock
              \/ /\ Tail(steps[p]) \in PidDone /\ owner = p /\ pidFile = p /\ defers[p] = Unpid
         /\ At(p, "bind") =>
              Tail(steps[p]) \in PidDone /\ owner = p /\ pidFile = p /\ defers[p] = Unpid
         /\ At(p, "port") =>
              Tail(steps[p]) \in PortDone /\ owner = p /\ pidFile = p /\ defers[p] = Unpid
         /\ At(p, "token") \/ At(p, "override") \/ At(p, "generate") =>
              owner = p /\ pidFile = p /\ portFile = bound[p] /\ defers[p] = Unport
<1>1. \/ ~(phase[p] = "starting")
      \/ steps[p] \in NothingDone /\ defers[p] = <<>>
      \/ steps[p] \in LockDone /\ owner = p /\ defers[p] = Unlock
      \/ steps[p] \in PidDone /\ owner = p /\ pidFile = p /\ defers[p] = Unpid
      \/ steps[p] \in PortDone /\ owner = p /\ pidFile = p /\ portFile = bound[p] /\ defers[p] = Unport
  BY DEF Placed
<1>2. CASE phase[p] # "starting"
  BY <1>2 DEF At
<1>3. CASE steps[p] \in NothingDone /\ defers[p] = <<>>
  BY <1>3, StepsGoOn DEF At, NothingDone, LockDone
<1>4. CASE steps[p] \in LockDone /\ owner = p /\ defers[p] = Unlock
  BY <1>4, StepsGoOn DEF At, LockDone, PidDone
<1>5. CASE steps[p] \in PidDone /\ owner = p /\ pidFile = p /\ defers[p] = Unpid
  BY <1>5, StepsGoOn DEF At, PidDone, PortDone
<1>6. CASE steps[p] \in PortDone /\ owner = p /\ pidFile = p /\ portFile = bound[p] /\ defers[p] = Unport
  BY <1>6, StepsGoOn DEF At, PortDone
<1>7. QED
  BY <1>1, <1>2, <1>3, <1>4, <1>5, <1>6

SameProcess(q) ==
  /\ phase'[q] = phase[q] /\ steps'[q] = steps[q] /\ defers'[q] = defers[q]
  /\ bound'[q] = bound[q] /\ accepts'[q] = accepts[q]

FilesStay ==
  /\ UNCHANGED <<owner, pidFile, portFile>>
  /\ tally'.asks = 0 => tally.asks = 0 /\ UNCHANGED tokenFile

(* A step of p, which has come to its next place, keeps the invariant if   *)
(* it leaves the files alone, unless it is p that owns them, or nobody.    *)
LEMMA ActorStays ==
  ASSUME InstanceInv, NEW p \in Processes,
         ProcessTypes', RecordTypes',
         \A q \in Processes \ {p} : SameProcess(q),
         tally'.spawns = 0 => tally.spawns = 0,
         tally.spawns = 0 /\ Placed(p) => Placed(p)' /\ (FilesStay \/ owner \in {p, NoProcess})
  PROVE  InstanceInv'
<1>1. ASSUME tally'.spawns = 0, NEW q \in Processes
      PROVE  Placed(q)'
  <2>1. Placed(q) /\ Placed(p) /\ Placed(p)' /\ (FilesStay \/ owner \in {p, NoProcess})
    BY <1>1 DEF InstanceInv
  <2>2. CASE q = p
    BY <2>1, <2>2
  <2>3. CASE q # p
    <3>1. SameProcess(q)
      BY <2>3
    <3>2. owner = q => FilesStay
      BY <2>1, <2>3, InstanceAssumption
    <3>3. QED
      BY <2>1, <3>1, <3>2, OthersStay DEF SameProcess, FilesStay
  <2>4. QED
    BY <2>2, <2>3
<1>2. QED
  BY <1>1 DEF InstanceInv

-----------------------------------------------------------------------------
(* Starting.                                                               *)
LEMMA StartStays ==
  ASSUME Attended, InstanceInv, NEW p \in Processes, Start(p)
  PROVE  InstanceInv'
<1>1. /\ phase' = [phase EXCEPT ![p] = "starting"]
      /\ tally' = [tally EXCEPT !.starts = @ + 1]
      /\ UNCHANGED <<defers, owner, bound, accepts, pidFile, portFile, tokenFile, stop, ask>>
      /\ phase[p] = "off"
  BY DEF Start, Tally, files, commands
<1>2. PICK s \in NothingDone : steps' = [steps EXCEPT ![p] = s]
  BY DEF Start, NothingDone
<1>3. /\ phase'[p] = "starting" /\ steps'[p] \in NothingDone
      /\ ProcessTypes' /\ \A q \in Processes \ {p} : SameProcess(q)
  BY <1>1, <1>2 DEF InstanceInv, ProcessTypes, IsOfProcesses, SameProcess
<1>4. RecordTypes' /\ tally'.spawns = tally.spawns /\ FilesStay
  BY <1>1 DEF InstanceInv, RecordTypes, FilesStay
<1>5. Placed(p) => Placed(p)'
  BY <1>1, <1>3 DEF Placed
<1>6. QED
  BY <1>3, <1>4, <1>5, ActorStays

LEMMA AcquireLockStays ==
  ASSUME InstanceInv, NEW p \in Processes, AcquireLock(p)
  PROVE  InstanceInv'
<1>1. /\ At(p, "lock")
      /\ UNCHANGED <<bound, accepts, pidFile, portFile, tokenFile, stop, ask, tally>>
  BY DEF AcquireLock, files, commands
<1>2. CASE owner = NoProcess
  <2>1. /\ owner' = p /\ phase' = phase
        /\ steps' = [steps EXCEPT ![p] = Tail(@)]
        /\ defers' = [defers EXCEPT ![p] = Append(@, "unlock")]
    BY <1>2 DEF AcquireLock, Advance, Defer
  <2>2. /\ steps'[p] = Tail(steps[p]) /\ defers'[p] = Append(defers[p], "unlock")
        /\ ProcessTypes' /\ \A q \in Processes \ {p} : SameProcess(q)
    BY <1>1, <2>1 DEF InstanceInv, ProcessTypes, IsOfProcesses, SameProcess
  <2>3. RecordTypes'
    BY <1>1, <2>1 DEF InstanceInv, RecordTypes
  <2>4. Placed(p) => Placed(p)'
    <3>1. Placed(p) => Tail(steps[p]) \in LockDone /\ defers'[p] = Unlock /\ phase[p] = "starting"
      BY <1>1, <2>2, StepsSay DEF Unlock, At
    <3>2. QED
      BY <2>1, <2>2, <3>1 DEF Placed
  <2>5. QED
    BY <1>1, <1>2, <2>2, <2>3, <2>4, ActorStays
<1>3. CASE owner # NoProcess
  <2>1. /\ phase' = [phase EXCEPT ![p] = "leaving"] /\ steps' = [steps EXCEPT ![p] = <<>>]
        /\ UNCHANGED <<owner, defers>>
    BY <1>3 DEF AcquireLock, Leave
  <2>2. /\ phase'[p] = "leaving" /\ defers'[p] = defers[p]
        /\ ProcessTypes' /\ \A q \in Processes \ {p} : SameProcess(q)
    BY <1>1, <2>1 DEF InstanceInv, ProcessTypes, IsOfProcesses, SameProcess
  <2>3. RecordTypes' /\ FilesStay
    BY <1>1, <2>1 DEF InstanceInv, RecordTypes, FilesStay
  <2>4. Placed(p) => Placed(p)'
    BY <1>1, <2>2, StepsSay DEF Placed
  <2>5. QED
    BY <1>1, <2>2, <2>3, <2>4, ActorStays
<1>4. QED
  BY <1>2, <1>3

LEMMA SavePIDStays ==
  ASSUME InstanceInv, NEW p \in Processes, SavePID(p)
  PROVE  InstanceInv'
<1>1. /\ At(p, "pid") /\ pidFile' = p
      /\ steps' = [steps EXCEPT ![p] = Tail(@)]
      /\ defers' = [defers EXCEPT ![p] = Append(@, "unpid")]
      /\ UNCHANGED <<phase, owner, bound, accepts, portFile, tokenFile, stop, ask, tally>>
  BY DEF SavePID, Advance, Defer, commands
<1>2. /\ steps'[p] = Tail(steps[p]) /\ defers'[p] = Append(defers[p], "unpid")
      /\ ProcessTypes' /\ \A q \in Processes \ {p} : SameProcess(q)
  BY <1>1 DEF InstanceInv, ProcessTypes, IsOfProcesses, SameProcess
<1>3. RecordTypes'
  BY <1>1 DEF InstanceInv, RecordTypes
<1>4. Placed(p) => Placed(p)' /\ owner = p
  <2>1. Placed(p) => /\ Tail(steps[p]) \in PidDone /\ owner = p
                     /\ defers'[p] = Unpid /\ phase[p] = "starting"
    BY <1>1, <1>2, StepsSay DEF Unpid, At
  <2>2. QED
    BY <1>1, <1>2, <2>1 DEF Placed
<1>5. QED
  BY <1>1, <1>2, <1>3, <1>4, ActorStays

(* A step that goes on without leaving a trace, or gives up.               *)
LEMMA GoOnOrLeaveStays ==
  ASSUME InstanceInv, NEW p \in Processes, At(p, "state") \/ At(p, "service"), GoOnOrLeave(p)
  PROVE  InstanceInv'
<1>1. UNCHANGED <<defers, owner, bound, accepts, pidFile, portFile, tokenFile, stop, ask, tally>>
  BY DEF GoOnOrLeave, files, commands
<1>2. RecordTypes' /\ FilesStay
  BY <1>1 DEF InstanceInv, RecordTypes, FilesStay
<1>3. Placed(p) =>
        \/ /\ Tail(steps[p]) \in LockDone /\ owner = p /\ defers[p] = Unlock
        \/ /\ Tail(steps[p]) \in PidDone /\ owner = p /\ pidFile = p /\ defers[p] = Unpid
  BY StepsSay
<1>4. CASE Advance(p) /\ UNCHANGED phase
  <2>1. /\ steps'[p] = Tail(steps[p]) /\ phase'[p] = "starting" /\ defers'[p] = defers[p]
        /\ ProcessTypes' /\ \A q \in Processes \ {p} : SameProcess(q)
    BY <1>1, <1>4 DEF Advance, At, InstanceInv, ProcessTypes, IsOfProcesses, SameProcess
  <2>2. Placed(p) => Placed(p)'
    BY <1>1, <1>3, <2>1 DEF Placed
  <2>3. QED
    BY <1>1, <1>2, <2>1, <2>2, ActorStays
<1>5. CASE Leave(p)
  <2>1. /\ phase'[p] = "leaving" /\ defers'[p] = defers[p]
        /\ ProcessTypes' /\ \A q \in Processes \ {p} : SameProcess(q)
    BY <1>1, <1>5 DEF Leave, InstanceInv, ProcessTypes, IsOfProcesses, SameProcess
  <2>2. Placed(p) => Placed(p)'
    BY <1>1, <1>3, <2>1 DEF Placed
  <2>3. QED
    BY <1>1, <1>2, <2>1, <2>2, ActorStays
<1>6. QED
  BY <1>4, <1>5 DEF GoOnOrLeave

LEMMA BindStays ==
  ASSUME InstanceInv, NEW p \in Processes, BindServerListener(p)
  PROVE  InstanceInv'
<1>1. /\ At(p, "bind")
      /\ UNCHANGED <<defers, owner, accepts, pidFile, portFile, tokenFile, stop, ask, tally>>
  BY DEF BindServerListener, files, commands
<1>2. RecordTypes' /\ FilesStay
  BY <1>1 DEF InstanceInv, RecordTypes, FilesStay
<1>3. Placed(p) => Tail(steps[p]) \in PidDone /\ owner = p /\ pidFile = p /\ defers[p] = Unpid
  BY <1>1, StepsSay
<1>4. ASSUME NEW n \in Ports, bound' = [bound EXCEPT ![p] = n], Advance(p), UNCHANGED phase
      PROVE  InstanceInv'
  <2>1. /\ steps'[p] = Tail(steps[p]) /\ phase'[p] = "starting" /\ defers'[p] = defers[p]
        /\ ProcessTypes' /\ \A q \in Processes \ {p} : SameProcess(q)
    BY <1>1, <1>4 DEF Advance, At, InstanceInv, ProcessTypes, IsOfProcesses, SameProcess
  <2>2. Placed(p) => Placed(p)'
    BY <1>1, <1>3, <2>1 DEF Placed
  <2>3. QED
    BY <1>1, <1>2, <2>1, <2>2, ActorStays
<1>5. CASE Leave(p) /\ UNCHANGED bound
  <2>1. /\ phase'[p] = "leaving" /\ defers'[p] = defers[p]
        /\ ProcessTypes' /\ \A q \in Processes \ {p} : SameProcess(q)
    BY <1>1, <1>5 DEF Leave, InstanceInv, ProcessTypes, IsOfProcesses, SameProcess
  <2>2. Placed(p) => Placed(p)'
    BY <1>1, <1>3, <2>1 DEF Placed
  <2>3. QED
    BY <1>1, <1>2, <2>1, <2>2, ActorStays
<1>6. QED
  BY <1>4, <1>5 DEF BindServerListener

LEMMA SaveActivePortStays ==
  ASSUME InstanceInv, NEW p \in Processes, SaveActivePort(p)
  PROVE  InstanceInv'
<1>1. /\ At(p, "port") /\ portFile' = bound[p]
      /\ steps' = [steps EXCEPT ![p] = Tail(@)]
      /\ defers' = [defers EXCEPT ![p] = Append(@, "unport")]
      /\ UNCHANGED <<phase, owner, bound, accepts, pidFile, tokenFile, stop, ask, tally>>
  BY DEF SaveActivePort, Advance, Defer, commands
<1>2. /\ steps'[p] = Tail(steps[p]) /\ defers'[p] = Append(defers[p], "unport")
      /\ ProcessTypes' /\ \A q \in Processes \ {p} : SameProcess(q)
  BY <1>1 DEF InstanceInv, ProcessTypes, IsOfProcesses, SameProcess
<1>3. RecordTypes'
  BY <1>1 DEF InstanceInv, RecordTypes
<1>4. Placed(p) => Placed(p)' /\ owner = p
  <2>1. Placed(p) => /\ Tail(steps[p]) \in PortDone /\ owner = p /\ pidFile = p
                     /\ defers'[p] = Unport /\ phase[p] = "starting"
    BY <1>1, <1>2, StepsSay DEF Unport, At
  <2>2. QED
    BY <1>1, <1>2, <2>1 DEF Placed
<1>5. QED
  BY <1>1, <1>2, <1>3, <1>4, ActorStays

(* The last step, which settles the token.                                 *)
LEMMA TokenStays ==
  ASSUME InstanceInv, NEW p \in Processes,
         PersistToken(p) \/ ReadToken(p) \/ GenerateToken(p)
  PROVE  InstanceInv'
<1>1. /\ At(p, "token") \/ At(p, "override") \/ At(p, "generate")
      /\ UNCHANGED <<defers, owner, bound, pidFile, portFile, stop, ask, tally>>
  BY DEF PersistToken, ReadToken, GenerateToken, files, commands
<1>2. Placed(p) => owner = p /\ pidFile = p /\ portFile = bound[p] /\ defers[p] = Unport
  BY <1>1, StepsSay
<1>3. RecordTypes'
  BY <1>1 DEF InstanceInv, RecordTypes
<1>4. ASSUME NEW t, accepts' = [accepts EXCEPT ![p] = t], tokenFile' = t,
             Advance(p), phase' = [phase EXCEPT ![p] = "running"]
      PROVE  InstanceInv'
  <2>1. /\ phase'[p] = "running" /\ defers'[p] = defers[p] /\ accepts'[p] = t /\ bound'[p] = bound[p]
        /\ ProcessTypes' /\ \A q \in Processes \ {p} : SameProcess(q)
    BY <1>1, <1>4 DEF Advance, InstanceInv, ProcessTypes, IsOfProcesses, SameProcess
  <2>2. Placed(p) => Placed(p)'
    BY <1>1, <1>2, <1>4, <2>1 DEF Placed
  <2>3. QED
    BY <1>1, <1>2, <1>3, <2>1, <2>2, ActorStays
<1>5. CASE steps' = [steps EXCEPT ![p] = Generate] /\ UNCHANGED <<accepts, phase, tokenFile>>
  <2>1. /\ steps'[p] = Generate /\ phase'[p] = "starting" /\ defers'[p] = defers[p]
        /\ bound'[p] = bound[p]
        /\ ProcessTypes' /\ \A q \in Processes \ {p} : SameProcess(q)
    BY <1>1, <1>5 DEF At, InstanceInv, ProcessTypes, IsOfProcesses, SameProcess
  <2>2. Placed(p) => Placed(p)'
    BY <1>1, <1>2, <1>5, <2>1 DEF Placed, PortDone
  <2>3. QED
    BY <1>1, <1>2, <1>3, <2>1, <2>2, ActorStays
<1>6. QED
  BY <1>4, <1>5 DEF PersistToken, ReadToken, GenerateToken, files, Generate

-----------------------------------------------------------------------------
(* Ending.                                                                 *)
LEMMA EndsStays ==
  ASSUME InstanceInv, NEW p \in Processes, Ends(p)
  PROVE  InstanceInv'
<1>1. /\ phase[p] = "running" /\ phase' = [phase EXCEPT ![p] = "stopping"]
      /\ UNCHANGED <<steps, defers, owner, bound, accepts, pidFile, portFile, tokenFile, stop, ask, tally>>
  BY DEF Ends, files, commands
<1>2. /\ phase'[p] = "stopping"
      /\ ProcessTypes' /\ \A q \in Processes \ {p} : SameProcess(q)
  BY <1>1 DEF InstanceInv, ProcessTypes, IsOfProcesses, SameProcess
<1>3. RecordTypes' /\ FilesStay
  BY <1>1 DEF InstanceInv, RecordTypes, FilesStay
<1>4. Placed(p) => Placed(p)'
  BY <1>1, <1>2 DEF Placed
<1>5. QED
  BY <1>1, <1>2, <1>3, <1>4, ActorStays

LEMMA ShutdownReturnsStays ==
  ASSUME InstanceInv, NEW p \in Processes, ShutdownReturns(p)
  PROVE  InstanceInv'
<1>1. /\ phase[p] = "stopping" /\ Leave(p)
      /\ UNCHANGED <<defers, owner, bound, accepts, pidFile, portFile, tokenFile, stop, ask, tally>>
  BY DEF ShutdownReturns, files, commands
<1>2. /\ phase'[p] = "leaving" /\ defers'[p] = defers[p]
      /\ ProcessTypes' /\ \A q \in Processes \ {p} : SameProcess(q)
  BY <1>1 DEF Leave, InstanceInv, ProcessTypes, IsOfProcesses, SameProcess
<1>3. RecordTypes' /\ FilesStay
  BY <1>1 DEF InstanceInv, RecordTypes, FilesStay
<1>4. Placed(p) => Placed(p)'
  BY <1>1, <1>2 DEF Placed
<1>5. QED
  BY <1>1, <1>2, <1>3, <1>4, ActorStays

(* Deferred calls undo what was done, from the last to the first.          *)
LEMMA UnwindStays ==
  ASSUME InstanceInv, NEW p \in Processes, Unwind(p)
  PROVE  InstanceInv'
<1>1. /\ phase[p] = "leaving" /\ defers[p] # <<>>
      /\ defers' = [defers EXCEPT ![p] = Front(@)]
      /\ UNCHANGED <<phase, steps, bound, accepts, tokenFile, stop, ask, tally>>
      /\ RemovePID(p) \/ RemoveActivePort(p) \/ ReleaseLock(p)
  BY DEF Unwind, commands
<1>2. /\ defers'[p] = Front(defers[p]) /\ phase'[p] = "leaving"
      /\ ProcessTypes' /\ \A q \in Processes \ {p} : SameProcess(q)
  BY <1>1 DEF InstanceInv, ProcessTypes, IsOfProcesses, SameProcess
<1>3. RecordTypes'
  BY <1>1 DEF InstanceInv, RecordTypes, RemovePID, RemoveActivePort, ReleaseLock
<1>4. Placed(p) => owner = p /\ defers[p] \in {Unlock, Unpid, Unport}
  BY <1>1 DEF Placed
<1>5. CASE defers[p] = Unlock
  BY <1>1, <1>2, <1>3, <1>4, <1>5, DefersGoOn, ActorStays DEF Placed
<1>6. CASE defers[p] = Unpid \/ defers[p] = Unport
  <2>1. defers'[p] \in {Unlock, Unpid} /\ Last(defers[p]) # "unlock"
    BY <1>2, <1>6, DefersGoOn
  <2>2. owner' = owner
    BY <1>1, <2>1 DEF RemovePID, RemoveActivePort, ReleaseLock, Deferred
  <2>3. Placed(p) => Placed(p)'
    BY <1>2, <1>4, <2>1, <2>2 DEF Placed
  <2>4. QED
    BY <1>1, <1>2, <1>3, <1>4, <2>3, ActorStays
<1>7. QED
  BY <1>1, <1>2, <1>3, <1>4, <1>5, <1>6, ActorStays

(* Whoever has gone has nothing.                                           *)
LEMMA GoneStays ==
  ASSUME InstanceInv, NEW p \in Processes, Gone(p), NEW s,
         steps' = [steps EXCEPT ![p] = s] \/ UNCHANGED steps,
         \/ phase' = [phase EXCEPT ![p] = "off"]
         \/ phase' = [phase EXCEPT ![p] = "starting"] /\ steps' = [steps EXCEPT ![p] = RootSteps],
         UNCHANGED <<pidFile, portFile, tokenFile, ask>>, stop' \in {stop, NoProcess},
         UNCHANGED tally \/ tally' = [tally EXCEPT !.starts = @ + 1]
  PROVE  InstanceInv'
<1>1. /\ owner' = IF owner = p THEN NoProcess ELSE owner
      /\ bound' = [bound EXCEPT ![p] = 0] /\ accepts' = [accepts EXCEPT ![p] = NoToken]
      /\ defers' = [defers EXCEPT ![p] = <<>>]
  BY DEF Gone
<1>2. /\ phase'[p] = "off" \/ (phase'[p] = "starting" /\ steps'[p] = RootSteps)
      /\ defers'[p] = <<>>
      /\ ProcessTypes' /\ \A q \in Processes \ {p} : SameProcess(q)
  BY <1>1 DEF InstanceInv, ProcessTypes, IsOfProcesses, SameProcess
<1>3. RecordTypes' /\ tally'.spawns = tally.spawns /\ tally'.asks = tally.asks
  BY <1>1 DEF InstanceInv, RecordTypes
<1>4. Placed(p)'
  BY <1>2 DEF Placed, NothingDone
<1>5. FilesStay \/ owner = p
  BY <1>1, <1>3 DEF FilesStay
<1>6. QED
  BY <1>2, <1>3, <1>4, <1>5, ActorStays

LEMMA ProcessEndStays ==
  ASSUME InstanceInv, NEW p \in Processes, Exit(p) \/ Kill(p) \/ PerformRestart(p)
  PROVE  InstanceInv'
<1>1. CASE Exit(p)
  BY <1>1, GoneStays DEF Exit, files, commands
<1>2. CASE Kill(p)
  BY <1>2, GoneStays DEF Kill, Killed, files, commands
<1>3. CASE PerformRestart(p)
  BY <1>3, GoneStays DEF PerformRestart, Tally, files, commands
<1>4. QED
  BY <1>1, <1>2, <1>3

(* From then on nothing is said of the files.                              *)
LEMMA SpawnRestartStays ==
  ASSUME InstanceInv, NEW p \in Processes, SpawnRestart(p)
  PROVE  InstanceInv'
<1>1. /\ tally' = [tally EXCEPT !.spawns = @ + 1]
      /\ owner' = IF owner = p THEN NoProcess ELSE owner
      /\ UNCHANGED <<defers, bound, accepts, pidFile, portFile, tokenFile, stop, ask>>
  BY DEF SpawnRestart, Tally, files, commands
<1>2. PICK q \in Processes :
        /\ phase' = [phase EXCEPT ![p] = "leaving", ![q] = "starting"]
        /\ steps' = [steps EXCEPT ![p] = <<>>, ![q] = RootSteps]
  BY DEF SpawnRestart
<1>3. ProcessTypes'
  BY <1>1, <1>2 DEF InstanceInv, ProcessTypes, IsOfProcesses
<1>4. RecordTypes' /\ tally'.spawns # 0
  BY <1>1 DEF InstanceInv, RecordTypes
<1>5. QED
  BY <1>3, <1>4 DEF InstanceInv

-----------------------------------------------------------------------------
(* Commands.                                                               *)
LEMMA CommandsStay ==
  ASSUME InstanceInv,
         UNCHANGED <<phase, steps, defers, owner, bound, accepts, pidFile, portFile>>,
         RecordTypes', tally'.spawns = tally.spawns,
         tally'.asks = 0 => tally.asks = 0 /\ UNCHANGED tokenFile
  PROVE  InstanceInv'
<1>1. ProcessTypes'
  BY DEF InstanceInv, ProcessTypes, IsOfProcesses
<1>2. ASSUME tally'.spawns = 0, NEW q \in Processes
      PROVE  Placed(q)'
  <2>1. Placed(q)
    BY <1>2 DEF InstanceInv
  <2>2. QED
    BY <2>1, OthersStay
<1>3. QED
  BY <1>1, <1>2 DEF InstanceInv

LEMMA StopSignalsStays == InstanceInv /\ StopSignals => InstanceInv'
<1> SUFFICES ASSUME InstanceInv, StopSignals
             PROVE  InstanceInv'
  OBVIOUS
<1>1. /\ stop \in Processes /\ stop' = NoProcess
      /\ UNCHANGED <<pidFile, portFile, tokenFile, ask, tally>>
  BY DEF StopSignals, files, InstanceInv, RecordTypes
<1>2. CASE phase[stop] = "running" /\ phase' = [phase EXCEPT ![stop] = "stopping"]
           /\ UNCHANGED <<steps, defers, owner, bound, accepts>>
  <2>1. PICK p \in Processes : p = stop
    BY <1>1
  <2>2. /\ phase'[p] = "stopping"
        /\ ProcessTypes' /\ \A q \in Processes \ {p} : SameProcess(q)
    BY <1>2, <2>1 DEF InstanceInv, ProcessTypes, IsOfProcesses, SameProcess
  <2>3. RecordTypes' /\ FilesStay
    BY <1>1, <1>2 DEF InstanceInv, RecordTypes, FilesStay
  <2>4. Placed(p) => Placed(p)'
    BY <1>1, <1>2, <2>1, <2>2 DEF Placed
  <2>5. QED
    BY <1>1, <2>2, <2>3, <2>4, ActorStays
<1>3. CASE Killed(stop)
  BY <1>1, <1>3, GoneStays DEF Killed
<1>4. CASE UNCHANGED <<phase, steps, defers, owner, bound, accepts>>
  <2>1. RecordTypes'
    BY <1>1, <1>4 DEF InstanceInv, RecordTypes
  <2>2. QED
    BY <1>1, <1>4, <2>1, CommandsStay
<1>5. QED
  BY <1>2, <1>3, <1>4 DEF StopSignals

LEMMA StopReadsStays == InstanceInv /\ StopReads => InstanceInv'
<1> SUFFICES ASSUME InstanceInv, StopReads
             PROVE  InstanceInv'
  OBVIOUS
<1>1. /\ tally' = [tally EXCEPT !.stops = @ + 1] /\ stop' = pidFile
      /\ UNCHANGED <<phase, steps, defers, owner, bound, accepts, pidFile, portFile, tokenFile, ask>>
  BY DEF StopReads, Tally, files
<1>2. RecordTypes' /\ tally'.spawns = tally.spawns /\ tally'.asks = tally.asks
  BY <1>1 DEF InstanceInv, RecordTypes
<1>3. QED
  BY <1>1, <1>2, CommandsStay

LEMMA AskStays == InstanceInv /\ (AskToken \/ AskWrites) => InstanceInv'
<1> SUFFICES ASSUME InstanceInv, AskToken \/ AskWrites
             PROVE  InstanceInv'
  OBVIOUS
<1>1. UNCHANGED <<phase, steps, defers, owner, bound, accepts, pidFile, portFile, stop>>
  BY DEF AskToken, AskWrites, files
<1>2. CASE AskToken
  <2>1. tally' = [tally EXCEPT !.asks = @ + 1] /\ ask' = TRUE
    BY <1>2 DEF AskToken, Tally
  <2>2. RecordTypes' /\ tally'.spawns = tally.spawns /\ tally'.asks # 0
    BY <1>1, <2>1 DEF InstanceInv, RecordTypes
  <2>3. QED
    BY <1>1, <2>2, CommandsStay
<1>3. CASE AskWrites
  <2>1. ask /\ ask' = FALSE /\ UNCHANGED tally
    BY <1>3 DEF AskWrites
  <2>2. RecordTypes' /\ tally'.asks # 0
    BY <1>1, <2>1 DEF InstanceInv, RecordTypes
  <2>3. QED
    BY <1>1, <2>1, <2>2, CommandsStay
<1>4. QED
  BY <1>2, <1>3

LEMMA InstanceStep ==
  ASSUME Attended, InstanceInv, [InstanceNext]_instanceVars
  PROVE  InstanceInv'
<1>1. CASE UNCHANGED instanceVars
  <2>1. RecordTypes'
    BY <1>1 DEF instanceVars, files, commands, InstanceInv, RecordTypes
  <2>2. QED
    BY <1>1, <2>1, CommandsStay DEF instanceVars, files, commands
<1>2. ASSUME NEW p \in Processes, InitializeGlobalState(p) \/ EnsureService(p)
      PROVE  InstanceInv'
  BY <1>2, GoOnOrLeaveStays DEF InitializeGlobalState, EnsureService
<1>3. QED
  BY <1>1, <1>2, StartStays, AcquireLockStays, SavePIDStays, BindStays, SaveActivePortStays,
     TokenStays, EndsStays, ShutdownReturnsStays, UnwindStays, ProcessEndStays, SpawnRestartStays,
     StopReadsStays, StopSignalsStays, AskStays DEF InstanceNext

LEMMA InstanceStart == InstanceInit => InstanceInv
<1> SUFFICES ASSUME InstanceInit
             PROVE  InstanceInv
  OBVIOUS
<1>1. ProcessTypes
  BY DEF InstanceInit, ProcessTypes, IsOfProcesses
<1>2. RecordTypes
  BY DEF InstanceInit, RecordTypes
<1>3. \A p \in Processes : Placed(p)
  BY DEF InstanceInit, Placed
<1>4. QED
  BY <1>1, <1>2, <1>3 DEF InstanceInv

(* For any number of processes, and any number of kills, restarts and      *)
(* commands between their steps, the files name the one process that runs, *)
(* if no restart on Windows has spawned another; the desktop window, which *)
(* takes no lock, is left aside (root.go:454-476, server.go:33-72).        *)
THEOREM FilesAlwaysNameTheOwner == Attended => (InstanceSpec => []FilesNameTheOwner)
<1>1. InstanceInit => InstanceInv
  BY InstanceStart
<1>2. Attended /\ InstanceInv /\ [InstanceNext]_instanceVars => InstanceInv'
  BY InstanceStep
<1>3. InstanceInv => FilesNameTheOwner
  BY DEF InstanceInv, Placed, FilesNameTheOwner
<1>4. ASSUME Attended
      PROVE  InstanceSpec => []FilesNameTheOwner
  <2>1. InstanceInv /\ [InstanceNext]_instanceVars => InstanceInv'
    BY <1>2, <1>4
  <2>2. QED
    BY <1>1, <1>3, <2>1, PTL DEF InstanceSpec
<1>5. QED
  BY <1>4

-----------------------------------------------------------------------------
(* The watcher.                                                            *)

ExitTypes ==
  /\ place \in [AllDownloads ->
                  {"named", "stored", "asked", "pool", "paused", "ended", "refused"}]
  /\ pendingEnqueue \in {0, 1}
  /\ watch \in {"wait", "pending", "active", "pool", "fired"}

(* Who is where at first: only a download of the command line is ever      *)
(* "named", only another of the database is ever "stored".                 *)
InPlace ==
  \A d \in AllDownloads :
    /\ place[d] = "named" => d \in Named
    /\ place[d] = "stored" => d \in Stored \ Named

(* What each counter that the watcher has passed stands for.               *)
Passed ==
  /\ pendingEnqueue = 0 => \A d \in Named : place[d] # "named"
  /\ ui = "server" /\ watch # "wait" => \A d \in Stored : place[d] # "stored"
  /\ watch \in {"active", "pool"} => pendingEnqueue = 0

ExitInv == ExitTypes /\ InPlace /\ Passed

(* Nobody goes back: a download that was taken up is not "named" again.    *)
LEMMA ExitStep ==
  ASSUME ExitInv, [ExitNext]_exitVars
  PROVE  ExitInv'
<1> USE DEF AllDownloads
<1>1. CASE UNCHANGED exitVars
  BY <1>1 DEF exitVars, ExitInv, ExitTypes, InPlace, Passed
<1>2. ASSUME NEW d \in AllDownloads,
             place' = [place EXCEPT ![d] = "pool"] \/ place' = [place EXCEPT ![d] = "refused"]
               \/ place' = [place EXCEPT ![d] = "ended"] \/ place' = [place EXCEPT ![d] = "paused"],
             UNCHANGED <<ui, pendingEnqueue, watch>>
      PROVE  ExitInv'
  BY <1>2 DEF ExitInv, ExitTypes, InPlace, Passed
<1>3. ASSUME UNCHANGED <<ui, place, pendingEnqueue, watch>>
      PROVE  ExitInv'
  BY <1>3 DEF ExitInv, ExitTypes, InPlace, Passed
<1>4. CASE StartHeadlessConsumer
  BY <1>3, <1>4 DEF StartHeadlessConsumer
<1>5. CASE ProcessDownloads
  BY <1>2, <1>5 DEF ProcessDownloads, Accepted, Refused
<1>6. CASE QueueEnds
  BY <1>6 DEF QueueEnds, ExitInv, ExitTypes, InPlace, Passed
<1>7. ASSUME NEW d \in AllDownloads, HandleDownload(d)
      PROVE  ExitInv'
  BY <1>2, <1>7 DEF HandleDownload, Accepted, Refused
<1>8. ASSUME NEW d \in AllDownloads, ResumePausedDownloads(d)
      PROVE  ExitInv'
  BY <1>2, <1>8 DEF ResumePausedDownloads
<1>9. ASSUME NEW d \in AllDownloads, CountActive(d)
      PROVE  ExitInv'
  BY <1>3, <1>9 DEF CountActive
<1>10. ASSUME NEW d \in AllDownloads, PoolEnds(d) \/ PoolPauses(d)
       PROVE  ExitInv'
  BY <1>2, <1>10 DEF PoolEnds, PoolPauses
<1>11. CASE Consume
  BY <1>3, <1>11 DEF Consume
<1>12. CASE StartWatch
  BY <1>12 DEF StartWatch, Look, ExitInv, ExitTypes, InPlace, Passed
<1>13. CASE LookPending
  BY <1>13 DEF LookPending, Look, ExitInv, ExitTypes, InPlace, Passed
<1>14. CASE LookActive \/ LookPool
  BY <1>14 DEF LookActive, LookPool, Look, ExitInv, ExitTypes, InPlace, Passed
<1>15. QED
  BY <1>1, <1>4, <1>5, <1>6, <1>7, <1>8, <1>9, <1>10, <1>11, <1>12, <1>13, <1>14 DEF ExitNext

(* Only the look at the pool decides to exit, and it comes after the look  *)
(* at the enqueue count.                                                   *)
LEMMA ExitSafeStep ==
  ASSUME ExitInv, [ExitNext]_exitVars, watch # "fired", watch' = "fired"
  PROVE  \A d \in Named \cup (IF ui = "server" THEN Stored ELSE {}) :
           place[d] \notin {"named", "stored", "pool"}
<1>1. watch = "pool" /\ \A d \in AllDownloads : place[d] # "pool"
  BY DEF ExitNext, exitVars, StartHeadlessConsumer, ProcessDownloads, QueueEnds, HandleDownload,
         ResumePausedDownloads, CountActive, PoolEnds, PoolPauses, Consume,
         StartWatch, LookPending, LookActive, LookPool, Look
<1>2. \A d \in AllDownloads : place[d] # "named"
  BY <1>1 DEF ExitInv, InPlace, Passed, AllDownloads
<1>3. \A d \in Stored : ui = "server" => place[d] # "stored"
  BY <1>1 DEF ExitInv, Passed
<1>4. \A d \in Named : place[d] # "stored"
  BY DEF ExitInv, InPlace, AllDownloads
<1>5. QED
  BY <1>1, <1>2, <1>3, <1>4 DEF AllDownloads

LEMMA ExitStart == ExitInit => ExitInv
  BY DEF ExitInit, ExitInv, ExitTypes, InPlace, Passed, AllDownloads, At0

(* The program does not decide to exit while something of the command      *)
(* line, or something a server has resumed, is still to be taken up or     *)
(* downloaded, whatever happens between its three looks (server.go:135-153,*)
(* root.go:523-538).                                                       *)
THEOREM NothingIsEverCutOff == ExitSpec => NothingIsCutOff
<1>1. ExitInit => ExitInv
  BY ExitStart
<1>2. ExitInv /\ [ExitNext]_exitVars => ExitInv'
  BY ExitStep
<1>3. ExitInv /\ [ExitNext]_exitVars
        => (watch # "fired" /\ watch' = "fired" =>
              \A d \in Named \cup (IF ui = "server" THEN Stored ELSE {}) :
                place[d] \notin {"named", "stored", "pool"})
  BY ExitSafeStep
<1>4. QED
  BY <1>1, <1>2, <1>3, PTL DEF ExitSpec, NothingIsCutOff

-----------------------------------------------------------------------------
(* The remote client.                                                      *)
Event == [d : Downloads, s : Statuses]

RemoteTypes ==
  /\ status \in [Downloads -> Statuses]
  /\ shown \in [Downloads -> Statuses \cup {"none"}]
  /\ channel \in Seq(Event) /\ wire \in Seq(Event) /\ listener \in Seq(Event)
  /\ missed \subseteq Downloads
  /\ call \in Event \cup {NoCall}
  /\ loop \in {"idle", "connect", "read", "backoff", "ended"}
  /\ handler \in {"none", "open"}

(* Events are on their way only over a connection that is open.            *)
OverOneConnection == loop # "read" => handler = "none" /\ wire = <<>> /\ listener = <<>>

(* The last event of d in q says s.                                        *)
LastSays(q, d, s) ==
  \E k \in 1 .. Len(q) :
    /\ q[k].d = d /\ q[k].s = s
    /\ \A j \in 1 .. Len(q) : j > k => q[j].d # d

(* The newest thing on its way, or shown, of a download is its status.     *)
Newest(d) ==
  IF d \in Heard(listener) THEN LastSays(listener, d, status[d])
  ELSE IF d \in Heard(wire) THEN LastSays(wire, d, status[d])
  ELSE IF d \in Heard(channel) THEN LastSays(channel, d, status[d])
  ELSE listed => shown[d] = status[d]

RemoteInv == RemoteTypes /\ OverOneConnection /\ \A d \in Downloads \ missed : Newest(d)

(* What an appended event and a removed first one change.                  *)
LEMMA AppendedLast ==
  ASSUME NEW q \in Seq(Event), NEW e \in Event
  PROVE  /\ Append(q, e) \in Seq(Event)
         /\ Heard(Append(q, e)) = Heard(q) \cup {e.d}
         /\ LastSays(Append(q, e), e.d, e.s)
         /\ \A d, s : d # e.d => (LastSays(Append(q, e), d, s) <=> LastSays(q, d, s))
<1> DEFINE r == Append(q, e)
           n == Len(q)
<1>1. /\ r \in Seq(Event) /\ n \in Nat /\ Len(r) = n + 1 /\ r[n + 1] = e
      /\ \A k \in 1 .. n : r[k] = q[k]
      /\ DOMAIN q = 1 .. n /\ DOMAIN r = 1 .. (n + 1)
  OBVIOUS
<1> HIDE DEF r, n
<1>2. Heard(r) = Heard(q) \cup {e.d}
  <2>1. ASSUME NEW x \in Heard(r)
        PROVE  x \in Heard(q) \cup {e.d}
    <3>1. PICK k \in 1 .. (n + 1) : x = r[k].d
      BY <1>1, <2>1 DEF Heard
    <3>2. CASE k = n + 1
      BY <1>1, <3>1, <3>2
    <3>3. CASE k \in 1 .. n
      BY <1>1, <3>1, <3>3 DEF Heard
    <3>4. QED
      BY <1>1, <3>1, <3>2, <3>3
  <2>2. ASSUME NEW x \in Heard(q)
        PROVE  x \in Heard(r)
    <3>1. PICK k \in 1 .. n : x = q[k].d
      BY <1>1, <2>2 DEF Heard
    <3>2. k \in 1 .. (n + 1) /\ r[k].d = x
      BY <1>1, <3>1
    <3>3. QED
      BY <1>1, <3>2 DEF Heard
  <2>3. e.d \in Heard(r)
    <3>1. n + 1 \in 1 .. (n + 1) /\ r[n + 1].d = e.d
      BY <1>1
    <3>2. QED
      BY <1>1, <3>1 DEF Heard
  <2>4. QED
    BY <2>1, <2>2, <2>3
<1>3. LastSays(r, e.d, e.s)
  <2>1. n + 1 \in 1 .. Len(r) /\ r[n + 1].d = e.d /\ r[n + 1].s = e.s
    BY <1>1
  <2>2. \A j \in 1 .. Len(r) : ~(j > n + 1)
    BY <1>1
  <2>3. QED
    BY <2>1, <2>2 DEF LastSays
<1>4. ASSUME NEW d, NEW s, d # e.d
      PROVE  LastSays(r, d, s) <=> LastSays(q, d, s)
  <2>1. ASSUME LastSays(r, d, s)
        PROVE  LastSays(q, d, s)
    <3>1. PICK k \in 1 .. Len(r) : /\ r[k].d = d /\ r[k].s = s
                                   /\ \A j \in 1 .. Len(r) : j > k => r[j].d # d
      BY <2>1 DEF LastSays
    <3>2. k # n + 1
      BY <1>1, <1>4, <3>1
    <3>3. k \in 1 .. n /\ q[k].d = d /\ q[k].s = s
      BY <1>1, <3>1, <3>2
    <3>4. \A j \in 1 .. n : j > k => q[j].d # d
      BY <1>1, <3>1
    <3>5. QED
      BY <3>3, <3>4 DEF LastSays, n
  <2>2. ASSUME LastSays(q, d, s)
        PROVE  LastSays(r, d, s)
    <3>1. PICK k \in 1 .. n : /\ q[k].d = d /\ q[k].s = s
                              /\ \A j \in 1 .. n : j > k => q[j].d # d
      BY <2>2 DEF LastSays, n
    <3>2. k \in 1 .. Len(r) /\ r[k].d = d /\ r[k].s = s
      BY <1>1, <3>1
    <3>3. \A j \in 1 .. Len(r) : j > k => r[j].d # d
      BY <1>1, <1>4, <3>1
    <3>4. QED
      BY <3>2, <3>3 DEF LastSays
  <2>3. QED
    BY <2>1, <2>2
<1>5. QED
  BY <1>1, <1>2, <1>3, <1>4 DEF r

LEMMA FirstGone ==
  ASSUME NEW q \in Seq(Event), q # <<>>
  PROVE  /\ Head(q) \in Event /\ Tail(q) \in Seq(Event)
         /\ Heard(q) = Heard(Tail(q)) \cup {Head(q).d}
         /\ \A d, s : d \in Heard(Tail(q)) => (LastSays(q, d, s) <=> LastSays(Tail(q), d, s))
         /\ \A s : Head(q).d \notin Heard(Tail(q)) /\ LastSays(q, Head(q).d, s) => s = Head(q).s
<1> DEFINE t == Tail(q)
           h == Head(q)
           n == Len(q)
<1>1. /\ n \in Nat \ {0} /\ t \in Seq(Event) /\ Len(t) = n - 1
      /\ h = q[1] /\ h \in Event
      /\ \A k \in 1 .. (n - 1) : t[k] = q[k + 1]
      /\ DOMAIN q = 1 .. n /\ DOMAIN t = 1 .. (n - 1)
  OBVIOUS
<1> HIDE DEF t, h, n
<1>2. Heard(q) = Heard(t) \cup {h.d}
  <2>1. ASSUME NEW x \in Heard(q)
        PROVE  x \in Heard(t) \cup {h.d}
    <3>1. PICK k \in 1 .. n : x = q[k].d
      BY <1>1, <2>1 DEF Heard
    <3>2. CASE k = 1
      BY <1>1, <3>1, <3>2
    <3>3. CASE k # 1
      <4>1. k - 1 \in 1 .. (n - 1) /\ (k - 1) + 1 = k
        BY <1>1, <3>1, <3>3
      <4>2. t[k - 1].d = x
        BY <1>1, <3>1, <4>1
      <4>3. QED
        BY <1>1, <4>1, <4>2 DEF Heard
    <3>4. QED
      BY <3>2, <3>3
  <2>2. ASSUME NEW x \in Heard(t)
        PROVE  x \in Heard(q)
    <3>1. PICK k \in 1 .. (n - 1) : x = t[k].d
      BY <1>1, <2>2 DEF Heard
    <3>2. k + 1 \in 1 .. n /\ q[k + 1].d = x
      BY <1>1, <3>1
    <3>3. QED
      BY <1>1, <3>2 DEF Heard
  <2>3. h.d \in Heard(q)
    <3>1. 1 \in 1 .. n /\ q[1].d = h.d
      BY <1>1
    <3>2. QED
      BY <1>1, <3>1 DEF Heard
  <2>4. QED
    BY <2>1, <2>2, <2>3
<1>3. ASSUME NEW d, NEW s, d \in Heard(t)
      PROVE  LastSays(q, d, s) <=> LastSays(t, d, s)
  <2>1. PICK i \in 1 .. (n - 1) : t[i].d = d
    BY <1>1, <1>3 DEF Heard
  <2>2. ASSUME LastSays(q, d, s)
        PROVE  LastSays(t, d, s)
    <3>1. PICK k \in 1 .. n : /\ q[k].d = d /\ q[k].s = s
                              /\ \A j \in 1 .. n : j > k => q[j].d # d
      BY <2>2 DEF LastSays, n
    <3>2. i + 1 \in 1 .. n /\ q[i + 1].d = d
      BY <1>1, <2>1
    <3>3. k # 1
      BY <1>1, <3>1, <3>2
    <3>4. k - 1 \in 1 .. (n - 1) /\ (k - 1) + 1 = k
      BY <1>1, <3>1, <3>3
    <3>5. t[k - 1].d = d /\ t[k - 1].s = s
      BY <1>1, <3>1, <3>4
    <3>6. \A j \in 1 .. (n - 1) : j > k - 1 => t[j].d # d
      BY <1>1, <3>1
    <3>7. QED
      BY <1>1, <3>4, <3>5, <3>6 DEF LastSays
  <2>3. ASSUME LastSays(t, d, s)
        PROVE  LastSays(q, d, s)
    <3>1. PICK k \in 1 .. (n - 1) : /\ t[k].d = d /\ t[k].s = s
                                    /\ \A j \in 1 .. (n - 1) : j > k => t[j].d # d
      BY <1>1, <2>3 DEF LastSays
    <3>2. k + 1 \in 1 .. n /\ q[k + 1].d = d /\ q[k + 1].s = s
      BY <1>1, <3>1
    <3>3. ASSUME NEW j \in 1 .. n, j > k + 1
          PROVE  q[j].d # d
      <4>1. j - 1 \in 1 .. (n - 1) /\ (j - 1) + 1 = j /\ j - 1 > k
        BY <1>1, <3>1, <3>3
      <4>2. t[j - 1] = q[j] /\ t[j - 1].d # d
        BY <1>1, <3>1, <4>1
      <4>3. QED
        BY <4>2
    <3>4. QED
      BY <3>2, <3>3 DEF LastSays, n
  <2>4. QED
    BY <2>2, <2>3
<1>4. ASSUME NEW s, h.d \notin Heard(t), LastSays(q, h.d, s)
      PROVE  s = h.s
  <2>1. PICK k \in 1 .. n : q[k].d = h.d /\ q[k].s = s
    BY <1>4 DEF LastSays, n
  <2>2. CASE k = 1
    BY <1>1, <2>1, <2>2
  <2>3. CASE k # 1
    <3>1. k - 1 \in 1 .. (n - 1) /\ (k - 1) + 1 = k
      BY <1>1, <2>1, <2>3
    <3>2. t[k - 1].d = h.d
      BY <1>1, <2>1, <3>1
    <3>3. h.d \in Heard(t)
      BY <1>1, <3>1, <3>2 DEF Heard
    <3>4. QED
      BY <1>4, <3>3
  <2>4. QED
    BY <2>2, <2>3
<1>5. QED
  BY <1>1, <1>2, <1>3, <1>4 DEF t, h

LEMMA NothingHeard == Heard(<<>>) = {}
  BY DEF Heard

(* A change of status: its event is the newest there is, or is missed.     *)
LEMMA ChangeStays ==
  ASSUME RemoteInv, NEW x \in Downloads, NEW s \in Statuses, Changes(x, s),
         UNCHANGED <<handler, wire, channel, loop, shown, listed>>,
         call' \in Event \cup {NoCall}
  PROVE  RemoteInv'
<1>1. status' = [status EXCEPT ![x] = s] /\ status' \in [Downloads -> Statuses]
  BY DEF Changes, RemoteInv, RemoteTypes
<1>2. \A d \in Downloads : d # x => status'[d] = status[d]
  BY <1>1 DEF RemoteInv, RemoteTypes
<1>3. status'[x] = s
  BY <1>1 DEF RemoteInv, RemoteTypes
<1>4. CASE handler = "open" /\ Len(listener) < ListenerCap
           /\ listener' = Append(listener, [d |-> x, s |-> s]) /\ UNCHANGED missed
           /\ loop = "read"
  <2> DEFINE e == [d |-> x, s |-> s]
  <2>1. e \in Event /\ e.d = x /\ e.s = s
    BY DEF Event
  <2>2. listener \in Seq(Event)
    BY DEF RemoteInv, RemoteTypes
  <2>3. /\ listener' \in Seq(Event)
        /\ Heard(listener') = Heard(listener) \cup {x}
        /\ LastSays(listener', x, s)
        /\ \A d, v : d # x => (LastSays(listener', d, v) <=> LastSays(listener, d, v))
    BY <1>4, <2>1, <2>2, AppendedLast
  <2>4. RemoteTypes'
    BY <1>1, <1>4, <2>3 DEF RemoteInv, RemoteTypes
  <2>5. OverOneConnection'
    BY <1>4 DEF RemoteInv, OverOneConnection
  <2>6. ASSUME NEW d \in Downloads, d \notin missed
        PROVE  Newest(d)'
    <3>1. CASE d = x
      BY <1>3, <2>3, <3>1 DEF Newest
    <3>2. CASE d # x
      BY <1>2, <1>4, <2>3, <2>6, <3>2 DEF Newest, RemoteInv
    <3>3. QED
      BY <3>1, <3>2
  <2>7. QED
    BY <1>4, <2>4, <2>5, <2>6 DEF RemoteInv
<1>5. CASE missed' = missed \cup {x} /\ UNCHANGED listener
  <2>1. RemoteTypes'
    BY <1>1, <1>5 DEF RemoteInv, RemoteTypes
  <2>2. OverOneConnection'
    BY <1>5 DEF OverOneConnection, RemoteInv
  <2>3. ASSUME NEW d \in Downloads, d \notin missed, d # x
        PROVE  Newest(d)'
    BY <1>2, <1>5, <2>3 DEF Newest, RemoteInv
  <2>4. QED
    BY <1>5, <2>1, <2>2, <2>3 DEF RemoteInv
<1>6. handler = "open" => loop = "read"
  BY DEF RemoteInv, OverOneConnection
<1>7. QED
  BY <1>4, <1>5, <1>6 DEF Changes, Publish

(* An event goes from the handler's listener onto the wire.                *)
LEMMA EventsHandlerStays == RemoteInv /\ EventsHandler => RemoteInv'
<1> SUFFICES ASSUME RemoteInv, EventsHandler
             PROVE  RemoteInv'
  OBVIOUS
<1> DEFINE e == Head(listener)
<1>1. /\ listener \in Seq(Event) /\ listener # <<>> /\ wire \in Seq(Event)
      /\ wire' = Append(wire, e) /\ listener' = Tail(listener)
      /\ handler = "open" /\ loop = "read"
      /\ UNCHANGED <<status, handler, channel, loop, shown, listed, missed, call>>
  BY DEF EventsHandler, RemoteInv, RemoteTypes, OverOneConnection, client
<1>2. /\ e \in Event /\ listener' \in Seq(Event)
      /\ Heard(listener) = Heard(listener') \cup {e.d}
      /\ \A d, s : d \in Heard(listener') => (LastSays(listener, d, s) <=> LastSays(listener', d, s))
      /\ \A s : e.d \notin Heard(listener') /\ LastSays(listener, e.d, s) => s = e.s
  BY <1>1, FirstGone
<1>3. /\ wire' \in Seq(Event)
      /\ Heard(wire') = Heard(wire) \cup {e.d}
      /\ LastSays(wire', e.d, e.s)
      /\ \A d, s : d # e.d => (LastSays(wire', d, s) <=> LastSays(wire, d, s))
  BY <1>1, <1>2, AppendedLast
<1> HIDE DEF e
<1>4. RemoteTypes'
  BY <1>1, <1>2, <1>3 DEF RemoteInv, RemoteTypes
<1>5. OverOneConnection'
  BY <1>1 DEF OverOneConnection
<1>6. ASSUME NEW d \in Downloads, d \notin missed
      PROVE  Newest(d)'
  <2>1. Newest(d)
    BY <1>6 DEF RemoteInv
  <2>2. CASE d \in Heard(listener')
    BY <1>1, <1>2, <2>1, <2>2 DEF Newest
  <2>3. CASE d \notin Heard(listener') /\ d = e.d
    <3>1. status[d] = e.s
      BY <1>2, <2>1, <2>3 DEF Newest
    <3>2. QED
      BY <1>1, <1>3, <2>3, <3>1 DEF Newest
  <2>4. CASE d \notin Heard(listener') /\ d # e.d
    BY <1>1, <1>2, <1>3, <2>1, <2>4 DEF Newest
  <2>5. QED
    BY <2>2, <2>3, <2>4
<1>7. QED
  BY <1>1, <1>4, <1>5, <1>6 DEF RemoteInv

(* A frame goes from the wire into the channel, or its download is missed. *)
LEMMA ReadFrameStays == RemoteInv /\ ReadFrame => RemoteInv'
<1> SUFFICES ASSUME RemoteInv, ReadFrame
             PROVE  RemoteInv'
  OBVIOUS
<1> DEFINE e == Head(wire)
<1>1. /\ wire \in Seq(Event) /\ wire # <<>> /\ channel \in Seq(Event)
      /\ wire' = Tail(wire) /\ loop = "read"
      /\ UNCHANGED <<status, handler, listener, loop, shown, listed, call>>
      /\ \/ channel' = Append(channel, e) /\ UNCHANGED missed
         \/ missed' = missed \cup {e.d} /\ UNCHANGED channel
  <2>1. wire \in Seq(Event) /\ wire # <<>>
    BY DEF ReadFrame, RemoteInv, RemoteTypes
  <2>2. e \in Event
    BY <2>1
  <2>3. Decodes(e)
    BY <2>2 DEF Decodes, Event
  <2>4. QED
    BY <2>1, <2>3 DEF ReadFrame, RemoteInv, RemoteTypes, server
<1>2. /\ e \in Event /\ wire' \in Seq(Event)
      /\ Heard(wire) = Heard(wire') \cup {e.d}
      /\ \A d, s : d \in Heard(wire') => (LastSays(wire, d, s) <=> LastSays(wire', d, s))
      /\ \A s : e.d \notin Heard(wire') /\ LastSays(wire, e.d, s) => s = e.s
  BY <1>1, FirstGone
<1>3. /\ Append(channel, e) \in Seq(Event)
      /\ Heard(Append(channel, e)) = Heard(channel) \cup {e.d}
      /\ LastSays(Append(channel, e), e.d, e.s)
      /\ \A d, s : d # e.d => (LastSays(Append(channel, e), d, s) <=> LastSays(channel, d, s))
  BY <1>1, <1>2, AppendedLast
<1> HIDE DEF e
<1>4. RemoteTypes'
  BY <1>1, <1>2, <1>3 DEF RemoteInv, RemoteTypes, Event
<1>5. OverOneConnection'
  BY <1>1 DEF OverOneConnection
<1>6. ASSUME NEW d \in Downloads, d \notin missed'
      PROVE  Newest(d)'
  <2>1. Newest(d)
    BY <1>1, <1>6 DEF RemoteInv
  <2>2. CASE d \in Heard(listener)
    BY <1>1, <2>1, <2>2 DEF Newest
  <2>3. CASE d \notin Heard(listener) /\ d \in Heard(wire')
    BY <1>1, <1>2, <2>1, <2>3 DEF Newest
  <2>4. CASE d \notin Heard(listener) /\ d \notin Heard(wire') /\ d = e.d
    <3>1. status[d] = e.s
      BY <1>2, <2>1, <2>4 DEF Newest
    <3>2. channel' = Append(channel, e)
      BY <1>1, <1>6, <2>4
    <3>3. QED
      BY <1>1, <1>3, <2>4, <3>1, <3>2 DEF Newest
  <2>5. CASE d \notin Heard(listener) /\ d \notin Heard(wire') /\ d # e.d
    <3>1. d \notin Heard(wire)
      BY <1>2, <2>5
    <3>2. CASE channel' = channel
      BY <1>1, <2>1, <2>5, <3>1, <3>2 DEF Newest
    <3>3. CASE channel' = Append(channel, e)
      <4>1. /\ d \in Heard(channel') <=> d \in Heard(channel)
            /\ LastSays(channel', d, status[d]) <=> LastSays(channel, d, status[d])
        BY <1>3, <2>5, <3>3
      <4>2. QED
        BY <1>1, <2>1, <2>5, <3>1, <4>1 DEF Newest
    <3>4. QED
      BY <1>1, <3>2, <3>3
  <2>6. QED
    BY <2>2, <2>3, <2>4, <2>5
<1>7. QED
  BY <1>1, <1>4, <1>5, <1>6 DEF RemoteInv

(* The interface shows the first event of the channel.                     *)
LEMMA ReceiveStays == RemoteInv /\ Receive => RemoteInv'
<1> SUFFICES ASSUME RemoteInv, Receive
             PROVE  RemoteInv'
  OBVIOUS
<1> DEFINE e == Head(channel)
<1>1. /\ channel \in Seq(Event) /\ channel # <<>> /\ channel' = Tail(channel) /\ listed
      /\ shown' = [shown EXCEPT ![e.d] = e.s]
      /\ UNCHANGED <<status, handler, listener, wire, loop, listed, missed, call>>
  BY DEF Receive, RemoteInv, RemoteTypes, server
<1>2. /\ e \in Event /\ channel' \in Seq(Event)
      /\ Heard(channel) = Heard(channel') \cup {e.d}
      /\ \A d, s : d \in Heard(channel') => (LastSays(channel, d, s) <=> LastSays(channel', d, s))
      /\ \A s : e.d \notin Heard(channel') /\ LastSays(channel, e.d, s) => s = e.s
  BY <1>1, FirstGone
<1> HIDE DEF e
<1>3. e.d \in Downloads /\ e.s \in Statuses
  BY <1>2 DEF Event
<1>4. RemoteTypes'
  BY <1>1, <1>2, <1>3 DEF RemoteInv, RemoteTypes
<1>5. OverOneConnection'
  BY <1>1 DEF OverOneConnection, RemoteInv
<1>6. ASSUME NEW d \in Downloads, d \notin missed
      PROVE  Newest(d)'
  <2>1. Newest(d)
    BY <1>6 DEF RemoteInv
  <2>2. CASE d \in Heard(listener) \/ d \in Heard(wire) \/ d \in Heard(channel')
    BY <1>1, <1>2, <2>1, <2>2 DEF Newest
  <2>3. CASE d \notin Heard(listener) /\ d \notin Heard(wire) /\ d \notin Heard(channel') /\ d = e.d
    <3>1. status[d] = e.s
      BY <1>2, <2>1, <2>3 DEF Newest
    <3>2. shown'[d] = e.s
      BY <1>1, <2>3 DEF RemoteInv, RemoteTypes
    <3>3. QED
      BY <1>1, <2>3, <3>1, <3>2 DEF Newest
  <2>4. CASE d \notin Heard(listener) /\ d \notin Heard(wire) /\ d \notin Heard(channel') /\ d # e.d
    <3>1. shown'[d] = shown[d]
      BY <1>1, <2>4 DEF RemoteInv, RemoteTypes
    <3>2. QED
      BY <1>1, <1>2, <2>1, <2>4, <3>1 DEF Newest
  <2>5. QED
    BY <2>2, <2>3, <2>4
<1>7. QED
  BY <1>1, <1>4, <1>5, <1>6 DEF RemoteInv

(* The list is the newest thing there is of what has no event under way.   *)
LEMMA ListStays == RemoteInv /\ List => RemoteInv'
<1> SUFFICES ASSUME RemoteInv, List
             PROVE  RemoteInv'
  OBVIOUS
<1>1. /\ listed' = TRUE /\ shown' = status /\ missed' = missed \cap UnderWay
      /\ UNCHANGED <<status, handler, listener, wire, channel, loop, call>>
  BY DEF List, server, client
<1>2. RemoteTypes'
  BY <1>1 DEF RemoteInv, RemoteTypes
<1>3. OverOneConnection'
  BY <1>1 DEF OverOneConnection, RemoteInv
<1>4. ASSUME NEW d \in Downloads, d \notin missed'
      PROVE  Newest(d)'
  <2>1. CASE d \in UnderWay
    <3>1. Newest(d)
      BY <1>1, <1>4, <2>1 DEF RemoteInv
    <3>2. QED
      BY <1>1, <2>1, <3>1 DEF Newest, UnderWay
  <2>2. CASE d \notin UnderWay
    BY <1>1, <2>2 DEF Newest, UnderWay
  <2>3. QED
    BY <2>1, <2>2
<1>5. QED
  BY <1>2, <1>3, <1>4 DEF RemoteInv

(* A broken or ended connection loses what it had.                         *)
LEMMA DisconnectedStays ==
  ASSUME RemoteInv, Disconnected, loop' # "read",
         loop' \in {"idle", "connect", "backoff", "ended"},
         UNCHANGED <<status, channel, shown, listed, call>>
  PROVE  RemoteInv'
<1>1. /\ handler' = "none" /\ listener' = <<>> /\ wire' = <<>>
      /\ missed' = missed \cup Heard(wire) \cup Heard(listener)
  BY DEF Disconnected
<1>2. Heard(wire) \subseteq Downloads /\ Heard(listener) \subseteq Downloads
  <2>1. ASSUME NEW q \in Seq(Event), NEW k \in DOMAIN q
        PROVE  q[k].d \in Downloads
    <3>1. q[k] \in Event
      BY <2>1
    <3>2. QED
      BY <3>1 DEF Event
  <2>2. QED
    BY <2>1 DEF Heard, RemoteInv, RemoteTypes
<1>3. RemoteTypes'
  BY <1>1, <1>2 DEF RemoteInv, RemoteTypes
<1>4. OverOneConnection'
  BY <1>1 DEF OverOneConnection
<1>5. ASSUME NEW d \in Downloads, d \notin missed'
      PROVE  Newest(d)'
  <2>1. Newest(d) /\ d \notin Heard(wire) /\ d \notin Heard(listener)
    BY <1>1, <1>5 DEF RemoteInv
  <2>2. QED
    BY <1>1, <2>1, NothingHeard DEF Newest
<1>6. QED
  BY <1>3, <1>4, <1>5 DEF RemoteInv

(* Steps that touch nothing of what is shown and on its way.               *)
LEMMA RestStays ==
  ASSUME RemoteInv, UNCHANGED <<status, listener, wire, channel, shown, listed, missed>>,
         call' \in Event \cup {NoCall},
         \/ UNCHANGED <<loop, handler>>
         \/ loop # "read" /\ loop' \in {"connect", "backoff", "ended"} /\ UNCHANGED handler
         \/ loop # "read" /\ loop' = "read" /\ handler' = "open"
  PROVE  RemoteInv'
<1>1. RemoteTypes'
  BY DEF RemoteInv, RemoteTypes
<1>2. OverOneConnection'
  BY DEF RemoteInv, OverOneConnection
<1>3. ASSUME NEW d \in Downloads, d \notin missed
      PROVE  Newest(d)'
  BY <1>3 DEF RemoteInv, Newest
<1>4. QED
  BY <1>1, <1>2, <1>3 DEF RemoteInv

LEMMA RemoteStep ==
  ASSUME RemoteInv, [RemoteNext]_remoteVars
  PROVE  RemoteInv'
<1>1. call \in Event \cup {NoCall}
  BY DEF RemoteInv, RemoteTypes
<1>2. CASE UNCHANGED remoteVars
  BY <1>1, <1>2, RestStays DEF remoteVars, server, client
<1>3. ASSUME NEW d \in Downloads, Change(d)
      PROVE  RemoteInv'
  <2>1. PICK s \in Statuses : Changes(d, s)
    BY <1>3 DEF Change
  <2>2. UNCHANGED <<handler, wire, channel, loop, shown, listed, call>>
    BY <1>3 DEF Change, client
  <2>3. QED
    BY <1>1, <2>1, <2>2, ChangeStays
<1>4. ASSUME NEW d \in Downloads, DoRequest(d)
      PROVE  RemoteInv'
  <2>1. call' \in Event
    BY <1>4 DEF DoRequest, Event, Wishes, Statuses
  <2>2. QED
    BY <1>4, <2>1, RestStays DEF DoRequest, server, client
<1>5. CASE HandlerReturns
  BY <1>1, <1>5, RestStays DEF HandlerReturns, client
<1>6. CASE StreamEvents
  BY <1>1, <1>6, RestStays DEF StreamEvents, server
<1>7. CASE ConnectSSE
  <2>1. listener = <<>>
    BY <1>7 DEF ConnectSSE, RemoteInv, OverOneConnection
  <2>2. QED
    BY <1>1, <1>7, <2>1, RestStays DEF ConnectSSE
<1>8. CASE ConnectFails \/ Reconnect
  BY <1>1, <1>8, RestStays DEF ConnectFails, Reconnect, server
<1>9. CASE Break
  BY <1>9, DisconnectedStays DEF Break
<1>10. CASE StreamEnds
  <2>1. CASE loop = "read"
    BY <1>10, <2>1, DisconnectedStays DEF StreamEnds
  <2>2. CASE loop # "read"
    BY <1>1, <1>10, <2>2, RestStays DEF StreamEnds
  <2>3. QED
    BY <2>1, <2>2
<1>11. CASE PumpEnds \/ LeaveProgram
  BY <1>1, <1>11, RestStays DEF PumpEnds, LeaveProgram, server, client
<1>12. CASE HandleRequest
  <2>1. call \in Event /\ call.d \in Downloads /\ call.s \in Statuses /\ call' = NoCall
    BY <1>1, <1>12 DEF HandleRequest, Event
  <2>2. UNCHANGED <<handler, wire, channel, loop, shown, listed>>
    BY <1>12 DEF HandleRequest, client
  <2>3. CASE Changes(call.d, call.s)
    BY <2>1, <2>2, <2>3, ChangeStays
  <2>4. CASE UNCHANGED <<status, listener, missed>>
    BY <2>1, <2>2, <2>4, RestStays
  <2>5. QED
    BY <1>12, <2>3, <2>4 DEF HandleRequest
<1>13. CASE RequestBreaks
  BY <1>13, RestStays DEF RequestBreaks, server, client
<1>14. QED
  BY <1>2, <1>3, <1>4, <1>5, <1>6, <1>7, <1>8, <1>9, <1>10, <1>11, <1>12, <1>13,
     EventsHandlerStays, ReadFrameStays, ReceiveStays, ListStays DEF RemoteNext

LEMMA RemoteStart == RemoteInit => RemoteInv
<1> SUFFICES ASSUME RemoteInit
             PROVE  RemoteInv
  OBVIOUS
<1>1. RemoteTypes
  BY DEF RemoteInit, RemoteTypes, Statuses
<1>2. OverOneConnection
  BY DEF RemoteInit, OverOneConnection
<1>3. \A d \in Downloads : Newest(d)
  BY NothingHeard DEF RemoteInit, Newest
<1>4. QED
  BY <1>1, <1>2, <1>3 DEF RemoteInv

(* For any number of downloads, and any capacities: when nothing is under  *)
(* way, what the interface shows of a download whose events were not lost  *)
(* is what the server has, however events, the list and new connections    *)
(* follow each other (remote_service.go:267-293, 371-382).                 *)
THEOREM QuietIsAlwaysCurrent == RemoteSpec => []QuietIsCurrent
<1>1. RemoteInit => RemoteInv
  BY RemoteStart
<1>2. RemoteInv /\ [RemoteNext]_remoteVars => RemoteInv'
  BY RemoteStep
<1>3. RemoteInv => QuietIsCurrent
  BY NothingHeard DEF RemoteInv, Newest, QuietIsCurrent
<1>4. QED
  BY <1>1, <1>2, <1>3, PTL DEF RemoteSpec

-----------------------------------------------------------------------------
(* The time a download has taken.                                          *)

\* The fields of the records, whatever they hold.
StateFields == {"total", "size", "bits", "chunk", "verified", "downloaded", "base", "since", "elapsed"}
RowFields == {"status", "url", "total", "downloaded", "elapsed", "size", "bits"}
PausedFields == {"kind", "url", "downloaded", "elapsed", "tasks", "bits", "size"}
FetchFields == {"off", "stop", "from", "n", "add"}
HasFields(r, F) == r = [x \in F |-> r[x]]

IsState(p) == HasFields(p, StateFields) /\ p.since \in Nat /\ p.elapsed \in Nat
IsRow(r) == HasFields(r, RowFields) /\ r.elapsed \in Nat
IsEvent(e) ==
  \/ e.kind = "started"
  \/ e.kind = "complete" /\ e.elapsed \in Nat
  \/ e.kind = "paused" /\ HasFields(e, PausedFields) /\ e.elapsed \in Nat

Contents(q) == {q[k] : k \in DOMAIN q}

CheckpointTypes ==
  /\ mode \in {"down", "rest", "queued", "run", "pausing", "ending", "single", "done"}
  /\ {now, worked} \subseteq Nat
  /\ ps = NoState \/ (IsState(ps) /\ ps.since <= now)
  /\ IsRow(row)
  /\ sent \in Seq(Contents(sent)) /\ \A e \in Contents(sent) : IsEvent(e)
  /\ fetch = [f \in Fetchers |-> fetch[f]] /\ \A f \in Fetchers : HasFields(fetch[f], FetchFields)
  /\ count \in [fails : Nat, sessions : Nat, kills : Nat, updates : Nat, syncs : Nat]

(* Only a session has connections at work, or a clock that runs; only when *)
(* it is over its last event is on its way, and it must have been stored   *)
(* before another session.                                                 *)
Phases ==
  /\ mode \notin {"run", "pausing"} => \A f \in Fetchers : fetch[f] = IdleFetch
  /\ \A f \in Fetchers : fetch[f].add # -1 => fetch[f].n # 0
  /\ mode \in {"queued", "run", "pausing", "ending", "single", "done"} => ps # NoState
  /\ mode = "down" => ps = NoState
  /\ ps = NoState => count.kills # 0
  /\ mode = "single" => plain
  /\ mode = "queued" \/ ps = NoState => sent = <<>>
  /\ mode \notin {"rest", "done"} /\ ~plain => \A e \in Contents(sent) : e.kind = "started"

Ticking == mode \in {"run", "pausing", "ending"}
Spent == ps.elapsed + (IF Ticking THEN now - ps.since ELSE 0)
Agrees(n) == n <= worked /\ (count.kills = 0 => n = worked)

(* What memory, the events and, once they are stored, the database say of  *)
(* the time.                                                               *)
Times ==
  ~plain =>
    /\ row.elapsed <= worked
    /\ ps # NoState => Agrees(Spent)
    /\ \A e \in Contents(sent) : e.kind # "started" => Agrees(e.elapsed)
    /\ mode \in {"rest", "queued"} /\ tasks # <<>>
         /\ (\A e \in Contents(sent) : e.kind # "paused")
         => Agrees(row.elapsed)

CheckpointInv == CheckpointTypes /\ Phases /\ Times

LEMMA StateIsState == \A p : IsState(p) => p # NoState
<1> SUFFICES ASSUME NEW p, IsState(p), p = NoState
             PROVE  FALSE
  OBVIOUS
<1>1. DOMAIN p = StateFields
  BY DEF IsState, HasFields
<1>2. DOMAIN p = {"total"}
  BY DEF NoState
<1>3. QED
  BY <1>1, <1>2 DEF StateFields

\* q is a ProgressState with the clock of p.
SameClock(p, q) == IsState(q) /\ q.elapsed = p.elapsed /\ q.since = p.since

LEMMA FieldsKeepClock ==
  ASSUME NEW p, IsState(p), NEW u, NEW v, NEW w
  PROVE  /\ SameClock(p, [p EXCEPT !.size = u, !.bits = v, !.chunk = w])
         /\ SameClock(p, [p EXCEPT !.chunk = u, !.verified = v, !.bits = w])
         /\ SameClock(p, [p EXCEPT !.base = u, !.downloaded = v, !.verified = w])
<1>1. SameClock(p, [p EXCEPT !.size = u, !.bits = v, !.chunk = w])
  BY DEF IsState, HasFields, StateFields, SameClock
<1>2. SameClock(p, [p EXCEPT !.chunk = u, !.verified = v, !.bits = w])
  BY DEF IsState, HasFields, StateFields, SameClock
<1>3. SameClock(p, [p EXCEPT !.base = u, !.downloaded = v, !.verified = w])
  BY DEF IsState, HasFields, StateFields, SameClock
<1>4. QED
  BY <1>1, <1>2, <1>3

(* What the methods of a ProgressState do to its clock.                    *)
LEMMA MethodsKeepClock ==
  ASSUME NEW p, IsState(p)
  PROVE  /\ \A s : SameClock(p, InitBitmap(p, s))
         /\ \A b, s : SameClock(p, RestoreBitmap(p, b, s))
         /\ \A t : SameClock(p, MarkDownloading(p, t))
         /\ \A t : SameClock(p, MarkCompleted(p, t))
         /\ \A ts : SameClock(p, RecalculateProgress(p, ts))
         /\ \A v : SameClock(p, [p EXCEPT !.downloaded = v])
         /\ \A v, w : SameClock(p, [p EXCEPT !.verified = v, !.downloaded = w])
<1>1. \A s : SameClock(p, InitBitmap(p, s))
  <2>1. SameClock(p, p)
    BY DEF SameClock
  <2>2. QED
    BY <2>1, FieldsKeepClock, Zenon DEF InitBitmap
<1>2. \A b, s : SameClock(p, RestoreBitmap(p, b, s))
  <2>1. SameClock(p, p)
    BY DEF SameClock
  <2>2. QED
    BY <2>1, FieldsKeepClock, ZenonT(30) DEF RestoreBitmap
<1>3. \A t : SameClock(p, MarkDownloading(p, t))
  BY DEF MarkDownloading, IsState, HasFields, StateFields, SameClock
<1>4. \A t : SameClock(p, MarkCompleted(p, t))
  BY DEF MarkCompleted, IsState, HasFields, StateFields, SameClock
<1>5. \A ts : SameClock(p, RecalculateProgress(p, ts))
  BY FieldsKeepClock, ZenonT(30) DEF RecalculateProgress
<1>6. \A v : SameClock(p, [p EXCEPT !.downloaded = v])
  BY DEF IsState, HasFields, StateFields, SameClock
<1>7. \A v, w : SameClock(p, [p EXCEPT !.verified = v, !.downloaded = w])
  BY DEF IsState, HasFields, StateFields, SameClock
<1>8. QED
  BY <1>1, <1>2, <1>3, <1>4, <1>5, <1>6, <1>7

(* The methods that start, end and forget a session's clock.               *)
LEMMA MethodsSetClock ==
  ASSUME NEW p, IsState(p), now \in Nat
  PROVE  /\ IsState(SyncSessionStart(p))
         /\ SyncSessionStart(p).elapsed = p.elapsed /\ SyncSessionStart(p).since = now
         /\ \A t : LET q == SetTotalSize(p, t)
                  IN IsState(q) /\ q.elapsed = p.elapsed /\ q.since \in {p.since, now}
         /\ p.since <= now =>
              \A n : LET q == FinalizeSession(p, n)
                    IN IsState(q) /\ q.elapsed = p.elapsed + (now - p.since) /\ q.since = now
         /\ IsState(SessionReset(p)) /\ SessionReset(p).since = now
<1>1. /\ IsState(SyncSessionStart(p))
      /\ SyncSessionStart(p).elapsed = p.elapsed /\ SyncSessionStart(p).since = now
  BY DEF SyncSessionStart, IsState, HasFields, StateFields
<1>2. \A t : LET q == SetTotalSize(p, t)
            IN IsState(q) /\ q.elapsed = p.elapsed /\ q.since \in {p.since, now}
  BY DEF SetTotalSize, SyncSessionStart, IsState, HasFields, StateFields
<1>3. ASSUME p.since <= now, NEW n
      PROVE  LET q == FinalizeSession(p, n)
             IN IsState(q) /\ q.elapsed = p.elapsed + (now - p.since) /\ q.since = now
  <2> DEFINE q == [p EXCEPT !.elapsed = @ + (now - p.since), !.since = now]
  <2>1. p.elapsed + (now - p.since) \in Nat
    BY <1>3 DEF IsState
  <2>2. IsState(q) /\ q.elapsed = p.elapsed + (now - p.since) /\ q.since = now
    BY <2>1 DEF IsState, HasFields, StateFields
  <2>3. FinalizeSession(p, n) = [q EXCEPT !.base = n, !.downloaded = n, !.verified = n]
    BY DEF FinalizeSession
  <2> HIDE DEF q
  <2>4. SameClock(q, [q EXCEPT !.base = n, !.downloaded = n, !.verified = n])
    BY <2>2, FieldsKeepClock
  <2>5. QED
    BY <2>2, <2>3, <2>4 DEF SameClock
<1>4. IsState(SessionReset(p)) /\ SessionReset(p).since = now
  BY DEF SessionReset, IsState, HasFields, StateFields
<1>5. QED
  BY <1>1, <1>2, <1>3, <1>4

(* A session starts with the time of the last one, in memory or stored.    *)
LEMMA SetupTasksClock ==
  ASSUME NEW p, IsState(p), now \in Nat, IsRow(row), NEW s, SetupTasks(p, s)
  PROVE  /\ IsState(ps') /\ ps'.since = now
         /\ \/ ps'.elapsed = p.elapsed
            \/ tasks # <<>> /\ ps'.elapsed = row.elapsed
<1> DEFINE saved == LoadState(cfg.url)
           p0 == [p EXCEPT !.verified = saved.row.downloaded, !.elapsed = saved.row.elapsed]
           p1 == SyncSessionStart(p0)
           p2 == RecalculateProgress(RestoreBitmap(p1, saved.row.bits, saved.row.size), saved.tasks)
<1>1. saved.row = row /\ (saved.tasks = tasks \/ saved.tasks = <<>>)
  BY DEF LoadState
<1>2. IsState(p0) /\ p0.elapsed = row.elapsed
  BY <1>1 DEF IsState, IsRow, HasFields, StateFields
<1>3. IsState(p1) /\ p1.elapsed = row.elapsed /\ p1.since = now
  BY <1>2, MethodsSetClock
<1>4. SameClock(p1, p2)
  <2>1. SameClock(p1, RestoreBitmap(p1, saved.row.bits, saved.row.size))
    BY <1>3, MethodsKeepClock
  <2>2. SameClock(RestoreBitmap(p1, saved.row.bits, saved.row.size), p2)
    BY <2>1, MethodsKeepClock DEF SameClock
  <2>3. QED
    BY <2>1, <2>2 DEF SameClock
<1>5. CASE saved.tasks = <<>>
  <2>1. ps' = SyncSessionStart([p EXCEPT !.downloaded = 0])
    BY <1>5 DEF SetupTasks
  <2>2. SameClock(p, [p EXCEPT !.downloaded = 0])
    BY MethodsKeepClock
  <2>3. QED
    BY <2>1, <2>2, MethodsSetClock DEF SameClock
<1>6. CASE saved.tasks # <<>>
  <2>1. ps' = IF saved.row.size > 0 THEN SyncSessionStart([p2 EXCEPT !.downloaded = p2.verified])
              ELSE [p1 EXCEPT !.downloaded = saved.row.downloaded]
    BY <1>6 DEF SetupTasks
  <2>2. SameClock(p2, [p2 EXCEPT !.downloaded = p2.verified])
        /\ SameClock(p1, [p1 EXCEPT !.downloaded = saved.row.downloaded])
    BY <1>3, <1>4, MethodsKeepClock DEF SameClock
  <2>3. /\ IsState(SyncSessionStart([p2 EXCEPT !.downloaded = p2.verified]))
        /\ SyncSessionStart([p2 EXCEPT !.downloaded = p2.verified]).elapsed = row.elapsed
        /\ SyncSessionStart([p2 EXCEPT !.downloaded = p2.verified]).since = now
    BY <1>3, <1>4, <2>2, MethodsSetClock DEF SameClock
  <2>4. tasks # <<>>
    BY <1>1, <1>6
  <2> HIDE DEF saved, p0, p1, p2
  <2>5. QED
    BY <1>3, <2>1, <2>2, <2>3, <2>4 DEF SameClock
<1>7. QED
  BY <1>5, <1>6

(* Events that are sent and stored.                                        *)
LEMMA Queued ==
  ASSUME NEW q, q \in Seq(Contents(q)), NEW e
  PROVE  /\ Append(q, e) \in Seq(Contents(Append(q, e)))
         /\ Contents(Append(q, e)) = Contents(q) \cup {e}
<1> DEFINE S == Contents(q) \cup {e}
           r == Append(q, e)
<1>1. q \in Seq(S)
  BY SeqMonotonic
<1>2. /\ r \in Seq(S) /\ Len(q) \in Nat /\ Len(r) = Len(q) + 1 /\ r[Len(q) + 1] = e
      /\ \A k \in 1 .. Len(q) : r[k] = q[k]
      /\ DOMAIN r = 1 .. (Len(q) + 1) /\ DOMAIN q = 1 .. Len(q)
  BY <1>1
<1> HIDE DEF r
<1>3. Contents(r) = S
  <2>1. ASSUME NEW x \in Contents(r)
        PROVE  x \in S
    BY <1>2, <2>1 DEF Contents
  <2>2. ASSUME NEW x \in Contents(q)
        PROVE  x \in Contents(r)
    <3>1. PICK k \in 1 .. Len(q) : x = q[k]
      BY <1>2, <2>2 DEF Contents
    <3>2. k \in 1 .. (Len(q) + 1) /\ r[k] = x
      BY <1>2, <3>1
    <3>3. QED
      BY <1>2, <3>2 DEF Contents
  <2>3. e \in Contents(r)
    <3>1. Len(q) + 1 \in 1 .. (Len(q) + 1)
      BY <1>2
    <3>2. QED
      BY <1>2, <3>1 DEF Contents
  <2>4. QED
    BY <2>1, <2>2, <2>3
<1>4. QED
  BY <1>2, <1>3 DEF r

LEMMA Unqueued ==
  ASSUME NEW q, q \in Seq(Contents(q)), q # <<>>
  PROVE  /\ Tail(q) \in Seq(Contents(Tail(q)))
         /\ Contents(q) = Contents(Tail(q)) \cup {Head(q)}
<1> DEFINE t == Tail(q)
<1>1. /\ Len(q) \in Nat \ {0} /\ DOMAIN q = 1 .. Len(q) /\ Head(q) = q[1]
      /\ \A k \in 1 .. (Len(q) - 1) : t[k] = q[k + 1]
      /\ t \in Seq(Contents(q)) /\ Len(t) = Len(q) - 1
  OBVIOUS
<1>2. Head(q) \in Contents(q)
  <2>1. 1 \in DOMAIN q
    BY <1>1
  <2>2. QED
    BY <1>1, <2>1 DEF Contents
<1> HIDE DEF t
<1>3. DOMAIN t = 1 .. Len(t)
  BY <1>1
<1>4. t \in Seq(Contents(t))
  <2>1. \A k \in 1 .. Len(t) : t[k] \in Contents(t)
    BY <1>3 DEF Contents
  <2>2. t = [k \in 1 .. Len(t) |-> t[k]] /\ Len(t) \in Nat
    BY <1>1
  <2>3. [k \in 1 .. Len(t) |-> t[k]] \in Seq(Contents(t))
    BY <2>1, <2>2, IsASeq
  <2>4. QED
    BY <2>2, <2>3
<1>5. Contents(t) \subseteq Contents(q)
  <2>1. \A k \in 1 .. Len(t) : t[k] \in Contents(q)
    BY <1>1
  <2>2. QED
    BY <1>3, <2>1 DEF Contents
<1>6. ASSUME NEW x \in Contents(q), x # Head(q)
      PROVE  x \in Contents(t)
  <2>1. PICK k \in 1 .. Len(q) : x = q[k]
    BY <1>1, <1>6 DEF Contents
  <2>2. k - 1 \in 1 .. Len(t) /\ (k - 1) + 1 = k
    BY <1>1, <1>6, <2>1
  <2>3. t[k - 1] = x
    BY <1>1, <2>1, <2>2
  <2>4. QED
    BY <1>3, <2>2, <2>3 DEF Contents
<1>7. QED
  BY <1>2, <1>4, <1>5, <1>6 DEF t

LEMMA NoContents == Contents(<<>>) = {} /\ <<>> \in Seq(Contents(<<>>))
  BY DEF Contents

-----------------------------------------------------------------------------
(* The steps of a session.                                                 *)
LEMMA BeginStays == CheckpointInv /\ Begin => CheckpointInv'
<1> SUFFICES ASSUME CheckpointInv, Begin
             PROVE  CheckpointInv'
  OBVIOUS
<1>1. /\ mode = "queued" /\ count' = [count EXCEPT !.sessions = @ + 1]
      /\ UNCHANGED <<fetch, disk, row, tasks, half, now, worked>>
  BY DEF Begin, Inc, database, clock
<1>2. /\ ps # NoState /\ IsState(ps) /\ ps.since <= now /\ sent = <<>> /\ now \in Nat /\ IsRow(row)
      /\ \A f \in Fetchers : fetch[f] = IdleFetch
  BY <1>1 DEF CheckpointInv, CheckpointTypes, Phases
<1>3. PICK e : e.kind = "started" /\ sent' = Append(sent, e)
  <2>1. [kind |-> "started", url |-> cfg.url, total |-> cfg.total].kind = "started"
    OBVIOUS
  <2>2. QED
    BY <2>1 DEF Begin, Tell
<1>4. sent' \in Seq(Contents(sent')) /\ \A x \in Contents(sent') : x.kind = "started"
  <2>1. /\ Append(<<>>, e) \in Seq(Contents(Append(<<>>, e)))
        /\ Contents(Append(<<>>, e)) = Contents(<<>>) \cup {e}
    BY NoContents, Queued
  <2>2. QED
    BY <1>2, <1>3, <2>1, NoContents
<1> DEFINE p == SetTotalSize(ps, Total)
<1>5. IsState(p) /\ p.elapsed = ps.elapsed /\ p.since \in {ps.since, now}
  BY <1>2, MethodsSetClock
<1>6. count'.kills = count.kills /\ count' \in [fails : Nat, sessions : Nat, kills : Nat, updates : Nat, syncs : Nat]
  BY <1>1 DEF CheckpointInv, CheckpointTypes
<1>7. CASE cfg.ranges
  <2>1. PICK s : SetupTasks(InitBitmap(p, s), s)
    BY <1>7 DEF Begin
  <2>2. mode' = "run" /\ plain' = plain
    BY <1>7 DEF Begin
  <2>3. SameClock(p, InitBitmap(p, s))
    BY <1>5, MethodsKeepClock
  <2>4. /\ IsState(ps') /\ ps'.since = now
        /\ ps'.elapsed = ps.elapsed \/ (tasks # <<>> /\ ps'.elapsed = row.elapsed)
    BY <1>2, <1>5, <2>1, <2>3, SetupTasksClock DEF SameClock
  <2>5. ps' # NoState
    BY <2>4, StateIsState
  <2>6. CheckpointTypes'
    BY <1>1, <1>4, <1>6, <2>2, <2>4 DEF CheckpointInv, CheckpointTypes, IsEvent
  <2>7. Phases'
    BY <1>1, <1>2, <1>4, <1>6, <2>2, <2>5 DEF CheckpointInv, Phases
  <2>8. ASSUME ~plain
        PROVE  Agrees(ps'.elapsed) /\ row.elapsed <= worked
    <3>1. Agrees(ps.elapsed)
      BY <1>1, <1>2, <2>8 DEF CheckpointInv, Times, Spent, Ticking, IsState
    <3>2. tasks # <<>> => Agrees(row.elapsed)
      BY <1>1, <1>2, <2>8, NoContents DEF CheckpointInv, Times
    <3>3. QED
      BY <2>4, <2>8, <3>1, <3>2 DEF CheckpointInv, Times
  <2>9. Times'
    <3>1. ps'.elapsed \in Nat
      BY <2>4 DEF IsState
    <3>2. Spent' = ps'.elapsed
      BY <1>1, <1>2, <2>2, <2>4, <3>1 DEF Spent, Ticking
    <3>3. QED
      BY <1>1, <1>4, <1>6, <2>2, <2>8, <3>2 DEF Times, Agrees
  <2>10. QED
    BY <2>6, <2>7, <2>9 DEF CheckpointInv
<1>8. CASE ~cfg.ranges
  <2>1. ps' = p /\ mode' = "single" /\ plain'
    BY <1>8 DEF Begin
  <2>2. IsState(ps') /\ ps'.since <= now /\ ps' # NoState
    BY <1>2, <1>5, <2>1, StateIsState
  <2>3. CheckpointTypes'
    BY <1>1, <1>4, <1>6, <2>1, <2>2 DEF CheckpointInv, CheckpointTypes, IsEvent
  <2>4. Phases'
    BY <1>1, <1>2, <1>4, <2>1, <2>2 DEF CheckpointInv, Phases
  <2>5. QED
    BY <2>1, <2>3, <2>4 DEF CheckpointInv, Times
<1>9. QED
  BY <1>7, <1>8

(* Steps of a session that change no clock and store nothing.              *)
LEMMA QuietStays ==
  ASSUME CheckpointInv,
         UNCHANGED <<row, tasks, sent, now, worked, plain>>,
         count'.kills = count.kills,
         count' \in [fails : Nat, sessions : Nat, kills : Nat, updates : Nat, syncs : Nat],
         mode' = mode \/ (Ticking /\ mode' \in {"pausing", "ending"}),
         ps' = ps \/ (ps # NoState /\ SameClock(ps, ps')),
         fetch' = [f \in Fetchers |-> fetch'[f]],
         \A f \in Fetchers : HasFields(fetch'[f], FetchFields),
         mode' \notin {"run", "pausing"} => \A f \in Fetchers : fetch'[f] = IdleFetch,
         \A f \in Fetchers : fetch'[f].add # -1 => fetch'[f].n # 0
  PROVE  CheckpointInv'
<1>1. /\ ps # NoState => IsState(ps') /\ ps'.since = ps.since /\ ps'.elapsed = ps.elapsed
      /\ ps' = NoState <=> ps = NoState
  BY StateIsState DEF SameClock, CheckpointInv, CheckpointTypes
<1>2. Ticking' <=> Ticking
  BY DEF Ticking
<1>3. CheckpointTypes'
  BY <1>1 DEF CheckpointInv, CheckpointTypes, Ticking
<1>4. Phases'
  BY <1>1 DEF CheckpointInv, Phases, Ticking
<1>5. ps # NoState => Spent' = Spent
  BY <1>1, <1>2 DEF Spent
<1>6. Times'
  BY <1>1, <1>5 DEF CheckpointInv, Times, Agrees, Ticking
<1>7. QED
  BY <1>3, <1>4, <1>6 DEF CheckpointInv

(* What a connection does concerns its own entry.                          *)
LEMMA FetchChanges ==
  ASSUME CheckpointInv, NEW f \in Fetchers, NEW a, fetch' = [fetch EXCEPT ![f] = a],
         HasFields(a, FetchFields), a.add # -1 => a.n # 0
  PROVE  /\ fetch' = [g \in Fetchers |-> fetch'[g]]
         /\ \A g \in Fetchers : HasFields(fetch'[g], FetchFields)
         /\ \A g \in Fetchers : fetch'[g].add # -1 => fetch'[g].n # 0
<1>1. fetch' = [g \in Fetchers |-> IF g = f THEN a ELSE fetch[g]]
  BY DEF CheckpointInv, CheckpointTypes
<1>2. \A g \in Fetchers : fetch'[g] = IF g = f THEN a ELSE fetch[g]
  BY <1>1
<1>3. QED
  BY <1>1, <1>2 DEF CheckpointInv, CheckpointTypes, Phases

LEMMA IdleIsFetch == HasFields(IdleFetch, FetchFields) /\ IdleFetch.add = -1
  BY DEF IdleFetch, HasFields, FetchFields

LEMMA ConnectionStays ==
  ASSUME CheckpointInv, NEW f \in Fetchers,
         PopTask(f) \/ WriteBytes(f) \/ FlushMap(f) \/ FlushCounters(f) \/ FetchFails(f)
  PROVE  CheckpointInv'
<1> DEFINE c == fetch[f]
<1>1. /\ HasFields(c, FetchFields) /\ (c.add # -1 => c.n # 0)
      /\ count.kills = count.kills
      /\ count \in [fails : Nat, sessions : Nat, kills : Nat, updates : Nat, syncs : Nat]
      /\ mode \in {"run", "pausing"} => ps # NoState /\ IsState(ps)
      /\ mode \notin {"run", "pausing"} => c = IdleFetch
      /\ fetch = [g \in Fetchers |-> fetch[g]]
  BY DEF CheckpointInv, CheckpointTypes, Phases
<1>2. ASSUME NEW a, fetch' = [fetch EXCEPT ![f] = a], HasFields(a, FetchFields), a.add # -1 => a.n # 0,
             mode \in {"run", "pausing"}, UNCHANGED <<mode, row, tasks, sent, now, worked, plain>>,
             ps' = ps \/ SameClock(ps, ps'),
             count' = count \/ count' = [count EXCEPT !.fails = @ + 1]
      PROVE  CheckpointInv'
  <2>1. /\ count'.kills = count.kills
        /\ count' \in [fails : Nat, sessions : Nat, kills : Nat, updates : Nat, syncs : Nat]
    BY <1>1, <1>2
  <2>2. QED
    BY <1>1, <1>2, <2>1, FetchChanges, QuietStays
<1>3. CASE PopTask(f)
  <2> DEFINE t == Head(plan)
             a == [off |-> t.off, stop |-> t.off + t.len, from |-> t.off, n |-> 0, add |-> -1]
  <2>1. HasFields(a, FetchFields) /\ a.add = -1
    BY DEF HasFields, FetchFields
  <2>2. /\ fetch' = [fetch EXCEPT ![f] = a] /\ ps' = MarkDownloading(ps, t) /\ mode = "run"
        /\ UNCHANGED <<mode, row, tasks, sent, now, worked, plain, count>>
    BY <1>3 DEF PopTask, database, events, clock
  <2>3. SameClock(ps, ps')
    BY <1>1, <2>2, MethodsKeepClock
  <2> HIDE DEF a
  <2>4. QED
    BY <1>2, <2>1, <2>2, <2>3
<1>4. CASE WriteBytes(f)
  <2>1. PICK n : fetch' = [fetch EXCEPT ![f].off = @ + n, ![f].n = @ + n,
                                        ![f].from = IF c.n = 0 THEN c.off ELSE @]
    BY <1>4 DEF WriteBytes
  <2> DEFINE a == [c EXCEPT !.off = @ + n, !.n = @ + n, !.from = IF c.n = 0 THEN c.off ELSE @]
  <2>2. c.add = -1 /\ mode \in {"run", "pausing"}
        /\ UNCHANGED <<mode, ps, row, tasks, sent, now, worked, plain, count>>
    BY <1>4 DEF WriteBytes, memory, database, events, clock
  <2>3. HasFields(a, FetchFields) /\ a.add = -1
    BY <1>1, <2>2 DEF HasFields, FetchFields
  <2>4. fetch' = [fetch EXCEPT ![f] = a]
    BY <1>1, <2>1
  <2> HIDE DEF a
  <2>5. QED
    BY <1>2, <2>2, <2>3, <2>4
<1>5. CASE FlushMap(f)
  <2> DEFINE t == Task(c.from, c.n)
             a == [c EXCEPT !.add = GainAll(ps, t)]
  <2>1. /\ fetch' = [fetch EXCEPT ![f].add = GainAll(ps, t)] /\ ps' = MarkCompleted(ps, t)
        /\ c.n > 0 /\ UNCHANGED <<mode, row, tasks, sent, now, worked, plain, count>>
    BY <1>5 DEF FlushMap, database, events, clock
  <2>2. mode \in {"run", "pausing"}
    BY <1>1, <2>1 DEF IdleFetch
  <2>3. HasFields(a, FetchFields) /\ a.n = c.n /\ c.n # 0
    BY <1>1, <2>1 DEF HasFields, FetchFields
  <2>4. fetch' = [fetch EXCEPT ![f] = a]
    BY <1>1, <2>1
  <2>5. SameClock(ps, ps')
    BY <1>1, <2>1, <2>2, MethodsKeepClock
  <2> HIDE DEF a
  <2>6. QED
    BY <1>2, <2>1, <2>2, <2>3, <2>4, <2>5
<1>6. CASE FlushCounters(f)
  <2> DEFINE a == [c EXCEPT !.add = -1, !.n = 0]
  <2>1. /\ fetch' = [fetch EXCEPT ![f].add = -1, ![f].n = 0]
        /\ ps' = [ps EXCEPT !.verified = @ + c.add, !.downloaded = @ + c.n]
        /\ c.add # -1 /\ UNCHANGED <<mode, row, tasks, sent, now, worked, plain, count>>
    BY <1>6 DEF FlushCounters, database, events, clock
  <2>2. mode \in {"run", "pausing"}
    BY <1>1, <2>1, IdleIsFetch
  <2>3. HasFields(a, FetchFields) /\ a.add = -1
    BY <1>1 DEF HasFields, FetchFields
  <2>4. fetch' = [fetch EXCEPT ![f] = a]
    BY <1>1, <2>1
  <2>5. SameClock(ps, ps')
    <3>1. \A v, w : SameClock(ps, [ps EXCEPT !.verified = v, !.downloaded = w])
      BY <1>1, <2>2, MethodsKeepClock
    <3>2. PICK v, w : v = ps.verified + c.add /\ w = ps.downloaded + c.n
      OBVIOUS
    <3>3. ps' = [ps EXCEPT !.verified = v, !.downloaded = w]
      BY <2>1, <3>2
    <3>4. QED
      BY <3>1, <3>3
  <2> HIDE DEF a
  <2>6. QED
    BY <1>2, <2>1, <2>2, <2>3, <2>4, <2>5
<1>7. CASE FetchFails(f)
  <2>1. /\ fetch' = [fetch EXCEPT ![f] = IdleFetch] /\ mode = "run"
        /\ count' = [count EXCEPT !.fails = @ + 1]
        /\ UNCHANGED <<mode, ps, row, tasks, sent, now, worked, plain>>
    BY <1>7 DEF FetchFails, Inc, memory, database, events, clock
  <2>2. QED
    BY <1>2, <2>1, IdleIsFetch
<1>8. QED
  BY <1>3, <1>4, <1>5, <1>6, <1>7

LEMMA ModeStays ==
  ASSUME CheckpointInv, AskPause \/ AllFetched \/ SingleCopy
  PROVE  CheckpointInv'
<1>1. /\ count \in [fails : Nat, sessions : Nat, kills : Nat, updates : Nat, syncs : Nat]
      /\ fetch = [g \in Fetchers |-> fetch[g]] /\ \A g \in Fetchers : HasFields(fetch[g], FetchFields)
      /\ \A g \in Fetchers : fetch[g].add # -1 => fetch[g].n # 0
      /\ mode \notin {"run", "pausing"} => \A g \in Fetchers : fetch[g] = IdleFetch
      /\ mode = "single" => ps # NoState /\ IsState(ps)
  BY DEF CheckpointInv, CheckpointTypes, Phases
<1>2. CASE AskPause
  <2>1. /\ mode = "run" /\ mode' = "pausing"
        /\ UNCHANGED <<ps, fetch, row, tasks, sent, now, worked, plain, count>>
    BY <1>2 DEF AskPause, memory, session, database, events, clock
  <2>2. QED
    BY <1>1, <2>1, QuietStays DEF Ticking
<1>3. CASE AllFetched
  <2>1. /\ mode = "run" /\ mode' = "ending" /\ fetch' = [f \in Fetchers |-> IdleFetch]
        /\ UNCHANGED <<ps, row, tasks, sent, now, worked, plain, count>>
    BY <1>3 DEF AllFetched, SessionEnds, memory, database, events, clock
  <2>2. /\ fetch' = [g \in Fetchers |-> fetch'[g]] /\ \A g \in Fetchers : fetch'[g] = IdleFetch
    BY <2>1
  <2>3. QED
    BY <1>1, <2>1, <2>2, IdleIsFetch, QuietStays DEF Ticking
<1>4. CASE SingleCopy
  <2>1. /\ mode = "single" /\ UNCHANGED <<mode, fetch, row, tasks, sent, now, worked, plain, count>>
        /\ ps' = ps \/ ps' = [ps EXCEPT !.verified = at', !.downloaded = at']
    BY <1>4 DEF SingleCopy, database, events, clock
  <2>2. SameClock(ps, [ps EXCEPT !.verified = at', !.downloaded = at'])
    <3>1. IsState(ps)
      BY <1>1, <2>1
    <3>2. QED
      BY <3>1, MethodsKeepClock
  <2>3. ps' = ps \/ SameClock(ps, ps')
    BY <2>1, <2>2
  <2>4. QED
    BY <1>1, <2>1, <2>3, QuietStays
<1>5. QED
  BY <1>2, <1>3, <1>4

-----------------------------------------------------------------------------
(* The ends of a session, whose time goes with the last event.             *)

\* An end in memory: FinalizeSession, and an event e if the session is over.
LEMMA FinalizeStays ==
  ASSUME CheckpointInv, NEW n, ps' = FinalizeSession(ps, n), Ticking, ~plain,
         UNCHANGED <<row, tasks, now, worked, plain, count>>,
         fetch' = [f \in Fetchers |-> IdleFetch],
         \/ mode' = "ending" /\ sent' = sent
         \/ /\ mode' \in {"rest", "done"}
            /\ \E e : /\ sent' = Append(sent, e) /\ IsEvent(e) /\ e.elapsed = ps'.elapsed
                      /\ mode' = "rest" => e.kind = "paused"
  PROVE  CheckpointInv'
<1>1. /\ ps # NoState /\ IsState(ps) /\ ps.since <= now /\ now \in Nat /\ worked \in Nat
      /\ IsRow(row) /\ Agrees(Spent) /\ row.elapsed <= worked
      /\ sent \in Seq(Contents(sent)) /\ \A e \in Contents(sent) : IsEvent(e)
      /\ \A e \in Contents(sent) : e.kind = "started"
  BY DEF CheckpointInv, CheckpointTypes, Phases, Times, Ticking
<1>2. IsState(ps') /\ ps'.elapsed = ps.elapsed + (now - ps.since) /\ ps'.since = now
  BY <1>1, MethodsSetClock
<1>3. ps' # NoState
  BY <1>2, StateIsState
<1>4. Spent' = ps'.elapsed /\ ps'.elapsed = Spent
  BY <1>1, <1>2 DEF Spent, Ticking, IsState
<1>5. /\ fetch' = [f \in Fetchers |-> fetch'[f]] /\ \A f \in Fetchers : fetch'[f] = IdleFetch
  OBVIOUS
<1>6. /\ sent' \in Seq(Contents(sent'))
      /\ \A e \in Contents(sent') : /\ IsEvent(e)
                                    /\ e.kind = "started" \/ e.elapsed = ps'.elapsed
      /\ mode' = "ending" => \A e \in Contents(sent') : e.kind = "started"
      /\ mode' = "rest" => \E e \in Contents(sent') : e.kind = "paused"
  <2>1. CASE mode' = "ending" /\ sent' = sent
    BY <1>1, <2>1
  <2>2. ASSUME NEW e, sent' = Append(sent, e), IsEvent(e), e.elapsed = ps'.elapsed,
               mode' \in {"rest", "done"}, mode' = "rest" => e.kind = "paused"
        PROVE  <1>6!1 /\ <1>6!2 /\ <1>6!3 /\ <1>6!4
    <3>1. sent' \in Seq(Contents(sent')) /\ Contents(sent') = Contents(sent) \cup {e}
      BY <1>1, <2>2, Queued
    <3>2. QED
      BY <1>1, <2>2, <3>1
  <2>3. QED
    BY <2>1, <2>2
<1>7. CheckpointTypes'
  BY <1>1, <1>2, <1>5, <1>6, IdleIsFetch DEF CheckpointInv, CheckpointTypes
<1>8. Phases'
  BY <1>3, <1>5, <1>6, IdleIsFetch DEF CheckpointInv, Phases
<1>9. Times'
  BY <1>1, <1>4, <1>6 DEF Times, Agrees
<1>10. QED
  BY <1>7, <1>8, <1>9 DEF CheckpointInv

(* Once a single connection was used, little is said.                      *)
LEMMA PlainStays ==
  ASSUME CheckpointInv, plain',
         UNCHANGED <<row, now, worked>>,
         count'.kills = count.kills,
         count' \in [fails : Nat, sessions : Nat, kills : Nat, updates : Nat, syncs : Nat],
         mode' \in {"rest", "queued", "run", "pausing", "ending", "single", "done"},
         \/ fetch' = [f \in Fetchers |-> IdleFetch]
         \/ UNCHANGED fetch /\ mode \notin {"run", "pausing"},
         mode' = "queued" => mode = "queued",
         ps # NoState, IsState(ps'), ps'.since <= now,
         sent' = sent \/ (mode # "queued" /\ \E e : sent' = Append(sent, e) /\ IsEvent(e))
  PROVE  CheckpointInv'
<1>1. ps' # NoState
  BY StateIsState
<1>2. sent' \in Seq(Contents(sent')) /\ \A e \in Contents(sent') : IsEvent(e)
  <2>1. sent \in Seq(Contents(sent)) /\ \A e \in Contents(sent) : IsEvent(e)
    BY DEF CheckpointInv, CheckpointTypes
  <2>2. ASSUME NEW e, sent' = Append(sent, e), IsEvent(e)
        PROVE  <1>2!1 /\ <1>2!2
    <3>1. sent' \in Seq(Contents(sent')) /\ Contents(sent') = Contents(sent) \cup {e}
      BY <2>1, <2>2, Queued
    <3>2. QED
      BY <2>1, <2>2, <3>1
  <2>3. QED
    BY <2>1, <2>2
<1>3. fetch' = [f \in Fetchers |-> fetch'[f]] /\ \A f \in Fetchers : fetch'[f] = IdleFetch
  <2>1. CASE fetch' = [f \in Fetchers |-> IdleFetch]
    BY <2>1
  <2>2. CASE UNCHANGED fetch /\ mode \notin {"run", "pausing"}
    BY <2>2 DEF CheckpointInv, CheckpointTypes, Phases
  <2>3. QED
    BY <2>1, <2>2
<1>4. CheckpointTypes'
  BY <1>2, <1>3, IdleIsFetch DEF CheckpointInv, CheckpointTypes
<1>5. Phases'
  BY <1>1, <1>3, IdleIsFetch DEF CheckpointInv, Phases
<1>6. QED
  BY <1>4, <1>5 DEF CheckpointInv, Times

LEMMA EndStays ==
  ASSUME CheckpointInv, HandlePause \/ Complete \/ SyncFails \/ SingleDone \/ SingleStops
  PROVE  CheckpointInv'
<1>1. /\ count \in [fails : Nat, sessions : Nat, kills : Nat, updates : Nat, syncs : Nat]
      /\ mode \in {"pausing", "ending", "single"} => ps # NoState /\ IsState(ps) /\ ps.since <= now
      /\ mode = "single" => plain
      /\ now \in Nat
      /\ mode = "ending" => fetch = [f \in Fetchers |-> IdleFetch]
  BY DEF CheckpointInv, CheckpointTypes, Phases
<1>2. CASE HandlePause
  <2> DEFINE ts == RemainingTasks
             left == SumOf([k \in DOMAIN ts |-> ts[k].len])
             p == FinalizeSession(ps, Total - left)
             e == [kind |-> "paused", url |-> cfg.url, downloaded |-> p.verified,
                   elapsed |-> p.elapsed, tasks |-> ts, bits |-> p.bits, size |-> p.size]
  <2>1. /\ mode = "pausing" /\ ps' = p /\ fetch' = [f \in Fetchers |-> IdleFetch]
        /\ \/ mode' = "ending" /\ sent' = sent
           \/ mode' = "rest" /\ sent' = Append(sent, e)
        /\ UNCHANGED <<row, tasks, now, worked, plain, count>>
    BY <1>2 DEF HandlePause, SessionEnds, Tell, database, clock
  <2>2. HasFields(e, PausedFields) /\ e.kind = "paused" /\ e.elapsed = p.elapsed
    BY DEF HasFields, PausedFields
  <2> HIDE DEF e, left
  <2>3. IsState(p) /\ p.since = now
    BY <1>1, <2>1, MethodsSetClock
  <2>4. IsEvent(e)
    BY <2>2, <2>3 DEF IsEvent, IsState
  <2>5. CASE ~plain
    BY <2>1, <2>2, <2>4, <2>5, FinalizeStays DEF Ticking
  <2>6. CASE plain
    <3>1. /\ mode' \in {"ending", "rest"} /\ ps # NoState /\ IsState(ps') /\ ps'.since <= now
          /\ sent' = sent \/ sent' = Append(sent, e)
      BY <1>1, <2>1, <2>3
    <3>2. QED
      BY <1>1, <2>1, <2>4, <2>6, <3>1, PlainStays
  <2>7. QED
    BY <2>5, <2>6
<1>3. CASE Complete
  <2> DEFINE p == FinalizeSession(ps, Total)
             e == [kind |-> "complete", elapsed |-> p.elapsed]
  <2>1. /\ mode = "ending" /\ mode' = "done" /\ ps' = p /\ sent' = Append(sent, e)
        /\ UNCHANGED <<fetch, row, tasks, now, worked, plain, count>>
    BY <1>3 DEF Complete, Finished, Tell, session, database, clock
  <2>2. IsState(p) /\ p.since = now
    BY <1>1, <2>1, MethodsSetClock
  <2>3. IsEvent(e) /\ e.elapsed = p.elapsed
    BY <2>2 DEF IsEvent, IsState
  <2> HIDE DEF e
  <2>4. CASE ~plain
    BY <1>1, <2>1, <2>3, <2>4, FinalizeStays DEF Ticking
  <2>5. CASE plain
    <3>1. mode' = "done" /\ ps # NoState /\ IsState(ps') /\ ps'.since <= now
      BY <1>1, <2>1, <2>2
    <3>2. QED
      BY <1>1, <2>1, <2>3, <2>5, <3>1, PlainStays
  <2>6. QED
    BY <2>4, <2>5
<1>4. CASE SyncFails
  <2>1. /\ mode = "ending" /\ mode' = "single" /\ plain' /\ ps' = SessionReset(ps)
        /\ count' = [count EXCEPT !.syncs = @ + 1]
        /\ UNCHANGED <<fetch, row, sent, now, worked>>
    BY <1>4 DEF SyncFails, Inc, database, events, clock
  <2>2. IsState(ps') /\ ps'.since <= now
    BY <1>1, <2>1, MethodsSetClock
  <2>3. /\ count'.kills = count.kills
        /\ count' \in [fails : Nat, sessions : Nat, kills : Nat, updates : Nat, syncs : Nat]
    BY <1>1, <2>1
  <2>4. QED
    BY <1>1, <2>1, <2>2, <2>3, PlainStays
<1>5. CASE SingleDone
  <2> DEFINE q == [ps EXCEPT !.verified = at, !.downloaded = at]
             p == FinalizeSession(q, Total)
             e == [kind |-> "complete", elapsed |-> p.elapsed]
  <2>1. /\ mode = "single" /\ mode' = "done" /\ ps' = p /\ sent' = Append(sent, e)
        /\ UNCHANGED <<fetch, row, now, worked, plain, count>>
    BY <1>5 DEF SingleDone, Finished, Tell, session, database, clock
  <2>2. SameClock(ps, q)
    BY <1>1, <2>1, MethodsKeepClock
  <2> HIDE DEF q
  <2>3. IsState(p) /\ p.since = now
    BY <1>1, <2>1, <2>2, MethodsSetClock DEF SameClock
  <2>4. IsEvent(e)
    BY <2>3 DEF IsEvent, IsState
  <2> HIDE DEF e, p
  <2>5. mode' = "done" /\ ps # NoState /\ IsState(ps') /\ ps'.since <= now /\ plain'
    BY <1>1, <2>1, <2>3
  <2>6. QED
    BY <1>1, <2>1, <2>4, <2>5, PlainStays
<1>6. CASE SingleStops
  <2>1. /\ mode = "single" /\ mode' = "rest"
        /\ UNCHANGED <<ps, fetch, row, sent, now, worked, plain, count>>
    BY <1>6 DEF SingleStops, memory, session, database, events, clock
  <2>2. QED
    BY <1>1, <2>1, PlainStays
<1>7. QED
  BY <1>2, <1>3, <1>4, <1>5, <1>6

-----------------------------------------------------------------------------
(* What the event worker stores.                                           *)
LEMMA StoreStays ==
  ASSUME CheckpointInv, UNCHANGED <<mode, ps, fetch, now, worked, plain, count>>,
         sent # <<>>, sent' = sent \/ sent' = Tail(sent),
         IsRow(row'), ~plain => row'.elapsed <= worked,
         ~plain /\ mode = "rest" /\ tasks' # <<>> /\ (\A e \in Contents(sent') : e.kind # "paused")
           => Agrees(row'.elapsed)
  PROVE  CheckpointInv'
<1>1. sent \in Seq(Contents(sent))
  BY DEF CheckpointInv, CheckpointTypes
<1>2. sent' \in Seq(Contents(sent')) /\ Contents(sent') \subseteq Contents(sent)
  BY <1>1, Unqueued
<1>3. mode # "queued" /\ ps # NoState
  BY DEF CheckpointInv, Phases
<1>4. CheckpointTypes'
  BY <1>2 DEF CheckpointInv, CheckpointTypes
<1>5. Phases'
  BY <1>2, <1>3 DEF CheckpointInv, Phases
<1>6. Times'
  BY <1>2, <1>3 DEF CheckpointInv, Times, Agrees, Spent, Ticking
<1>7. QED
  BY <1>4, <1>5, <1>6 DEF CheckpointInv

(* The event that is stored next agrees with the time that has passed.     *)
LEMMA NextEvent ==
  ASSUME CheckpointInv, sent # <<>>
  PROVE  /\ IsEvent(Head(sent)) /\ Contents(sent) = Contents(Tail(sent)) \cup {Head(sent)}
         /\ ~plain => /\ Head(sent).kind # "started" => Agrees(Head(sent).elapsed)
                      /\ row.elapsed <= worked
         /\ IsRow(row) /\ worked \in Nat
<1>1. sent \in Seq(Contents(sent))
  BY DEF CheckpointInv, CheckpointTypes
<1>2. Contents(sent) = Contents(Tail(sent)) \cup {Head(sent)}
  BY <1>1, Unqueued
<1>3. QED
  BY <1>2 DEF CheckpointInv, CheckpointTypes, Times

LEMMA StoresStay ==
  ASSUME CheckpointInv,
         StoreStarted \/ StorePausedEntry \/ StorePausedState \/ StoreComplete \/ DeleteTasks
  PROVE  CheckpointInv'
<1> DEFINE e == Head(sent)
<1>1. /\ sent # <<>> /\ UNCHANGED <<mode, ps, fetch, now, worked, plain, count>>
      /\ sent' = sent \/ sent' = Tail(sent)
  BY DEF StoreStarted, StorePausedEntry, StorePausedState, StoreComplete, DeleteTasks, Next1,
         Taken, StoreKeeps, memory, session, clock
<1>2. /\ IsEvent(e) /\ Contents(sent) = Contents(Tail(sent)) \cup {e}
      /\ ~plain => (e.kind # "started" => Agrees(e.elapsed)) /\ row.elapsed <= worked
      /\ IsRow(row) /\ worked \in Nat
  BY <1>1, NextEvent
<1> HIDE DEF e
<1>3. \A r : LET x == [row EXCEPT !.status = r.status, !.url = r.url, !.total = r.total,
                                  !.downloaded = r.downloaded, !.elapsed = r.elapsed]
             IN HasFields(x, RowFields) /\ x.elapsed = r.elapsed
  BY <1>2 DEF IsRow, HasFields, RowFields
<1>4. CASE StoreStarted
  <2> DEFINE r == [row EXCEPT !.status = "downloading", !.url = e.url, !.total = e.total]
  <2>1. /\ row' = [row EXCEPT !.status = r.status, !.url = r.url, !.total = r.total,
                              !.downloaded = r.downloaded, !.elapsed = r.elapsed]
        /\ e.kind = "started" /\ sent' = Tail(sent) /\ tasks' = tasks
    BY <1>4 DEF StoreStarted, AddToMasterList, Next1, Taken, e
  <2>2. r.elapsed = row.elapsed
    BY <1>2 DEF IsRow, HasFields, RowFields
  <2> HIDE DEF r
  <2>3. HasFields(row', RowFields) /\ row'.elapsed = row.elapsed
    BY <1>3, <2>1, <2>2
  <2>4. IsRow(row')
    BY <1>2, <2>3 DEF IsRow
  <2>5. ~plain /\ mode = "rest" /\ tasks' # <<>> /\ (\A x \in Contents(sent') : x.kind # "paused")
          => Agrees(row'.elapsed)
    BY <1>2, <2>1, <2>3 DEF CheckpointInv, Times
  <2>6. QED
    BY <1>1, <1>2, <2>3, <2>4, <2>5, StoreStays
<1>5. CASE StorePausedEntry
  <2> DEFINE n == More(row.elapsed, e.elapsed)
             r == [row EXCEPT !.status = "paused", !.downloaded = e.downloaded, !.total = Total,
                              !.elapsed = More(@, e.elapsed)]
  <2>1. /\ row' = [row EXCEPT !.status = r.status, !.url = r.url, !.total = r.total,
                              !.downloaded = r.downloaded, !.elapsed = r.elapsed]
        /\ e.kind = "paused" /\ sent' = sent /\ tasks' = tasks
    BY <1>5 DEF StorePausedEntry, AddToMasterList, Next1, e
  <2>2. r.elapsed = n
    BY <1>2 DEF IsRow, HasFields, RowFields
  <2>3. n \in Nat /\ (~plain => n <= worked)
    BY <1>2, <2>1 DEF IsRow, IsEvent, More, Agrees
  <2> HIDE DEF r, n
  <2>4. HasFields(row', RowFields) /\ row'.elapsed = n
    BY <1>3, <2>1, <2>2
  <2>5. IsRow(row')
    BY <2>3, <2>4 DEF IsRow
  <2>6. e \in Contents(sent')
    BY <1>2, <2>1
  <2>7. QED
    BY <1>1, <2>1, <2>3, <2>4, <2>5, <2>6, StoreStays
<1>6. CASE StorePausedState
  <2> DEFINE n == More(row.elapsed, e.elapsed)
             s == [e EXCEPT !.elapsed = More(row.elapsed, @)]
  <2>1. e.kind = "paused" /\ sent' = Tail(sent) /\ SaveState(s)
    BY <1>6 DEF StorePausedState, Next1, Taken, e
  <2>2. s.elapsed = n
    BY <1>2, <2>1 DEF IsEvent, HasFields, PausedFields
  <2>3. n \in Nat /\ (~plain => Agrees(n))
    BY <1>2, <2>1 DEF IsRow, IsEvent, More, Agrees
  <2> HIDE DEF s, n
  <2>4. row' = [row EXCEPT !.status = "paused", !.url = s.url, !.total = Total, !.elapsed = s.elapsed,
                           !.downloaded = s.downloaded, !.size = s.size, !.bits = s.bits]
    BY <2>1 DEF SaveState
  <2>5. HasFields(row', RowFields) /\ row'.elapsed = n
    BY <1>2, <2>2, <2>4 DEF IsRow, HasFields, RowFields
  <2>6. IsRow(row')
    BY <2>3, <2>5 DEF IsRow
  <2>7. QED
    BY <1>1, <2>3, <2>5, <2>6, StoreStays DEF Agrees
<1>7. CASE StoreComplete
  <2> DEFINE r == [row EXCEPT !.status = "completed", !.downloaded = Total, !.total = Total,
                              !.elapsed = e.elapsed]
  <2>1. /\ row' = [row EXCEPT !.status = r.status, !.url = r.url, !.total = r.total,
                              !.downloaded = r.downloaded, !.elapsed = r.elapsed]
        /\ e.kind = "complete"
    BY <1>7 DEF StoreComplete, AddToMasterList, Next1, e
  <2>2. r.elapsed = e.elapsed
    BY <1>2 DEF IsRow, HasFields, RowFields
  <2> HIDE DEF r
  <2>3. HasFields(row', RowFields) /\ row'.elapsed = e.elapsed
    BY <1>3, <2>1, <2>2
  <2>4. IsRow(row') /\ (~plain => Agrees(row'.elapsed))
    BY <1>2, <2>1, <2>3 DEF IsRow, IsEvent
  <2>5. QED
    BY <1>1, <2>4, StoreStays DEF Agrees
<1>8. CASE DeleteTasks
  <2>1. tasks' = <<>> /\ row' = row
    BY <1>8 DEF DeleteTasks
  <2>2. QED
    BY <1>1, <1>2, <2>1, StoreStays
<1>9. QED
  BY <1>4, <1>5, <1>6, <1>7, <1>8

-----------------------------------------------------------------------------
(* Resume, a new address, a kill, and time.                                *)
LEMMA ResumeStays ==
  ASSUME ~Late, CheckpointInv, HotResume \/ ColdResume
  PROVE  CheckpointInv'
<1>1. /\ mode = "rest" /\ mode' = "queued"
      /\ UNCHANGED <<fetch, row, tasks, sent, now, worked, plain, count>>
  BY DEF HotResume, ColdResume, session, database, events, clock
<1>2. /\ \A f \in Fetchers : fetch[f] = IdleFetch
      /\ IsRow(row) /\ now \in Nat
  BY <1>1 DEF CheckpointInv, CheckpointTypes, Phases
<1>3. CASE HotResume
  <2>1. ps # NoState /\ UNCHANGED ps /\ sent = <<>>
    BY <1>3 DEF HotResume, EventsStored
  <2>2. CheckpointTypes'
    BY <1>1, <2>1 DEF CheckpointInv, CheckpointTypes
  <2>3. Phases'
    BY <1>1, <2>1, NoContents DEF CheckpointInv, Phases
  <2>4. Times'
    BY <1>1, <2>1 DEF CheckpointInv, Times, Agrees, Spent, Ticking
  <2>5. QED
    BY <2>2, <2>3, <2>4 DEF CheckpointInv
<1>4. CASE ColdResume
  <2>1. ps = NoState /\ sent = <<>> /\ count.kills # 0
    BY <1>4 DEF ColdResume, CheckpointInv, Phases
  <2>2. PICK saved \in {LoadState(row.url), LoadStates} : ps' = ResumedState(saved)
    BY <1>4 DEF ColdResume
  <2>3. saved.row = row
    BY <2>2 DEF LoadState, LoadStates
  <2> DEFINE q == [NewProgressState(saved.row.total) EXCEPT
                     !.downloaded = saved.row.downloaded, !.verified = saved.row.downloaded,
                     !.elapsed = saved.row.elapsed]
  <2>4. IsState(q) /\ q.elapsed = row.elapsed
    BY <1>2, <2>3 DEF NewProgressState, IsState, IsRow, HasFields, StateFields
  <2>5. ps' = SyncSessionStart(q)
    BY <2>2 DEF ResumedState
  <2> HIDE DEF q
  <2>6. IsState(ps') /\ ps'.elapsed = row.elapsed /\ ps'.since = now
    BY <1>2, <2>4, <2>5, MethodsSetClock
  <2>7. ps' # NoState
    BY <2>6, StateIsState
  <2>8. CheckpointTypes'
    BY <1>1, <1>2, <2>6 DEF CheckpointInv, CheckpointTypes
  <2>9. Phases'
    BY <1>1, <1>2, <2>1, <2>7, NoContents DEF CheckpointInv, Phases
  <2>10. Spent' = row.elapsed
    BY <1>1, <1>2, <2>6 DEF Spent, Ticking, IsRow
  <2>11. Times'
    BY <1>1, <2>1, <2>10, NoContents DEF CheckpointInv, Times, Agrees
  <2>12. QED
    BY <2>8, <2>9, <2>11 DEF CheckpointInv
<1>5. QED
  BY <1>3, <1>4

LEMMA UpdateURLStays == CheckpointInv /\ UpdateURL => CheckpointInv'
<1> SUFFICES ASSUME CheckpointInv, UpdateURL
             PROVE  CheckpointInv'
  OBVIOUS
<1>1. /\ count' = [count EXCEPT !.updates = @ + 1]
      /\ UNCHANGED <<mode, ps, fetch, tasks, sent, now, worked, plain>>
  BY DEF UpdateURL, Inc, session, events, clock
<1>2. PICK u : row' = [row EXCEPT !.url = u]
  BY DEF UpdateURL
<1>3. IsRow(row') /\ row'.elapsed = row.elapsed
  BY <1>2 DEF CheckpointInv, CheckpointTypes, IsRow, HasFields, RowFields
<1>4. count'.kills = count.kills
  BY <1>1 DEF CheckpointInv, CheckpointTypes
<1>5. CheckpointTypes'
  BY <1>1, <1>3 DEF CheckpointInv, CheckpointTypes
<1>6. Phases'
  BY <1>1, <1>4 DEF CheckpointInv, Phases
<1>7. Times'
  BY <1>1, <1>3, <1>4 DEF CheckpointInv, Times, Agrees, Spent, Ticking
<1>8. QED
  BY <1>5, <1>6, <1>7 DEF CheckpointInv

LEMMA KillStays == CheckpointInv /\ KillProcess => CheckpointInv'
<1> SUFFICES ASSUME CheckpointInv, KillProcess
             PROVE  CheckpointInv'
  OBVIOUS
<1>1. /\ mode' = "down" /\ ps' = NoState /\ fetch' = [f \in Fetchers |-> IdleFetch] /\ sent' = <<>>
      /\ count' = [count EXCEPT !.kills = @ + 1]
      /\ UNCHANGED <<row, tasks, now, worked, plain>>
  BY DEF KillProcess, SessionEnds, Inc, database, clock
<1>2. count'.kills # 0
  BY <1>1 DEF CheckpointInv, CheckpointTypes
<1>3. fetch' = [f \in Fetchers |-> fetch'[f]] /\ \A f \in Fetchers : fetch'[f] = IdleFetch
  BY <1>1
<1>4. CheckpointTypes'
  BY <1>1, <1>3, NoContents, IdleIsFetch DEF CheckpointInv, CheckpointTypes
<1>5. Phases'
  BY <1>1, <1>2, <1>3, NoContents, IdleIsFetch DEF CheckpointInv, Phases
<1>6. Times'
  BY <1>1, NoContents DEF CheckpointInv, Times
<1>7. QED
  BY <1>4, <1>5, <1>6 DEF CheckpointInv

LEMMA RestartStays == CheckpointInv /\ Restart => CheckpointInv'
<1> SUFFICES ASSUME CheckpointInv, Restart
             PROVE  CheckpointInv'
  OBVIOUS
<1>1. /\ mode = "down" /\ mode' = "rest"
      /\ row' = [row EXCEPT !.status = IF @ = "downloading" THEN "paused" ELSE @]
      /\ UNCHANGED <<ps, fetch, tasks, sent, now, worked, plain, count>>
  BY DEF Restart, memory, session, events, clock
<1>2. ps = NoState /\ count.kills # 0 /\ sent = <<>>
  BY <1>1 DEF CheckpointInv, Phases
<1>3. IsRow(row') /\ row'.elapsed = row.elapsed
  BY <1>1 DEF CheckpointInv, CheckpointTypes, IsRow, HasFields, RowFields
<1>4. CheckpointTypes'
  BY <1>1, <1>3 DEF CheckpointInv, CheckpointTypes
<1>5. Phases'
  BY <1>1, <1>2, NoContents DEF CheckpointInv, Phases
<1>6. Times'
  BY <1>1, <1>2, <1>3, NoContents DEF CheckpointInv, Times, Agrees
<1>7. QED
  BY <1>4, <1>5, <1>6 DEF CheckpointInv

(* A session's clock and the ticks are counted at the same time.           *)
LEMMA TickStays == CheckpointInv /\ Tick => CheckpointInv'
<1> SUFFICES ASSUME CheckpointInv, Tick
             PROVE  CheckpointInv'
  OBVIOUS
<1>1. /\ now' = now + 1
      /\ worked' = IF mode \in {"run", "pausing", "ending", "single"} THEN worked + 1 ELSE worked
      /\ UNCHANGED <<mode, ps, fetch, row, tasks, sent, plain, count>>
  BY DEF Tick, memory, session, database, events
<1>2. /\ now \in Nat /\ worked \in Nat /\ IsRow(row)
      /\ ps # NoState => IsState(ps) /\ ps.since <= now
  BY DEF CheckpointInv, CheckpointTypes
<1>3. CheckpointTypes'
  <2>1. now' \in Nat /\ worked' \in Nat
    BY <1>1, <1>2
  <2>2. ps # NoState => ps.since <= now'
    BY <1>1, <1>2 DEF IsState
  <2>3. QED
    BY <1>1, <1>2, <2>1, <2>2 DEF CheckpointInv, CheckpointTypes
<1>4. Phases'
  BY <1>1 DEF CheckpointInv, Phases
<1>5. CASE ~plain
  <2>1. mode # "single"
    BY <1>5 DEF CheckpointInv, Phases
  <2>2. worked' = IF Ticking THEN worked + 1 ELSE worked
    BY <1>1, <2>1 DEF Ticking
  <2>3. ps # NoState => Spent' = (IF Ticking THEN Spent + 1 ELSE Spent) /\ Spent \in Nat
    BY <1>1, <1>2 DEF Spent, Ticking, IsState
  <2>4. ps # NoState => Agrees(Spent)'
    BY <1>1, <1>2, <1>5, <2>2, <2>3 DEF CheckpointInv, Times, Agrees
  <2>5. row'.elapsed <= worked'
    BY <1>1, <1>2, <1>5, <2>2 DEF CheckpointInv, Times, IsRow
  <2>6. \A e \in Contents(sent) : e.kind # "started" => Agrees(e.elapsed) /\ ~Ticking
    BY <1>5 DEF CheckpointInv, Phases, Times, Ticking
  <2>7. \A e \in Contents(sent)' : e.kind # "started" => e.elapsed <= worked' /\ (count'.kills = 0 => e.elapsed = worked')
    BY <1>1, <2>2, <2>6 DEF Agrees
  <2>8. Times'
    BY <1>1, <1>5, <2>2, <2>4, <2>5, <2>7 DEF CheckpointInv, Times, Agrees, Ticking
  <2>9. QED
    BY <1>3, <1>4, <2>8 DEF CheckpointInv
<1>6. CASE plain
  BY <1>1, <1>3, <1>4, <1>6 DEF CheckpointInv, Times
<1>7. QED
  BY <1>5, <1>6

LEMMA CheckpointStep ==
  ASSUME ~Late, CheckpointInv, [CheckpointNext]_checkpointVars
  PROVE  CheckpointInv'
<1>1. CASE UNCHANGED checkpointVars
  <2>1. UNCHANGED <<mode, ps, fetch, row, tasks, sent, now, worked, plain, count>>
    BY <1>1 DEF checkpointVars, memory, session, database, events, clock
  <2>2. CheckpointTypes' /\ Phases' /\ Times'
    BY <2>1 DEF CheckpointInv, CheckpointTypes, Phases, Times, Agrees, Spent, Ticking
  <2>3. QED
    BY <2>2 DEF CheckpointInv
<1>2. QED
  BY <1>1, BeginStays, ConnectionStays, ModeStays, EndStays, StoresStay, ResumeStays,
     UpdateURLStays, KillStays, RestartStays, TickStays DEF CheckpointNext

LEMMA CheckpointStart == CheckpointInit => CheckpointInv
<1> SUFFICES ASSUME CheckpointInit
             PROVE  CheckpointInv
  OBVIOUS
<1>1. IsState(ps) /\ ps.since = 0 /\ ps.elapsed = 0
  BY DEF CheckpointInit, NewProgressState, IsState, HasFields, StateFields
<1>2. ps # NoState
  BY <1>1, StateIsState
<1>3. IsRow(row) /\ row.elapsed = 0
  BY DEF CheckpointInit, IsRow, HasFields, RowFields
<1>4. fetch = [f \in Fetchers |-> fetch[f]] /\ \A f \in Fetchers : fetch[f] = IdleFetch
  BY DEF CheckpointInit
<1>5. CheckpointTypes
  BY <1>1, <1>3, <1>4, NoContents, IdleIsFetch DEF CheckpointInit, CheckpointTypes
<1>6. Phases
  BY <1>2, <1>4, NoContents, IdleIsFetch DEF CheckpointInit, Phases
<1>7. Spent = 0
  BY <1>1 DEF CheckpointInit, Spent, Ticking
<1>8. Times
  BY <1>3, <1>7, NoContents DEF CheckpointInit, Times, Agrees
<1>9. QED
  BY <1>5, <1>6, <1>8 DEF CheckpointInv

(* For any file, chunks, connections and bounds, if nobody resumes before  *)
(* the last session's events are stored: the time recorded of a download   *)
(* is the time its sessions have run, however often it was paused, and no  *)
(* more than that after a kill (progress.go:197-223).                      *)
THEOREM ElapsedIsAlwaysWorked == ~Late => (CheckpointSpec => []ElapsedIsWorked)
<1>1. CheckpointInit => CheckpointInv
  BY CheckpointStart
<1>2. ~Late /\ CheckpointInv /\ [CheckpointNext]_checkpointVars => CheckpointInv'
  BY CheckpointStep
<1>3. CheckpointInv => ElapsedIsWorked
  <2>1. CheckpointInv => (~plain => row.elapsed <= worked /\ (ps # NoState => Agrees(Spent)))
    BY DEF CheckpointInv, Times
  <2>2. QED
    BY <2>1 DEF ElapsedIsWorked, Agrees, Spent, Ticking
<1>4. ASSUME ~Late
      PROVE  CheckpointSpec => []ElapsedIsWorked
  <2>1. CheckpointInv /\ [CheckpointNext]_checkpointVars => CheckpointInv'
    BY <1>2, <1>4
  <2>2. QED
    BY <1>1, <1>3, <2>1, PTL DEF CheckpointSpec
<1>5. QED
  BY <1>4

-----------------------------------------------------------------------------
(* Sums over a finite set, whatever the order in which they are taken.     *)

(* A set of numbers has a least one.                                       *)
LEMMA Least ==
  ASSUME NEW S, S \subseteq Nat, S # {}
  PROVE  \E m \in S : \A n \in S : m <= n
<1> DEFINE R == OpToRel(<, Nat)
<1>1. IsWellFoundedOn(R, Nat)
  BY NatLessThanWellFounded
<1>2. \A x, y \in Nat : <<y, x>> \in R <=> y < x
  BY DEF OpToRel
<1> HIDE DEF R
<1>3. PICK x \in S : \A y \in S : ~ (<<y, x>> \in R)
  BY <1>1, WFMin
<1>4. \A y \in S : x \in Nat /\ y \in Nat /\ ~ (y < x)
  BY <1>2, <1>3
<1>5. \A y \in S : x <= y
  BY <1>4
<1> QED BY <1>5

Some(s) == CHOOSE x \in s : TRUE

(* A function on the subsets of a finite set may be defined by taking one  *)
(* element after the other from the set.                                   *)
Defines(g, D, base, step) ==
  /\ g[{}] = base
  /\ \A s \in SUBSET D : s # {} => g[s] = step[<<Some(s), g[s \ {Some(s)}]>>]

LEMMA Recursion ==
  ASSUME NEW D, IsFiniteSet(D), NEW V, NEW base \in V, NEW step \in [D \X V -> V]
  PROVE  \E g \in [SUBSET D -> V] : Defines(g, D, base, step)
<1> DEFINE Body(g, s) == IF s = {} THEN base ELSE step[<<Some(s), g[s \ {Some(s)}]>>]
           Upto(n) == \E g \in [SUBSET D -> V] :
                        \A s \in SUBSET D : Cardinality(s) <= n => g[s] = Body(g, s)
<1>1. \A s \in SUBSET D : IsFiniteSet(s) /\ Cardinality(s) \in Nat
  BY FS_Subset, FS_CardinalityType
<1>2. \A s \in SUBSET D : s # {} =>
        /\ Some(s) \in s /\ Some(s) \in D /\ s \ {Some(s)} \in SUBSET D
        /\ Cardinality(s \ {Some(s)}) = Cardinality(s) - 1
  BY <1>1, FS_RemoveElement DEF Some
<1>3. Upto(0)
  <2> DEFINE g == [s \in SUBSET D |-> base]
  <2>1. ASSUME NEW s \in SUBSET D, Cardinality(s) <= 0
        PROVE  g[s] = Body(g, s)
    <3>1. s = {}
      BY <2>1, <1>1, FS_EmptySet
    <3>2. QED
      BY <3>1
  <2>2. g \in [SUBSET D -> V]
    OBVIOUS
  <2> HIDE DEF g
  <2>3. QED
    BY <2>1, <2>2
<1>4. ASSUME NEW g \in [SUBSET D -> V], NEW s \in SUBSET D
      PROVE  Body(g, s) \in V
  BY <1>2
<1>5. ASSUME NEW n \in Nat, Upto(n)
      PROVE  Upto(n + 1)
  <2>1. PICK g \in [SUBSET D -> V] : \A s \in SUBSET D : Cardinality(s) <= n => g[s] = Body(g, s)
    BY <1>5
  <2> DEFINE h == [s \in SUBSET D |-> Body(g, s)]
  <2>2. ASSUME NEW s \in SUBSET D, Cardinality(s) <= n + 1
        PROVE  h[s] = Body(h, s)
    <3>1. CASE s = {}
      BY <3>1
    <3>2. CASE s # {}
      <4> DEFINE t == s \ {Some(s)}
      <4>1. t \in SUBSET D /\ Cardinality(t) <= n
        BY <3>2, <2>2, <1>1, <1>2
      <4>2. h[t] = Body(g, t) /\ g[t] = Body(g, t)
        BY <4>1, <2>1
      <4>3. h[s] = Body(g, s)
        OBVIOUS
      <4>4. QED
        BY <3>2, <4>2, <4>3
    <3>3. QED
      BY <3>1, <3>2
  <2>3. h \in [SUBSET D -> V]
    <3> HIDE DEF Body
    <3>1. QED
      BY <1>4
  <2> HIDE DEF h
  <2>4. QED
    BY <2>2, <2>3
<1> HIDE DEF Upto
<1>6. \A n \in Nat : Upto(n)
  <2> DEFINE S == {n \in Nat : ~Upto(n)}
  <2>1. CASE S # {}
    <3>1. PICK m \in S : \A n \in S : m <= n
      BY <2>1, Least
    <3>2. m # 0
      BY <1>3
    <3>3. m - 1 \in Nat /\ m - 1 \notin S
      BY <3>1, <3>2
    <3>4. Upto(m - 1)
      BY <3>3
    <3>5. Upto((m - 1) + 1)
      BY <3>3, <3>4, <1>5
    <3>6. QED
      BY <3>5
  <2>2. QED
    BY <2>1
<1>7. Cardinality(D) \in Nat /\ \A s \in SUBSET D : Cardinality(s) <= Cardinality(D)
  BY FS_CardinalityType, FS_Subset
<1>8. PICK g \in [SUBSET D -> V] : \A s \in SUBSET D : g[s] = Body(g, s)
  BY <1>6, <1>7 DEF Upto
<1>9. QED
  BY <1>8 DEF Defines

(* One way to add up the values of f over each subset of its domain.       *)
Adds(g, f) ==
  /\ g[{}] = 0
  /\ \A s \in SUBSET DOMAIN f : s # {} => g[s] = f[Some(s)] + g[s \ {Some(s)}]

LEMMA SumOfAdds ==
  ASSUME NEW f, IsFiniteSet(DOMAIN f), \A x \in DOMAIN f : f[x] \in Int
  PROVE  \E g : Adds(g, f) /\ SumOf(f) = g[DOMAIN f]
<1> DEFINE D == DOMAIN f
           step == [c \in D \X Int |-> f[c[1]] + c[2]]
           Body(g, s) == IF s = {} THEN 0 ELSE f[Some(s)] + g[s \ {Some(s)}]
           it == CHOOSE g : g = [s \in SUBSET D |-> Body(g, s)]
<1>1. step \in [D \X Int -> Int] /\ \A x \in D, n \in Int : step[<<x, n>>] = f[x] + n
  OBVIOUS
<1> HIDE DEF step
<1>2. \E g \in [SUBSET D -> Int] : Defines(g, D, 0, step)
  <2>1. IsFiniteSet(D) /\ 0 \in Int /\ step \in [D \X Int -> Int]
    BY <1>1
  <2> HIDE DEF D
  <2>2. QED
    BY <2>1, Recursion
<1>3. PICK g \in [SUBSET D -> Int] : Defines(g, D, 0, step)
  BY <1>2
<1>4. \A s \in SUBSET D : g[s] = Body(g, s)
  <2>1. ASSUME NEW s \in SUBSET D, s # {}
        PROVE  g[s] = f[Some(s)] + g[s \ {Some(s)}]
    <3>1. Some(s) \in D /\ g[s \ {Some(s)}] \in Int
      BY <2>1 DEF Some
    <3>2. g[s] = step[<<Some(s), g[s \ {Some(s)}]>>]
      BY <1>3, <2>1 DEF Defines
    <3>3. QED
      BY <1>1, <3>1, <3>2
  <2>2. g[{}] = 0
    BY <1>3 DEF Defines
  <2>3. QED
    BY <2>1, <2>2
<1>5. \E k : k = [s \in SUBSET D |-> Body(k, s)]
  <2>1. g = [s \in SUBSET D |-> Body(g, s)]
    BY <1>4
  <2>2. QED
    BY <2>1
<1>6. it = [s \in SUBSET D |-> Body(it, s)]
  BY <1>5
<1>7. SumOf(f) = it[D]
  BY DEF SumOf, FoldFunction, FoldFunctionOnSet, MapThenFoldSet, Some
<1> HIDE DEF it
<1>8. Adds(it, f)
  BY <1>6 DEF Adds
<1>9. QED
  BY <1>7, <1>8

(* A set of subsets of a finite set has one that is minimal.               *)
LEMMA Minimal ==
  ASSUME NEW D, IsFiniteSet(D), NEW B, B \subseteq SUBSET D, B # {}
  PROVE  \E s \in B : \A t \in SUBSET s : t # s => t \notin B
<1> DEFINE N == {Cardinality(s) : s \in B}
<1>1. \A s \in B : IsFiniteSet(s) /\ Cardinality(s) \in Nat
  BY FS_Subset, FS_CardinalityType
<1>2. N \subseteq Nat /\ N # {}
  BY <1>1
<1>3. PICK m \in N : \A n \in N : m <= n
  <2> HIDE DEF N
  <2> QED BY <1>2, Least
<1>4. PICK s \in B : m = Cardinality(s)
  BY <1>3
<1>5. ASSUME NEW t \in SUBSET s, t # s, t \in B
      PROVE  FALSE
  <2>1. Cardinality(t) <= Cardinality(s) /\ (Cardinality(t) = Cardinality(s) => t = s)
    BY <1>1, FS_Subset
  <2>2. Cardinality(s) <= Cardinality(t)
    BY <1>3, <1>4, <1>5
  <2> QED BY <1>1, <1>5, <2>1, <2>2
<1> QED BY <1>5

(* In whatever order: any value may be taken out first.                    *)
AnyFirst(g, f) ==
  \A s \in SUBSET DOMAIN f : g[s] \in Int /\ \A x \in s : g[s] = f[x] + g[s \ {x}]

LEMMA AddsAny ==
  ASSUME NEW f, IsFiniteSet(DOMAIN f), \A x \in DOMAIN f : f[x] \in Int, NEW g, Adds(g, f)
  PROVE  AnyFirst(g, f)
<1> DEFINE D == DOMAIN f
           ByAny(s) == g[s] \in Int /\ \A x \in s : g[s] = f[x] + g[s \ {x}]
           B == {s \in SUBSET D : ~ByAny(s)}
<1> SUFFICES ASSUME B # {}
             PROVE  FALSE
  BY DEF AnyFirst
<1>1. PICK s \in B : \A t \in SUBSET s : t # s => t \notin B
  <2>1. B \subseteq SUBSET D
    OBVIOUS
  <2> HIDE DEF B
  <2> QED BY <2>1, Minimal
<1>2. \A t \in SUBSET s : t # s => ByAny(t)
  BY <1>1
<1>3. s # {}
  <2>1. g[{}] = 0
    BY DEF Adds
  <2>2. ByAny({})
    BY <2>1
  <2> HIDE DEF ByAny
  <2> QED BY <1>1, <2>2
<1> DEFINE c == Some(s)
<1>4. c \in s /\ c \in D /\ f[c] \in Int /\ s \in SUBSET D
  BY <1>1, <1>3 DEF Some
<1>5. g[s] = f[c] + g[s \ {c}] /\ ByAny(s \ {c})
  BY <1>1, <1>2, <1>3, <1>4 DEF Adds
<1> HIDE DEF c
<1>6. ASSUME NEW x \in s, x # c
      PROVE  g[s] = f[x] + g[s \ {x}]
  <2> DEFINE u == (s \ {c}) \ {x}
  <2>1. ByAny(s \ {x}) /\ c \in s \ {x} /\ x \in s \ {c} /\ (s \ {x}) \ {c} = u
    BY <1>2, <1>4, <1>6
  <2>2. g[s \ {x}] = f[c] + g[u]
    BY <2>1
  <2>3. g[s \ {c}] = f[x] + g[u]
    BY <1>5, <2>1
  <2>4. g[u] \in Int
    <3>1. u \in SUBSET s /\ u # s
      BY <1>6
    <3> QED BY <1>2, <3>1
  <2>5. f[x] \in Int /\ f[c] \in Int
    BY <1>4
  <2> HIDE DEF u
  <2> QED BY <1>5, <2>2, <2>3, <2>4, <2>5
<1>7. ByAny(s)
  <2>1. g[s] \in Int
    BY <1>4, <1>5
  <2> QED BY <1>5, <1>6, <2>1
<1> QED BY <1>1, <1>7

LEMMA AddsSame ==
  ASSUME NEW f, NEW e, IsFiniteSet(DOMAIN f), DOMAIN e \subseteq DOMAIN f,
         \A x \in DOMAIN e : e[x] = f[x],
         NEW g, Adds(g, f), NEW h, Adds(h, e)
  PROVE  \A s \in SUBSET DOMAIN e : g[s] = h[s]
<1> DEFINE B == {s \in SUBSET DOMAIN e : g[s] # h[s]}
<1> SUFFICES ASSUME B # {}
             PROVE  FALSE
  OBVIOUS
<1>1. PICK s \in B : \A t \in SUBSET s : t # s => t \notin B
  <2>1. B \subseteq SUBSET DOMAIN f
    OBVIOUS
  <2> HIDE DEF B
  <2> QED BY <2>1, Minimal
<1>2. s # {} /\ s \in SUBSET DOMAIN e /\ s \in SUBSET DOMAIN f
  BY <1>1 DEF Adds
<1> DEFINE c == Some(s)
<1>3. c \in s
  BY <1>2 DEF Some
<1>4. g[s] = f[c] + g[s \ {c}] /\ h[s] = e[c] + h[s \ {c}]
  BY <1>2 DEF Adds
<1> HIDE DEF c
<1>5. g[s \ {c}] = h[s \ {c}]
  BY <1>1, <1>3
<1>6. g[s] = h[s]
  BY <1>2, <1>3, <1>4, <1>5
<1> QED BY <1>1, <1>6

(* A sum is one of its values and the sum of the others.                   *)
LEMMA SumSplit ==
  ASSUME NEW f, IsFiniteSet(DOMAIN f), \A x \in DOMAIN f : f[x] \in Int, NEW x \in DOMAIN f
  PROVE  /\ SumOf(f) \in Int
         /\ SumOf(f) = f[x] + SumOf([y \in DOMAIN f \ {x} |-> f[y]])
         /\ SumOf([y \in DOMAIN f \ {x} |-> f[y]]) \in Int
<1> DEFINE e == [y \in DOMAIN f \ {x} |-> f[y]]
<1>1. PICK g : Adds(g, f) /\ SumOf(f) = g[DOMAIN f]
  BY SumOfAdds
<1>2. DOMAIN e = DOMAIN f \ {x} /\ \A y \in DOMAIN e : e[y] = f[y]
  OBVIOUS
<1>3. IsFiniteSet(DOMAIN e) /\ \A y \in DOMAIN e : e[y] \in Int
  BY <1>2, FS_Subset
<1> HIDE DEF e
<1>4. PICK h : Adds(h, e) /\ SumOf(e) = h[DOMAIN e]
  BY <1>3, SumOfAdds
<1>5. g[DOMAIN e] = h[DOMAIN e]
  <2>1. \A s \in SUBSET DOMAIN e : g[s] = h[s]
    BY <1>1, <1>2, <1>4, AddsSame
  <2> QED BY <2>1
<1>6. \A s \in SUBSET DOMAIN f : g[s] \in Int /\ \A y \in s : g[s] = f[y] + g[s \ {y}]
  <2>1. AnyFirst(g, f)
    BY <1>1, AddsAny
  <2> QED BY <2>1 DEF AnyFirst
<1>7. g[DOMAIN f] \in Int /\ g[DOMAIN f] = f[x] + g[DOMAIN e] /\ g[DOMAIN e] \in Int
  BY <1>2, <1>6
<1>8. /\ SumOf(f) \in Int
      /\ SumOf(f) = f[x] + SumOf(e)
      /\ SumOf(e) \in Int
  BY <1>1, <1>4, <1>5, <1>7
<1> QED BY <1>8 DEF e

LEMMA SumOfNone ==
  ASSUME NEW f, DOMAIN f = {}
  PROVE  SumOf(f) = 0
<1>1. IsFiniteSet(DOMAIN f) /\ \A x \in DOMAIN f : f[x] \in Int
  BY FS_EmptySet
<1>2. PICK g : Adds(g, f) /\ SumOf(f) = g[DOMAIN f]
  BY <1>1, SumOfAdds
<1> QED BY <1>2 DEF Adds

(* One value of a sum changes.                                             *)
LEMMA SumUpdate ==
  ASSUME NEW f, NEW e, IsFiniteSet(DOMAIN f), NEW x \in DOMAIN f, DOMAIN e = DOMAIN f,
         \A y \in DOMAIN f : f[y] \in Int /\ e[y] \in Int /\ (y # x => e[y] = f[y])
  PROVE  SumOf(f) \in Int /\ SumOf(e) = SumOf(f) - f[x] + e[x]
<1> DEFINE r(d) == [y \in DOMAIN d \ {x} |-> d[y]]
<1>1. r(f) = r(e)
  OBVIOUS
<1>2. SumOf(f) \in Int /\ SumOf(f) = f[x] + SumOf(r(f)) /\ SumOf(r(f)) \in Int
  BY SumSplit
<1>3. SumOf(e) = e[x] + SumOf(r(e))
  BY SumSplit
<1>4. f[x] \in Int /\ e[x] \in Int
  OBVIOUS
<1> HIDE DEF r
<1> QED BY <1>1, <1>2, <1>3, <1>4

(* The sizes of disjoint sets add up to the size of their union.           *)
LEMMA SumOfSizes ==
  ASSUME NEW b, IsFiniteSet(DOMAIN b), \A x \in DOMAIN b : IsFiniteSet(b[x]),
         \A x, y \in DOMAIN b : x # y => b[x] \cap b[y] = {}
  PROVE  /\ IsFiniteSet(UNION {b[x] : x \in DOMAIN b})
         /\ SumOf([x \in DOMAIN b |-> Cardinality(b[x])]) = Cardinality(UNION {b[x] : x \in DOMAIN b})
<1> DEFINE D == DOMAIN b
           U(s) == UNION {b[x] : x \in s}
           F(s) == [x \in s |-> Cardinality(b[x])]
           Good(s) == IsFiniteSet(U(s)) /\ SumOf(F(s)) = Cardinality(U(s))
           B == {s \in SUBSET D : ~Good(s)}
<1> SUFFICES ASSUME B # {}
             PROVE  FALSE
  <2>1. Good(D)
    OBVIOUS
  <2> QED BY <2>1
<1>1. PICK s \in B : \A t \in SUBSET s : t # s => t \notin B
  <2>1. B \subseteq SUBSET D
    OBVIOUS
  <2> HIDE DEF B
  <2> QED BY <2>1, Minimal
<1>2. \A x \in D : Cardinality(b[x]) \in Nat
  BY FS_CardinalityType
<1>3. s # {}
  <2>1. ASSUME s = {} PROVE FALSE
    <3>1. U(s) = {} /\ DOMAIN F(s) = {}
      BY <2>1
    <3>2. SumOf(F(s)) = 0
      BY <3>1, SumOfNone
    <3>3. IsFiniteSet(U(s)) /\ Cardinality(U(s)) = 0
      BY <3>1, FS_EmptySet
    <3> QED BY <1>1, <3>2, <3>3
  <2> QED BY <2>1
<1>4. PICK x \in s : TRUE
  BY <1>3
<1> DEFINE t == s \ {x}
<1>5. Good(t)
  BY <1>1, <1>4
<1>6. U(s) = U(t) \cup b[x] /\ U(t) \cap b[x] = {} /\ x \in D /\ s \in SUBSET D
  BY <1>1, <1>4
<1>7. IsFiniteSet(U(s)) /\ Cardinality(U(s)) = Cardinality(U(t)) + Cardinality(b[x])
  <2> HIDE DEF U
  <2>1. IsFiniteSet(U(t)) /\ IsFiniteSet(b[x])
    BY <1>5, <1>6
  <2>2. /\ IsFiniteSet(U(t) \cup b[x])
        /\ Cardinality(U(t) \cup b[x])
             = Cardinality(U(t)) + Cardinality(b[x]) - Cardinality(U(t) \cap b[x])
    BY <2>1, FS_Union
  <2>3. Cardinality({}) = 0 /\ Cardinality(U(t)) \in Nat /\ Cardinality(b[x]) \in Nat
    BY <2>1, FS_EmptySet, FS_CardinalityType
  <2>4. Cardinality(U(t) \cap b[x]) = 0
    BY <1>6, <2>3
  <2>5. U(s) = U(t) \cup b[x]
    BY <1>6
  <2> HIDE DEF t
  <2> QED BY <2>2, <2>3, <2>4, <2>5
<1>8. SumOf(F(s)) = Cardinality(b[x]) + SumOf(F(t)) /\ SumOf(F(t)) \in Int
  <2> DEFINE k == F(s)
  <2>1. DOMAIN k = s /\ k[x] = Cardinality(b[x]) /\ \A y \in DOMAIN k : k[y] \in Int
    BY <1>2, <1>6
  <2>2. [y \in s \ {x} |-> k[y]] = F(t)
    OBVIOUS
  <2>3. IsFiniteSet(s)
    BY <1>6, FS_Subset
  <2> HIDE DEF k, F
  <2>4. /\ SumOf(k) = k[x] + SumOf([y \in DOMAIN k \ {x} |-> k[y]])
        /\ SumOf([y \in DOMAIN k \ {x} |-> k[y]]) \in Int
    BY <2>1, <2>3, SumSplit
  <2>5. SumOf(k) = k[x] + SumOf(F(t)) /\ SumOf(F(t)) \in Int
    BY <2>1, <2>2, <2>4
  <2> QED BY <2>1, <2>5 DEF k
<1>9. Good(s)
  <2>1. SumOf(F(t)) = Cardinality(U(t)) /\ Cardinality(b[x]) \in Nat
    BY <1>5, <1>2, <1>6
  <2> HIDE DEF F, U, t
  <2> QED BY <1>7, <1>8, <2>1
<1> QED BY <1>1, <1>9

-----------------------------------------------------------------------------
(* The progress of a download, counted by bytes and by chunks.             *)

File == 0 .. (Total - 1)
ChunkBytes(s, i) == BytesOf(Task(i * s, ChunkLen(s, i)))
TaskBytes(ts) == UNION {BytesOf(ts[k]) : k \in DOMAIN ts}

\* Tasks ask for bytes of the file, and for none twice.
GoodTask(t) == t = Task(t.off, t.len) /\ t.off \in Nat /\ t.len \in Nat /\ t.off + t.len <= Total
GoodTasks(ts) ==
  /\ ts = [k \in 1 .. Len(ts) |-> ts[k]] /\ Len(ts) \in Nat
  /\ \A k \in 1 .. Len(ts) : GoodTask(ts[k])
  /\ \A k, j \in 1 .. Len(ts) : k # j => BytesOf(ts[k]) \cap BytesOf(ts[j]) = {}

\* What a connection has yet to fetch, and what it has yet to report.
ToFetch(a) == a.off .. (a.stop - 1)
ToReport(a) == IF a.add = -1 THEN a.from .. (a.from + a.n - 1) ELSE {}
OpenBytes(a) == ToFetch(a) \cup ToReport(a)
Unknown == TaskBytes(plan) \cup UNION {OpenBytes(fetch[f]) : f \in Fetchers}
Known == File \ Unknown

FetchOK(a) ==
  /\ {a.off, a.stop, a.from, a.n} \subseteq Nat
  /\ a.off <= a.stop /\ a.stop <= Total
  /\ a.n > 0 => a.from + a.n = a.off
  /\ a.add # -1 => a.add = a.n

\* The map says of every chunk how many of the bytes in the set it has.
Maps(p, bytes) ==
  /\ p.size \in ChunkSizes
  /\ p.chunk = [i \in Chunks(p.size) |-> Cardinality(ChunkBytes(p.size, i) \cap bytes)]
  /\ DOMAIN p.bits = Chunks(p.size)
  /\ \A i \in Chunks(p.size) : p.bits[i] = "completed" => p.chunk[i] = ChunkLen(p.size, i)

(* While connections fetch: no byte is in two hands, and what nobody has   *)
(* yet to fetch or to report is written, in the map, and counted.          *)
FetchInv ==
  /\ GoodTasks(plan)
  /\ \A f \in Fetchers : FetchOK(fetch[f])
  /\ \A f \in Fetchers : OpenBytes(fetch[f]) \cap TaskBytes(plan) = {}
  /\ \A f, g \in Fetchers : f # g => OpenBytes(fetch[f]) \cap OpenBytes(fetch[g]) = {}
  /\ Known \subseteq disk
  /\ \A f \in Fetchers : ToReport(fetch[f]) \subseteq disk
  /\ Maps(ps, Known) /\ ps.verified \in Nat
  /\ ps.verified + Adding = Cardinality(Known)

\* What is stored, or on its way, of a pause: all but its tasks is written.
Resumes(ts, s) == GoodTasks(ts) /\ File \ TaskBytes(ts) \subseteq disk /\ s \in ChunkSizes

MemoryMatches == tasks # <<>> /\ row.url = cfg.url
LastOf(q) == q[Len(q)]

(* Between sessions: memory and what is stored of the last pause agree.    *)
RestInv ==
  /\ cfg = [url |-> cfg.url, total |-> cfg.total, ranges |-> cfg.ranges]
  /\ tasks # <<>> => Resumes(tasks, row.size)
  /\ \A e \in Contents(sent) : e.kind = "paused" => e.tasks # <<>> /\ Resumes(e.tasks, e.size)
  /\ mode # "done" => row.status # "completed" /\ \A e \in Contents(sent) : e.kind # "complete"
  /\ mode = "rest" /\ ps # NoState =>
       IF sent = <<>> THEN MemoryMatches
       ELSE LastOf(sent).kind = "paused" /\ LastOf(sent).url = cfg.url
  /\ mode = "queued" /\ cfg.ranges => MemoryMatches \/ (ps.verified = 0 /\ ps.size = 0)

MapInv ==
  ~plain =>
    /\ mode \in {"run", "pausing"} => FetchInv
    /\ ps # NoState /\ mode \notin {"run", "pausing"} /\ ps.size > 0 =>
         ps.verified \in Nat /\ ps.verified = SumOf(ps.chunk)
    /\ mode = "ending" => ps.verified = Total
    /\ RestInv

LEMMA Sizes ==
  /\ Total \in Nat \ {0} /\ MaxRead \in Nat \ {0} /\ ChunkSizes \subseteq Nat \ {0}
  /\ IsFiniteSet(Fetchers)
  BY CheckpointAssumption DEF CheckpointAssumption

LEMMA IntervalSize ==
  ASSUME NEW a \in Int, NEW n \in Nat
  PROVE  IsFiniteSet(a .. (a + n - 1)) /\ Cardinality(a .. (a + n - 1)) = n
<1>1. a + n - 1 \in Int
  OBVIOUS
<1>2. /\ IsFiniteSet(a .. (a + n - 1))
      /\ Cardinality(a .. (a + n - 1)) = IF a > a + n - 1 THEN 0 ELSE (a + n - 1) - a + 1
  BY <1>1, FS_Interval
<1>3. QED
  BY <1>2

LEMMA TimesGrow ==
  ASSUME NEW a \in Nat, NEW b \in Nat, NEW s \in Nat, a < b
  PROVE  a * s + s <= b * s /\ (a + 1) * s = a * s + s /\ a * s \in Nat
<1>1. PICK d \in Nat : b = a + 1 + d
  <2>1. b - a - 1 \in Nat /\ b = a + 1 + (b - a - 1)
    OBVIOUS
  <2>2. QED
    BY <2>1
<1>2. b * s = a * s + s + d * s /\ d * s \in Nat /\ a * s \in Nat
  BY <1>1
<1>3. QED
  BY <1>2

LEMMA Quotient ==
  ASSUME NEW a \in Nat, NEW s \in Nat \ {0}
  PROVE  LET q == a \div s IN q \in Nat /\ q * s \in Nat /\ q * s <= a /\ a < q * s + s
  OBVIOUS

LEMMA FileSize == IsFiniteSet(File) /\ Cardinality(File) = Total
<1>1. File = 0 .. (0 + Total - 1)
  BY Sizes DEF File
<1>2. 0 \in Int /\ Total \in Nat
  BY Sizes
<1>3. IsFiniteSet(0 .. (0 + Total - 1)) /\ Cardinality(0 .. (0 + Total - 1)) = Total
  BY <1>2, IntervalSize
<1>4. QED
  BY <1>1, <1>3

(* The chunks of one size.                                                 *)
LEMMA ChunkIsTask ==
  ASSUME NEW s \in Nat \ {0}, NEW i \in Chunks(s)
  PROVE  /\ i \in Nat /\ i * s \in Nat /\ (i + 1) * s = i * s + s
         /\ i * s < Total /\ ChunkLen(s, i) = Less(Total, i * s + s) - i * s
         /\ ChunkLen(s, i) \in 1 .. s /\ GoodTask(Task(i * s, ChunkLen(s, i)))
<1> DEFINE m == (Total + s - 1) \div s
<1>1. /\ Total + s - 1 \in Nat
      /\ m \in Nat /\ m * s \in Nat /\ m * s <= Total + s - 1
  BY Sizes, Quotient
<1>2. i \in Nat /\ i < m
  BY <1>1 DEF Chunks
<1> HIDE DEF m
<1>3. i * s + s <= m * s /\ (i + 1) * s = i * s + s /\ i * s \in Nat
  BY <1>1, <1>2, TimesGrow
<1>4. i * s < Total
  BY <1>1, <1>3, Sizes
<1>5. ChunkLen(s, i) = Less(Total, i * s + s) - i * s
  BY <1>3 DEF ChunkLen
<1> DEFINE a == i * s
<1> HIDE DEF a
<1>6. ChunkLen(s, i) = Less(Total, a + s) - a /\ a \in Nat /\ a < Total
  BY <1>3, <1>4, <1>5 DEF a
<1>7. ChunkLen(s, i) \in 1 .. s /\ ChunkLen(s, i) \in Nat /\ a + ChunkLen(s, i) <= Total
  BY <1>6, Sizes DEF Less
<1>8. GoodTask(Task(a, ChunkLen(s, i)))
  BY <1>6, <1>7 DEF GoodTask, Task
<1>9. QED
  BY <1>2, <1>3, <1>4, <1>5, <1>7, <1>8 DEF a

(* Every byte of the file is in the one chunk its place says.              *)
LEMMA ByteInChunk ==
  ASSUME NEW s \in Nat \ {0}, NEW x \in File
  PROVE  /\ x \div s \in Chunks(s) /\ x \in ChunkBytes(s, x \div s)
         /\ \A i \in Chunks(s) : x \in ChunkBytes(s, i) => i = x \div s
<1> DEFINE q == x \div s
           m == (Total + s - 1) \div s
<1>1. x \in Nat /\ x < Total
  BY Sizes DEF File
<1>2. q \in Nat /\ q * s \in Nat /\ q * s <= x /\ x < q * s + s
  BY <1>1, Quotient
<1>3. /\ Total + s - 1 \in Nat
      /\ m \in Nat /\ m * s \in Nat /\ Total + s - 1 < m * s + s
  BY Sizes, Quotient
<1> HIDE DEF q
<1>4. q \in Chunks(s)
  <2> HIDE DEF m
  <2>1. ASSUME m <= q PROVE FALSE
    <3>1. m * s <= q * s
      <4>1. CASE m = q
        BY <4>1, <1>2
      <4>2. CASE m < q
        BY <4>2, <1>2, <1>3, TimesGrow
      <4>3. QED
        BY <2>1, <4>1, <4>2, <1>2, <1>3
    <3>2. QED
      BY <1>1, <1>2, <1>3, <3>1, Sizes
  <2>2. q \in 0 .. (m - 1)
    BY <2>1, <1>2, <1>3
  <2>3. QED
    BY <2>2 DEF Chunks, m
<1>5. x \in ChunkBytes(s, q)
  <2>1. /\ ChunkLen(s, q) = Less(Total, q * s + s) - q * s
        /\ ChunkLen(s, q) \in 1 .. s
    BY <1>4, ChunkIsTask
  <2>2. x < q * s + ChunkLen(s, q)
    BY <2>1, <1>1, <1>2, Sizes DEF Less
  <2>3. x \in (q * s) .. (q * s + ChunkLen(s, q) - 1)
    BY <2>1, <2>2, <1>1, <1>2
  <2>4. QED
    BY <2>3 DEF ChunkBytes, BytesOf, Task
<1>6. ASSUME NEW i \in Chunks(s), x \in ChunkBytes(s, i)
      PROVE  i = q
  <2>1. /\ i \in Nat /\ i * s \in Nat
        /\ ChunkLen(s, i) \in 1 .. s
    BY ChunkIsTask
  <2>2. x \in (i * s) .. (i * s + ChunkLen(s, i) - 1)
    BY <1>6 DEF ChunkBytes, BytesOf, Task
  <2>3. i * s <= x /\ x < i * s + s
    BY <2>1, <2>2, <1>1
  <2>4. ~(i < q)
    <3>1. ASSUME i < q PROVE FALSE
      <4>1. i * s + s <= q * s
        BY <3>1, <2>1, <1>2, TimesGrow
      <4>2. QED
        BY <4>1, <2>1, <2>3, <1>1, <1>2
    <3>2. QED
      BY <3>1
  <2>5. ~(q < i)
    <3>1. ASSUME q < i PROVE FALSE
      <4>1. q * s + s <= i * s
        BY <3>1, <2>1, <1>2, TimesGrow
      <4>2. QED
        BY <4>1, <2>1, <2>3, <1>1, <1>2
    <3>2. QED
      BY <3>1
  <2>6. QED
    BY <2>1, <2>4, <2>5, <1>2
<1>7. QED
  BY <1>4, <1>5, <1>6 DEF q

LEMMA ChunksFinite ==
  ASSUME NEW s \in Nat \ {0}
  PROVE  IsFiniteSet(Chunks(s)) /\ Chunks(s) = 0 .. (Cardinality(Chunks(s)) - 1)
<1> DEFINE m == (Total + s - 1) \div s
<1>1. m \in Nat
  BY Sizes, Quotient
<1>2. Chunks(s) = 0 .. (m - 1)
  BY DEF Chunks
<1> HIDE DEF m
<1>3. IsFiniteSet(0 .. (0 + m - 1)) /\ Cardinality(0 .. (0 + m - 1)) = m
  BY <1>1, IntervalSize
<1>4. 0 + m - 1 = m - 1
  BY <1>1
<1>5. QED
  BY <1>2, <1>3, <1>4

LEMMA UnionSize ==
  ASSUME NEW a, NEW b, IsFiniteSet(a), IsFiniteSet(b), a \cap b = {}
  PROVE  IsFiniteSet(a \cup b) /\ Cardinality(a \cup b) = Cardinality(a) + Cardinality(b)
<1>1. IsFiniteSet(a \cup b) /\ Cardinality(a \cup b) = Cardinality(a) + Cardinality(b) - Cardinality(a \cap b)
  BY FS_Union
<1>2. Cardinality(a \cap b) = 0 /\ Cardinality(a) \in Nat /\ Cardinality(b) \in Nat
  BY FS_EmptySet, FS_CardinalityType
<1>3. QED
  BY <1>1, <1>2

LEMMA PartSize ==
  ASSUME NEW a, NEW b, IsFiniteSet(b), a \subseteq b
  PROVE  /\ IsFiniteSet(a) /\ Cardinality(a) \in Nat /\ Cardinality(b) \in Nat
         /\ Cardinality(a) <= Cardinality(b)
         /\ Cardinality(a) = Cardinality(b) => a = b
  BY FS_Subset, FS_CardinalityType

LEMMA TaskSize ==
  ASSUME NEW t, GoodTask(t)
  PROVE  /\ IsFiniteSet(BytesOf(t)) /\ Cardinality(BytesOf(t)) = t.len
         /\ BytesOf(t) \subseteq File
<1>1. t.off \in Nat /\ t.off \in Int /\ t.len \in Nat /\ t.off + t.len <= Total
  BY DEF GoodTask
<1>2. IsFiniteSet(BytesOf(t)) /\ Cardinality(BytesOf(t)) = t.len
  BY <1>1, IntervalSize DEF BytesOf
<1>3. BytesOf(t) \subseteq File
  BY <1>1, Sizes DEF BytesOf, File
<1>4. QED
  BY <1>2, <1>3

LEMMA ChunkSize ==
  ASSUME NEW s \in Nat \ {0}, NEW i \in Chunks(s)
  PROVE  /\ IsFiniteSet(ChunkBytes(s, i)) /\ Cardinality(ChunkBytes(s, i)) = ChunkLen(s, i)
         /\ ChunkBytes(s, i) \subseteq File /\ ChunkLen(s, i) \in Nat \ {0}
<1>1. GoodTask(Task(i * s, ChunkLen(s, i))) /\ ChunkLen(s, i) \in 1 .. s
  BY ChunkIsTask
<1>2. Task(i * s, ChunkLen(s, i)).len = ChunkLen(s, i)
  BY DEF Task
<1>3. QED
  BY <1>1, <1>2, TaskSize DEF ChunkBytes

(* What a set has of each chunk adds up to the set.                        *)
LEMMA ChunkSum ==
  ASSUME NEW s \in Nat \ {0}, NEW b, b \subseteq File
  PROVE  SumOf([i \in Chunks(s) |-> Cardinality(ChunkBytes(s, i) \cap b)]) = Cardinality(b)
<1> DEFINE c == [i \in Chunks(s) |-> ChunkBytes(s, i) \cap b]
<1>1. IsFiniteSet(DOMAIN c)
  BY ChunksFinite
<1>2. \A i \in DOMAIN c : IsFiniteSet(c[i])
  <2>1. ASSUME NEW i \in Chunks(s)
        PROVE  IsFiniteSet(ChunkBytes(s, i) \cap b)
    BY ChunkSize, FS_Subset
  <2>2. QED
    BY <2>1
<1>3. ASSUME NEW i \in DOMAIN c, NEW j \in DOMAIN c, NEW x \in c[i], x \in c[j]
      PROVE  i = j
  <2>1. i \in Chunks(s) /\ j \in Chunks(s) /\ x \in ChunkBytes(s, i) /\ x \in ChunkBytes(s, j) /\ x \in File
    BY <1>3
  <2>2. QED
    BY <2>1, ByteInChunk
<1>4. UNION {c[i] : i \in DOMAIN c} = b
  <2>1. ASSUME NEW x \in b
        PROVE  x \in UNION {c[i] : i \in DOMAIN c}
    <3>1. x \div s \in Chunks(s) /\ x \in ChunkBytes(s, x \div s)
      BY ByteInChunk
    <3>2. QED
      BY <3>1
  <2>2. \A i \in DOMAIN c : c[i] \subseteq b
    OBVIOUS
  <2>3. QED
    BY <2>1, <2>2
<1>5. [i \in DOMAIN c |-> Cardinality(c[i])] = [i \in Chunks(s) |-> Cardinality(ChunkBytes(s, i) \cap b)]
  OBVIOUS
<1> HIDE DEF c
<1>6. SumOf([i \in DOMAIN c |-> Cardinality(c[i])]) = Cardinality(UNION {c[i] : i \in DOMAIN c})
  <2>1. \A i, j \in DOMAIN c : i # j => c[i] \cap c[j] = {}
    BY <1>3
  <2>2. QED
    BY <1>1, <1>2, <2>1, SumOfSizes
<1>7. QED
  BY <1>4, <1>5, <1>6

LEMMA OverlapIsSize ==
  ASSUME NEW s \in Nat \ {0}, NEW i \in Chunks(s), NEW t, GoodTask(t)
  PROVE  /\ Overlap(s, i, t) = Cardinality(ChunkBytes(s, i) \cap BytesOf(t))
         /\ Overlap(s, i, t) \in Nat
<1> DEFINE a == i * s
           l == ChunkLen(s, i)
           lo == More(t.off, a)
           hi == Less(t.off + t.len, a + l)
           n == More(0, hi - lo)
<1>1. a \in Nat /\ l \in Nat /\ t.off \in Nat /\ t.len \in Nat
  <2>1. i * s \in Nat /\ ChunkLen(s, i) \in 1 .. s
    BY ChunkIsTask
  <2>2. QED
    BY <2>1 DEF GoodTask
<1>2. Overlap(s, i, t) = n
  BY DEF Overlap
<1>3. ChunkBytes(s, i) = a .. (a + l - 1)
  BY DEF ChunkBytes, BytesOf, Task
<1> HIDE DEF a, l
<1>4. n \in Nat /\ lo \in Int /\ hi \in Int
  BY <1>1 DEF More, Less
<1>5. (a .. (a + l - 1)) \cap BytesOf(t) = lo .. (lo + n - 1)
  <2>1. ASSUME NEW x \in Int
        PROVE  (a <= x /\ x <= a + l - 1 /\ t.off <= x /\ x <= t.off + t.len - 1)
                 <=> (lo <= x /\ x <= lo + n - 1)
    BY <1>1 DEF More, Less
  <2>2. QED
    BY <2>1, <1>1, <1>4 DEF BytesOf
<1> HIDE DEF lo, n
<1>6. Cardinality(lo .. (lo + n - 1)) = n
  BY <1>4, IntervalSize
<1>7. QED
  BY <1>2, <1>3, <1>4, <1>5, <1>6

LEMMA TasksFinite ==
  ASSUME NEW ts, GoodTasks(ts)
  PROVE  /\ DOMAIN ts = 1 .. Len(ts) /\ IsFiniteSet(DOMAIN ts)
         /\ TaskBytes(ts) \subseteq File /\ IsFiniteSet(TaskBytes(ts))
         /\ \A k \in DOMAIN ts : GoodTask(ts[k])
<1>1. DOMAIN ts = 1 .. Len(ts) /\ Len(ts) \in Nat
  BY DEF GoodTasks
<1>2. IsFiniteSet(1 .. Len(ts))
  BY <1>1, FS_Interval
<1>3. \A k \in DOMAIN ts : GoodTask(ts[k])
  BY <1>1 DEF GoodTasks
<1>4. TaskBytes(ts) \subseteq File
  BY <1>3, TaskSize DEF TaskBytes
<1>5. QED
  BY <1>1, <1>2, <1>3, <1>4, FileSize, FS_Subset

LEMMA OverlapAllIsSize ==
  ASSUME NEW s \in Nat \ {0}, NEW i \in Chunks(s), NEW ts, GoodTasks(ts)
  PROVE  OverlapAll(s, i, ts) = Cardinality(ChunkBytes(s, i) \cap TaskBytes(ts))
<1> DEFINE c == [k \in DOMAIN ts |-> ChunkBytes(s, i) \cap BytesOf(ts[k])]
<1>1. IsFiniteSet(DOMAIN c)
  BY TasksFinite
<1>2. \A k \in DOMAIN c : IsFiniteSet(c[k]) /\ Cardinality(c[k]) = Overlap(s, i, ts[k])
  <2>1. ASSUME NEW k \in DOMAIN ts
        PROVE  /\ IsFiniteSet(ChunkBytes(s, i) \cap BytesOf(ts[k]))
               /\ Cardinality(ChunkBytes(s, i) \cap BytesOf(ts[k])) = Overlap(s, i, ts[k])
    <3>1. GoodTask(ts[k])
      BY TasksFinite
    <3>2. QED
      BY <3>1, OverlapIsSize, ChunkSize, FS_Subset
  <2>2. QED
    BY <2>1
<1>3. \A k, j \in DOMAIN c : k # j => c[k] \cap c[j] = {}
  BY TasksFinite DEF GoodTasks
<1>4. UNION {c[k] : k \in DOMAIN c} = ChunkBytes(s, i) \cap TaskBytes(ts)
  BY DEF TaskBytes
<1>5. [k \in DOMAIN c |-> Cardinality(c[k])] = [k \in DOMAIN ts |-> Overlap(s, i, ts[k])]
  BY <1>2
<1> HIDE DEF c
<1>6. SumOf([k \in DOMAIN c |-> Cardinality(c[k])]) = Cardinality(UNION {c[k] : k \in DOMAIN c})
  BY <1>1, <1>2, <1>3, SumOfSizes
<1>7. QED
  BY <1>4, <1>5, <1>6 DEF OverlapAll

LEMMA LengthsAddUp ==
  ASSUME NEW ts, GoodTasks(ts)
  PROVE  SumOf([k \in DOMAIN ts |-> ts[k].len]) = Cardinality(TaskBytes(ts))
<1> DEFINE c == [k \in DOMAIN ts |-> BytesOf(ts[k])]
<1>1. IsFiniteSet(DOMAIN c)
  BY TasksFinite
<1>2. \A k \in DOMAIN c : IsFiniteSet(c[k]) /\ Cardinality(c[k]) = ts[k].len
  BY TasksFinite, TaskSize
<1>3. \A k, j \in DOMAIN c : k # j => c[k] \cap c[j] = {}
  BY TasksFinite DEF GoodTasks
<1>4. UNION {c[k] : k \in DOMAIN c} = TaskBytes(ts)
  BY DEF TaskBytes
<1>5. [k \in DOMAIN c |-> Cardinality(c[k])] = [k \in DOMAIN ts |-> ts[k].len]
  BY <1>2
<1> HIDE DEF c
<1>6. SumOf([k \in DOMAIN c |-> Cardinality(c[k])]) = Cardinality(UNION {c[k] : k \in DOMAIN c})
  BY <1>1, <1>2, <1>3, SumOfSizes
<1>7. QED
  BY <1>4, <1>5, <1>6

-----------------------------------------------------------------------------
(* What the methods of a ProgressState do to its map.                      *)
LEMMA MapSum ==
  ASSUME NEW p, NEW b, Maps(p, b), b \subseteq File
  PROVE  SumOf(p.chunk) = Cardinality(b)
<1>1. p.size \in Nat \ {0}
  BY Sizes DEF Maps
<1>2. p.chunk = [i \in Chunks(p.size) |-> Cardinality(ChunkBytes(p.size, i) \cap b)]
  BY DEF Maps
<1>3. QED
  BY <1>1, <1>2, ChunkSum

LEMMA BlankMaps ==
  ASSUME NEW p, p.size \in ChunkSizes, p.chunk = Blank(p.size),
         p.bits = [i \in Chunks(p.size) |-> "pending"]
  PROVE  Maps(p, {})
<1>1. \A i \in Chunks(p.size) : ChunkBytes(p.size, i) \cap {} = {} /\ Cardinality({}) = 0
  BY FS_EmptySet
<1>2. p.chunk = [i \in Chunks(p.size) |-> Cardinality(ChunkBytes(p.size, i) \cap {})]
  BY <1>1 DEF Blank
<1>3. \A i \in Chunks(p.size) : p.bits[i] = "pending" /\ "pending" # "completed"
  OBVIOUS
<1>4. DOMAIN p.bits = Chunks(p.size)
  OBVIOUS
<1>5. QED
  BY <1>2, <1>3, <1>4 DEF Maps

LEMMA DownloadingMaps ==
  ASSUME NEW p, IsState(p), NEW b, Maps(p, b), NEW t
  PROVE  Maps(MarkDownloading(p, t), b) /\ MarkDownloading(p, t).verified = p.verified
<1> DEFINE q == MarkDownloading(p, t)
<1>1. /\ q.size = p.size /\ q.chunk = p.chunk /\ q.verified = p.verified
      /\ q.bits = [i \in DOMAIN p.bits |->
           IF Overlap(p.size, i, t) > 0 /\ p.bits[i] # "completed" THEN "downloading" ELSE p.bits[i]]
  BY DEF MarkDownloading, IsState, HasFields, StateFields
<1> HIDE DEF q
<1>2. DOMAIN q.bits = DOMAIN p.bits /\ \A i \in DOMAIN p.bits : q.bits[i] = "completed" => p.bits[i] = "completed"
  BY <1>1
<1>3. Maps(q, b)
  BY <1>1, <1>2 DEF Maps
<1>4. QED
  BY <1>1, <1>3 DEF q

(* A report adds to each chunk what it wrote there, and to the counter     *)
(* what it wrote.                                                          *)
LEMMA CompletedMaps ==
  ASSUME NEW p, IsState(p), NEW b, b \subseteq File, Maps(p, b),
         NEW t, GoodTask(t), BytesOf(t) \cap b = {}
  PROVE  /\ Maps(MarkCompleted(p, t), b \cup BytesOf(t))
         /\ MarkCompleted(p, t).verified = p.verified
         /\ GainAll(p, t) = t.len
<1> DEFINE q == MarkCompleted(p, t)
           s == p.size
           o(i) == Overlap(s, i, t)
           n(i) == Cardinality(ChunkBytes(s, i) \cap (b \cup BytesOf(t)))
<1>1. /\ q.size = s /\ q.verified = p.verified
      /\ q.chunk = [i \in DOMAIN p.chunk |-> p.chunk[i] + Gain(p, i, t)]
      /\ q.bits = [i \in DOMAIN p.bits |->
              IF o(i) = 0 \/ p.bits[i] = "completed" THEN p.bits[i]
              ELSE SetChunkState(p, i, p.chunk[i] + Gain(p, i, t))]
  BY DEF MarkCompleted, IsState, HasFields, StateFields
<1>2. s \in Nat \ {0} /\ s \in ChunkSizes
  BY Sizes DEF Maps
<1>3. ASSUME NEW i \in Chunks(s)
      PROVE  /\ Gain(p, i, t) = o(i) /\ p.chunk[i] + o(i) = n(i)
             /\ p.chunk[i] \in Nat /\ o(i) \in Nat /\ n(i) <= ChunkLen(s, i)
             /\ ChunkLen(s, i) \in Nat
             /\ o(i) = Cardinality(ChunkBytes(s, i) \cap BytesOf(t))
  <2> DEFINE c == ChunkBytes(s, i)
  <2>1. IsFiniteSet(c) /\ Cardinality(c) = ChunkLen(s, i) /\ ChunkLen(s, i) \in Nat
    BY <1>2, ChunkSize
  <2>2. o(i) = Cardinality(c \cap BytesOf(t)) /\ o(i) \in Nat
    BY <1>2, OverlapIsSize
  <2>3. p.chunk[i] = Cardinality(c \cap b)
    BY DEF Maps
  <2> HIDE DEF c
  <2>4. IsFiniteSet(c \cap b) /\ IsFiniteSet(c \cap BytesOf(t)) /\ Cardinality(c \cap b) \in Nat
    BY <2>1, PartSize
  <2>5. (c \cap b) \cap (c \cap BytesOf(t)) = {} /\ c \cap (b \cup BytesOf(t)) = (c \cap b) \cup (c \cap BytesOf(t))
    OBVIOUS
  <2>6. Cardinality(c \cap (b \cup BytesOf(t))) = Cardinality(c \cap b) + Cardinality(c \cap BytesOf(t))
    BY <2>4, <2>5, UnionSize
  <2>7. Cardinality(c \cap (b \cup BytesOf(t))) <= ChunkLen(s, i)
    BY <2>1, PartSize
  <2>8. n(i) = Cardinality(c \cap (b \cup BytesOf(t)))
    BY DEF c
  <2>9. Gain(p, i, t) = o(i)
    <3>1. Gain(p, i, t) = Less(o(i), ChunkLen(s, i) - p.chunk[i])
      BY DEF Gain
    <3> HIDE DEF o
    <3>2. o(i) <= ChunkLen(s, i) - p.chunk[i]
      BY <2>1, <2>2, <2>3, <2>4, <2>6, <2>7
    <3>3. o(i) \in Int /\ ChunkLen(s, i) - p.chunk[i] \in Int
      BY <2>1, <2>2, <2>3, <2>4
    <3>4. QED
      BY <3>1, <3>2, <3>3 DEF Less
  <2> HIDE DEF o, n
  <2>10. p.chunk[i] + o(i) = n(i) /\ p.chunk[i] \in Nat /\ n(i) <= ChunkLen(s, i)
    BY <2>2, <2>3, <2>4, <2>6, <2>7, <2>8
  <2>11. QED
    BY <2>1, <2>2, <2>9, <2>10 DEF c
<1>4. GainAll(p, t) = t.len
  <2>1. GainAll(p, t) = SumOf([i \in Chunks(s) |-> Cardinality(ChunkBytes(s, i) \cap BytesOf(t))])
    <3>1. [i \in Chunks(s) |-> Gain(p, i, t)] = [i \in Chunks(s) |-> Cardinality(ChunkBytes(s, i) \cap BytesOf(t))]
      BY <1>3
    <3>2. QED
      BY <3>1 DEF GainAll
  <2>2. QED
    BY <1>2, <2>1, ChunkSum, TaskSize
<1>5. DOMAIN p.chunk = Chunks(s) /\ DOMAIN p.bits = Chunks(s)
  BY DEF Maps
<1> HIDE DEF q, n, o
<1>6. q.chunk = [i \in Chunks(s) |-> n(i)]
  <2>1. \A i \in Chunks(s) : p.chunk[i] + Gain(p, i, t) = n(i)
    BY <1>3
  <2>2. QED
    BY <1>1, <1>5, <2>1
<1>7. ASSUME NEW i \in Chunks(s), q.bits[i] = "completed"
      PROVE  q.chunk[i] = ChunkLen(s, i)
  <2>1. q.chunk[i] = n(i) /\ n(i) = p.chunk[i] + o(i)
    BY <1>3, <1>6
  <2>2. CASE p.bits[i] = "completed"
    <3>1. p.chunk[i] = ChunkLen(s, i)
      BY <2>2 DEF Maps
    <3>2. /\ p.chunk[i] \in Nat /\ o(i) \in Nat /\ p.chunk[i] + o(i) = n(i)
          /\ n(i) <= ChunkLen(s, i)
      BY <1>3
    <3>3. n(i) = ChunkLen(s, i)
      BY <3>1, <3>2
    <3>4. QED
      BY <2>1, <3>3
  <2>3. CASE p.bits[i] # "completed"
    <3>1. SetChunkState(p, i, n(i)) = "completed"
      <4>1. q.bits[i] = IF o(i) = 0 \/ p.bits[i] = "completed" THEN p.bits[i]
                        ELSE SetChunkState(p, i, p.chunk[i] + Gain(p, i, t))
        BY <1>1, <1>5
      <4>2. q.bits[i] = SetChunkState(p, i, p.chunk[i] + Gain(p, i, t))
        BY <1>7, <2>3, <4>1
      <4>3. p.chunk[i] + Gain(p, i, t) = n(i)
        BY <1>3
      <4>4. QED
        BY <1>7, <4>2, <4>3
    <3>2. n(i) = ChunkLen(s, i)
      BY <3>1 DEF SetChunkState
    <3>3. QED
      BY <2>1, <3>2
  <2>4. QED
    BY <2>2, <2>3
<1>8. Maps(q, b \cup BytesOf(t))
  BY <1>1, <1>2, <1>5, <1>6, <1>7 DEF Maps, n
<1>9. QED
  BY <1>1, <1>4, <1>8 DEF q

(* What no remaining task asks for is counted.                             *)
LEMMA RecalculatedMaps ==
  ASSUME NEW p, IsState(p), p.size \in ChunkSizes, NEW ts, GoodTasks(ts)
  PROVE  LET q == RecalculateProgress(p, ts)
             b == File \ TaskBytes(ts)
         IN Maps(q, b) /\ q.verified = Cardinality(b)
<1> DEFINE q == RecalculateProgress(p, ts)
           s == p.size
           b == File \ TaskBytes(ts)
           left == [i \in Chunks(s) |-> OverlapAll(s, i, ts)]
           n == [i \in DOMAIN left |-> More(0, ChunkLen(s, i) - left[i])]
<1>1. /\ q.size = s /\ q.chunk = n /\ q.verified = Total - SumOf(left)
      /\ q.bits = [i \in DOMAIN n |-> SetChunkState(p, i, n[i])]
  BY DEF RecalculateProgress, IsState, HasFields, StateFields
<1>2. s \in Nat \ {0}
  BY Sizes
<1>3. TaskBytes(ts) \subseteq File /\ IsFiniteSet(TaskBytes(ts)) /\ IsFiniteSet(b)
  BY TasksFinite, FileSize, FS_Subset
<1>4. SumOf(left) = Cardinality(TaskBytes(ts))
  <2>1. left = [i \in Chunks(s) |-> Cardinality(ChunkBytes(s, i) \cap TaskBytes(ts))]
    BY <1>2, OverlapAllIsSize
  <2> HIDE DEF left
  <2>2. QED
    BY <1>2, <1>3, <2>1, ChunkSum
<1>5. Total - SumOf(left) = Cardinality(b)
  <2>1. b \cap TaskBytes(ts) = {} /\ b \cup TaskBytes(ts) = File
    BY <1>3
  <2>2. Cardinality(File) = Cardinality(b) + Cardinality(TaskBytes(ts))
    BY <1>3, <2>1, UnionSize
  <2>3. Cardinality(b) \in Nat /\ Cardinality(TaskBytes(ts)) \in Nat
    BY <1>3, FS_CardinalityType
  <2> HIDE DEF b, left
  <2>4. QED
    BY <1>4, <2>2, <2>3, FileSize
<1>6. ASSUME NEW i \in Chunks(s)
      PROVE  n[i] = Cardinality(ChunkBytes(s, i) \cap b)
  <2> DEFINE c == ChunkBytes(s, i)
  <2>1. IsFiniteSet(c) /\ Cardinality(c) = ChunkLen(s, i) /\ c \subseteq File
    BY <1>2, ChunkSize
  <2>2. left[i] = Cardinality(c \cap TaskBytes(ts))
    BY <1>2, OverlapAllIsSize
  <2>3. n[i] = More(0, ChunkLen(s, i) - left[i])
    OBVIOUS
  <2> HIDE DEF c, left, n
  <2>4. /\ IsFiniteSet(c \cap b) /\ IsFiniteSet(c \cap TaskBytes(ts))
        /\ Cardinality(c \cap b) \in Nat /\ Cardinality(c \cap TaskBytes(ts)) \in Nat
    BY <2>1, PartSize
  <2>5. (c \cap b) \cap (c \cap TaskBytes(ts)) = {} /\ c = (c \cap b) \cup (c \cap TaskBytes(ts))
    BY <2>1
  <2>6. Cardinality(c) = Cardinality(c \cap b) + Cardinality(c \cap TaskBytes(ts))
    BY <2>4, <2>5, UnionSize
  <2> HIDE DEF b
  <2>7. n[i] = Cardinality(c \cap b)
    BY <2>1, <2>2, <2>3, <2>4, <2>6 DEF More
  <2>8. QED
    BY <2>7 DEF c
<1>7. DOMAIN n = Chunks(s)
  OBVIOUS
<1>8. n = [i \in Chunks(s) |-> Cardinality(ChunkBytes(s, i) \cap b)]
  BY <1>6
<1> HIDE DEF q, n, b, left
<1>9. ASSUME NEW i \in Chunks(s), q.bits[i] = "completed"
      PROVE  q.chunk[i] = ChunkLen(s, i)
  BY <1>1, <1>7, <1>9 DEF SetChunkState
<1>10. Maps(q, b) /\ q.verified = Cardinality(b)
  BY <1>1, <1>5, <1>7, <1>8, <1>9 DEF Maps
<1>11. QED
  BY <1>10 DEF q, b

(* The tasks of a session that starts from the beginning.                  *)
LEMMA FreshTasksCover ==
  ASSUME NEW s \in Nat \ {0}
  PROVE  GoodTasks(FreshTasks(s)) /\ TaskBytes(FreshTasks(s)) = File
<1> DEFINE ts == FreshTasks(s)
           m == Cardinality(Chunks(s))
<1>1. Chunks(s) = 0 .. (m - 1) /\ m \in Nat
  BY ChunksFinite, FS_CardinalityType
<1>2. ts = [k \in 1 .. m |-> Task((k - 1) * s, ChunkLen(s, k - 1))]
  BY DEF FreshTasks
<1> HIDE DEF ts, m
<1>3. Len(ts) = m /\ DOMAIN ts = 1 .. m
  BY <1>1, <1>2
<1>4. ASSUME NEW k \in 1 .. m
      PROVE  k - 1 \in Chunks(s) /\ GoodTask(ts[k]) /\ BytesOf(ts[k]) = ChunkBytes(s, k - 1)
  <2>1. k - 1 \in Chunks(s)
    BY <1>1
  <2>2. ts[k] = Task((k - 1) * s, ChunkLen(s, k - 1))
    BY <1>2
  <2>3. QED
    BY <2>1, <2>2, ChunkIsTask DEF ChunkBytes
<1>5. ASSUME NEW k \in 1 .. m, NEW j \in 1 .. m, k # j
      PROVE  BytesOf(ts[k]) \cap BytesOf(ts[j]) = {}
  <2>1. k - 1 # j - 1
    BY <1>1, <1>5
  <2>2. ASSUME NEW x, x \in ChunkBytes(s, k - 1), x \in ChunkBytes(s, j - 1)
        PROVE  FALSE
    <3>1. k - 1 \in Chunks(s) /\ j - 1 \in Chunks(s)
      BY <1>4
    <3>2. x \in File
      BY <3>1, <2>2, ChunkSize
    <3>3. k - 1 = x \div s /\ j - 1 = x \div s
      BY <3>1, <3>2, <2>2, ByteInChunk
    <3>4. QED
      BY <2>1, <3>3
  <2>3. QED
    BY <1>4, <2>2
<1>6. GoodTasks(ts)
  <2>1. ts = [k \in 1 .. Len(ts) |-> ts[k]]
    BY <1>2, <1>3
  <2>2. QED
    BY <1>1, <1>3, <1>4, <1>5, <2>1 DEF GoodTasks
<1>7. ASSUME NEW x \in File
      PROVE  x \in TaskBytes(ts)
  <2>1. x \div s \in Chunks(s) /\ x \in ChunkBytes(s, x \div s)
    BY ByteInChunk
  <2> DEFINE k == x \div s + 1
  <2>2. x \div s \in Int /\ k \in 1 .. m /\ k - 1 = x \div s
    BY <1>1, <2>1
  <2> HIDE DEF k
  <2>3. x \in BytesOf(ts[k])
    BY <2>1, <2>2, <1>4
  <2>4. QED
    BY <2>2, <2>3, <1>3 DEF TaskBytes
<1>8. TaskBytes(ts) = File
  BY <1>6, <1>7, TasksFinite
<1>9. QED
  BY <1>6, <1>8 DEF ts

-----------------------------------------------------------------------------
(* Tasks in a row.                                                         *)
AnyTask == [off : Nat, len : Nat]

LEMMA TasksAreSeq ==
  ASSUME NEW ts, GoodTasks(ts)
  PROVE  ts \in Seq(AnyTask)
<1>1. \A k \in 1 .. Len(ts) : ts[k] \in AnyTask
  BY DEF GoodTasks, GoodTask, Task, AnyTask
<1>2. ts = [k \in 1 .. Len(ts) |-> ts[k]] /\ Len(ts) \in Nat
  BY DEF GoodTasks
<1>3. [k \in 1 .. Len(ts) |-> ts[k]] \in Seq(AnyTask)
  BY <1>1, <1>2, IsASeq
<1>4. QED
  BY <1>2, <1>3

LEMMA NoTasks == GoodTasks(<<>>) /\ TaskBytes(<<>>) = {}
<1>1. Len(<<>>) = 0 /\ <<>> = [k \in 1 .. Len(<<>>) |-> <<>>[k]] /\ DOMAIN <<>> = {}
  OBVIOUS
<1>2. QED
  BY <1>1 DEF GoodTasks, TaskBytes

LEMMA JoinTasks ==
  ASSUME NEW a, GoodTasks(a), NEW b, GoodTasks(b), TaskBytes(a) \cap TaskBytes(b) = {}
  PROVE  GoodTasks(a \o b) /\ TaskBytes(a \o b) = TaskBytes(a) \cup TaskBytes(b)
<1> DEFINE c == a \o b
           n == Len(a)
           m == Len(b)
<1>1. a \in Seq(AnyTask) /\ b \in Seq(AnyTask)
  BY TasksAreSeq
<1>2. /\ c \in Seq(AnyTask) /\ Len(c) = n + m /\ n \in Nat /\ m \in Nat
      /\ DOMAIN c = 1 .. (n + m) /\ DOMAIN a = 1 .. n /\ DOMAIN b = 1 .. m
      /\ \A k \in 1 .. (n + m) : c[k] = IF k <= n THEN a[k] ELSE b[k - n]
  BY <1>1
<1> HIDE DEF c
<1>3. ASSUME NEW k \in 1 .. (n + m), k <= n
      PROVE  k \in 1 .. n /\ c[k] = a[k] /\ BytesOf(c[k]) \subseteq TaskBytes(a)
  BY <1>2, <1>3 DEF TaskBytes
<1>4. ASSUME NEW k \in 1 .. (n + m), ~(k <= n)
      PROVE  k - n \in 1 .. m /\ c[k] = b[k - n] /\ BytesOf(c[k]) \subseteq TaskBytes(b)
  <2>1. k - n \in 1 .. m /\ c[k] = b[k - n]
    BY <1>2, <1>4
  <2>2. QED
    BY <2>1, <1>2 DEF TaskBytes
<1> HIDE DEF n, m
<1>5. \A k \in 1 .. (n + m) : GoodTask(c[k])
  <2>1. (\A k \in 1 .. n : GoodTask(a[k])) /\ (\A k \in 1 .. m : GoodTask(b[k]))
    BY DEF GoodTasks, n, m
  <2>2. QED
    BY <2>1, <1>3, <1>4
<1>6. ASSUME NEW k \in 1 .. (n + m), NEW j \in 1 .. (n + m), k # j
      PROVE  BytesOf(c[k]) \cap BytesOf(c[j]) = {}
  <2>1. CASE k <= n /\ j <= n
    BY <2>1, <1>3, <1>6 DEF GoodTasks, n
  <2>2. CASE ~(k <= n) /\ ~(j <= n)
    <3>1. k - n # j - n
      BY <1>2, <1>6
    <3>2. QED
      BY <2>2, <3>1, <1>4 DEF GoodTasks, m
  <2>3. CASE k <= n /\ ~(j <= n)
    BY <2>3, <1>3, <1>4
  <2>4. CASE ~(k <= n) /\ j <= n
    BY <2>4, <1>3, <1>4
  <2>5. QED
    BY <2>1, <2>2, <2>3, <2>4
<1>7. c = [k \in 1 .. Len(c) |-> c[k]]
  BY <1>2
<1>8. GoodTasks(c)
  BY <1>2, <1>5, <1>6, <1>7 DEF GoodTasks
<1>9. TaskBytes(c) \subseteq TaskBytes(a) \cup TaskBytes(b)
  <2>1. \A k \in DOMAIN c : BytesOf(c[k]) \subseteq TaskBytes(a) \cup TaskBytes(b)
    BY <1>2, <1>3, <1>4
  <2>2. QED
    BY <2>1 DEF TaskBytes
<1>10. ASSUME NEW k \in 1 .. n
       PROVE  BytesOf(a[k]) \subseteq TaskBytes(c)
  <2>1. k \in 1 .. (n + m) /\ k <= n
    BY <1>2
  <2>2. c[k] = a[k] /\ k \in DOMAIN c
    BY <1>2, <2>1
  <2>3. QED
    BY <2>2 DEF TaskBytes
<1>11. ASSUME NEW k \in 1 .. m
       PROVE  BytesOf(b[k]) \subseteq TaskBytes(c)
  <2>1. k + n \in 1 .. (n + m) /\ ~(k + n <= n) /\ (k + n) - n = k
    BY <1>2
  <2>2. c[k + n] = b[k] /\ k + n \in DOMAIN c
    BY <1>2, <2>1
  <2>3. QED
    BY <2>2 DEF TaskBytes
<1>12. TaskBytes(a) \cup TaskBytes(b) \subseteq TaskBytes(c)
  <2>1. TaskBytes(a) \subseteq TaskBytes(c)
    BY <1>2, <1>10 DEF TaskBytes
  <2>2. TaskBytes(b) \subseteq TaskBytes(c)
    BY <1>2, <1>11 DEF TaskBytes
  <2>3. QED
    BY <2>1, <2>2
<1>13. QED
  BY <1>8, <1>9, <1>12 DEF c

LEMMA OneTask ==
  ASSUME NEW t, GoodTask(t)
  PROVE  GoodTasks(<<t>>) /\ TaskBytes(<<t>>) = BytesOf(t)
<1>1. Len(<<t>>) = 1 /\ DOMAIN <<t>> = {1} /\ <<t>>[1] = t /\ 1 .. 1 = {1}
  OBVIOUS
<1> DEFINE q == <<t>>
<1>2. q = [k \in 1 .. 1 |-> q[k]]
  OBVIOUS
<1>3. Len(q) = 1 /\ DOMAIN q = {1} /\ q[1] = t /\ 1 .. 1 = {1}
  BY <1>1
<1> HIDE DEF q
<1>4. GoodTasks(q) /\ TaskBytes(q) = BytesOf(t)
  BY <1>2, <1>3 DEF GoodTasks, TaskBytes
<1>5. QED
  BY <1>4 DEF q

LEMMA AppendTask ==
  ASSUME NEW ts, GoodTasks(ts), NEW t, GoodTask(t), TaskBytes(ts) \cap BytesOf(t) = {}
  PROVE  /\ GoodTasks(Append(ts, t)) /\ TaskBytes(Append(ts, t)) = TaskBytes(ts) \cup BytesOf(t)
         /\ Append(ts, t) \in Seq(AnyTask)
<1>1. ts \in Seq(AnyTask) /\ t \in AnyTask
  BY TasksAreSeq DEF GoodTask, Task, AnyTask
<1>2. Append(ts, t) = ts \o <<t>>
  BY <1>1
<1>3. GoodTasks(ts \o <<t>>) /\ TaskBytes(ts \o <<t>>) = TaskBytes(ts) \cup TaskBytes(<<t>>)
  BY OneTask, JoinTasks
<1>4. QED
  BY <1>2, <1>3, OneTask, TasksAreSeq

LEMMA FirstTask ==
  ASSUME NEW ts, GoodTasks(ts), ts # <<>>
  PROVE  /\ GoodTask(Head(ts)) /\ GoodTasks(Tail(ts))
         /\ TaskBytes(ts) = BytesOf(Head(ts)) \cup TaskBytes(Tail(ts))
         /\ BytesOf(Head(ts)) \cap TaskBytes(Tail(ts)) = {}
<1> DEFINE q == Tail(ts)
           n == Len(ts)
<1>1. ts \in Seq(AnyTask)
  BY TasksAreSeq
<1>2. /\ n \in Nat /\ n >= 1 /\ DOMAIN ts = 1 .. n /\ Head(ts) = ts[1]
      /\ Len(q) = n - 1 /\ q \in Seq(AnyTask) /\ DOMAIN q = 1 .. (n - 1)
      /\ \A k \in 1 .. (n - 1) : q[k] = ts[k + 1]
  BY <1>1
<1>3. \A k \in 1 .. n : GoodTask(ts[k])
  BY DEF GoodTasks
<1>4. \A k, j \in 1 .. n : k # j => BytesOf(ts[k]) \cap BytesOf(ts[j]) = {}
  BY DEF GoodTasks
<1> HIDE DEF q, n
<1>5. ASSUME NEW k \in 1 .. (n - 1)
      PROVE  k + 1 \in 1 .. n /\ k + 1 # 1 /\ q[k] = ts[k + 1]
  BY <1>2
<1>6. 1 \in 1 .. n
  BY <1>2
<1>7. GoodTasks(q)
  <2>1. q = [k \in 1 .. Len(q) |-> q[k]] /\ Len(q) \in Nat
    BY <1>2
  <2>2. ASSUME NEW k \in 1 .. (n - 1), NEW j \in 1 .. (n - 1), k # j
        PROVE  BytesOf(q[k]) \cap BytesOf(q[j]) = {}
    <3>1. k + 1 # j + 1
      BY <2>2, <1>2
    <3>2. QED
      BY <3>1, <1>4, <1>5
  <2>3. \A k \in 1 .. (n - 1) : GoodTask(q[k])
    BY <1>3, <1>5
  <2>4. QED
    BY <1>2, <2>1, <2>2, <2>3 DEF GoodTasks
<1>8. BytesOf(ts[1]) \cap TaskBytes(q) = {}
  <2>1. \A k \in 1 .. (n - 1) : BytesOf(ts[1]) \cap BytesOf(q[k]) = {}
    BY <1>4, <1>5, <1>6
  <2>2. QED
    BY <1>2, <2>1 DEF TaskBytes
<1>9. TaskBytes(ts) = BytesOf(ts[1]) \cup TaskBytes(q)
  <2>1. ASSUME NEW k \in 1 .. n
        PROVE  BytesOf(ts[k]) \subseteq BytesOf(ts[1]) \cup TaskBytes(q)
    <3>1. CASE k = 1
      BY <3>1
    <3>2. CASE k # 1
      <4>1. k - 1 \in 1 .. (n - 1) /\ (k - 1) + 1 = k
        BY <3>2, <1>2
      <4>2. q[k - 1] = ts[k] /\ k - 1 \in DOMAIN q
        BY <1>2, <4>1
      <4>3. QED
        BY <4>2 DEF TaskBytes
    <3>3. QED
      BY <3>1, <3>2
  <2>2. TaskBytes(q) \subseteq TaskBytes(ts)
    <3>1. ASSUME NEW k \in 1 .. (n - 1)
          PROVE  BytesOf(q[k]) \subseteq TaskBytes(ts)
      BY <1>2, <1>5 DEF TaskBytes
    <3>2. QED
      BY <1>2, <3>1 DEF TaskBytes
  <2>3. BytesOf(ts[1]) \subseteq TaskBytes(ts)
    BY <1>2, <1>6 DEF TaskBytes
  <2>4. TaskBytes(ts) \subseteq BytesOf(ts[1]) \cup TaskBytes(q)
    BY <1>2, <2>1 DEF TaskBytes
  <2>5. QED
    BY <2>2, <2>3, <2>4
<1>10. QED
  BY <1>2, <1>3, <1>6, <1>7, <1>8, <1>9 DEF q

(* What a pause collects from the connections is what they have to fetch.  *)
LEMMA ActiveTasksCover ==
  ASSUME \A f \in Fetchers : FetchOK(fetch[f]),
         \A f, g \in Fetchers : f # g => ToFetch(fetch[f]) \cap ToFetch(fetch[g]) = {}
  PROVE  /\ GoodTasks(ActiveTasks)
         /\ TaskBytes(ActiveTasks) = UNION {ToFetch(fetch[f]) : f \in Fetchers}
<1> DEFINE left(f) == Task(fetch[f].off, fetch[f].stop - fetch[f].off)
           D == Working
           V == Seq(AnyTask)
           step == [c \in D \X V |-> Append(c[2], left(c[1]))]
           Body(g, s) == IF s = {} THEN <<>> ELSE Append(g[s \ {Some(s)}], left(Some(s)))
           it == CHOOSE g : g = [s \in SUBSET D |-> Body(g, s)]
           U(s) == UNION {ToFetch(fetch[f]) : f \in s}
           Good(s) == GoodTasks(it[s]) /\ TaskBytes(it[s]) = U(s)
<1>1. ASSUME NEW f \in D
      PROVE  GoodTask(left(f)) /\ BytesOf(left(f)) = ToFetch(fetch[f]) /\ left(f) \in AnyTask
  <2>1. /\ f \in Fetchers /\ fetch[f].off \in Nat /\ fetch[f].stop \in Nat
        /\ fetch[f].off <= fetch[f].stop /\ fetch[f].stop <= Total
    BY DEF Working, FetchOK
  <2>2. fetch[f].off + (fetch[f].stop - fetch[f].off) - 1 = fetch[f].stop - 1
    BY <2>1
  <2>3. left(f).off = fetch[f].off /\ left(f).len = fetch[f].stop - fetch[f].off
    BY DEF Task
  <2>4. BytesOf(left(f)) = ToFetch(fetch[f])
    BY <2>2, <2>3 DEF BytesOf, ToFetch
  <2>5. left(f) = Task(left(f).off, left(f).len)
    BY DEF Task
  <2> HIDE DEF left
  <2>6. GoodTask(left(f)) /\ left(f) \in AnyTask
    BY <2>1, <2>3, <2>5, Sizes DEF GoodTask, Task, AnyTask
  <2>7. QED
    BY <2>4, <2>6
<1>2. IsFiniteSet(D) /\ D \subseteq Fetchers
  BY Sizes, FS_Subset DEF Working
<1>3. step \in [D \X V -> V] /\ \A f \in D, ts \in V : step[<<f, ts>>] = Append(ts, left(f))
  <2>1. \A f \in D, ts \in V : Append(ts, left(f)) \in V
    BY <1>1
  <2> HIDE DEF left, V, D
  <2>2. QED
    BY <2>1
<1>4. <<>> \in V
  OBVIOUS
<1> HIDE DEF D, V, step, left
<1>5. PICK g \in [SUBSET D -> V] : Defines(g, D, <<>>, step)
  BY <1>2, <1>3, <1>4, Recursion
<1>6. \A s \in SUBSET D : g[s] = Body(g, s)
  <2>1. ASSUME NEW s \in SUBSET D, s # {}
        PROVE  g[s] = Append(g[s \ {Some(s)}], left(Some(s)))
    <3>1. Some(s) \in D /\ g[s \ {Some(s)}] \in V
      BY <2>1 DEF Some
    <3>2. g[s] = step[<<Some(s), g[s \ {Some(s)}]>>]
      BY <1>5, <2>1 DEF Defines
    <3>3. QED
      BY <1>3, <3>1, <3>2
  <2>2. g[{}] = <<>>
    BY <1>5 DEF Defines
  <2>3. QED
    BY <2>1, <2>2
<1>7. \E k : k = [s \in SUBSET D |-> Body(k, s)]
  <2>1. g = [s \in SUBSET D |-> Body(g, s)]
    BY <1>6
  <2>2. QED
    BY <2>1
<1>8. it = [s \in SUBSET D |-> Body(it, s)]
  BY <1>7
<1>9. ActiveTasks = it[D]
  BY DEF ActiveTasks, FoldSet, MapThenFoldSet, Some, D, left
<1> HIDE DEF it
<1>10. /\ it[{}] = <<>>
       /\ \A s \in SUBSET D : s # {} => it[s] = Append(it[s \ {Some(s)}], left(Some(s)))
  BY <1>8
<1>11. Good(D)
  <2> DEFINE B == {s \in SUBSET D : ~Good(s)}
  <2>1. ASSUME B # {}
        PROVE  FALSE
    <3>1. PICK s \in B : \A t \in SUBSET s : t # s => t \notin B
      <4>1. B \subseteq SUBSET D
        OBVIOUS
      <4> HIDE DEF B
      <4>2. QED
        BY <1>2, <2>1, <4>1, Minimal
    <3>2. s # {}
      <4>1. Good({})
        BY <1>10, NoTasks
      <4> HIDE DEF Good
      <4>2. QED
        BY <3>1, <4>1
    <3> DEFINE f == Some(s)
               t == s \ {f}
    <3>3. f \in s /\ f \in D /\ t \in SUBSET s /\ t # s /\ s \in SUBSET D /\ f \notin t
      BY <3>1, <3>2 DEF Some
    <3>4. GoodTasks(it[t]) /\ TaskBytes(it[t]) = U(t)
      BY <3>1, <3>3
    <3>5. it[s] = Append(it[t], left(f))
      BY <1>10, <3>2, <3>3
    <3> HIDE DEF f, t
    <3>6. U(s) = U(t) \cup ToFetch(fetch[f])
      BY <3>3 DEF f, t
    <3>7. U(t) \cap ToFetch(fetch[f]) = {}
      BY <1>2, <3>3
    <3>8. Good(s)
      <4>1. TaskBytes(it[t]) \cap BytesOf(left(f)) = {}
        BY <1>1, <3>3, <3>4, <3>7
      <4>2. GoodTasks(it[s]) /\ TaskBytes(it[s]) = TaskBytes(it[t]) \cup BytesOf(left(f))
        BY <1>1, <3>3, <3>4, <3>5, <4>1, AppendTask
      <4>3. QED
        BY <1>1, <3>3, <3>4, <3>6, <4>2
    <3>9. QED
      BY <3>1, <3>8
  <2>2. QED
    BY <2>1
<1>12. U(D) = UNION {ToFetch(fetch[f]) : f \in Fetchers}
  <2>1. ASSUME NEW f \in Fetchers, f \notin D
        PROVE  ToFetch(fetch[f]) = {}
    BY <2>1 DEF D, Working, FetchOK, ToFetch
  <2>2. QED
    BY <1>2, <2>1
<1>13. QED
  BY <1>9, <1>11, <1>12

-----------------------------------------------------------------------------
(* The steps of the connections.                                           *)
LEMMA HandsInFile ==
  ASSUME NEW a, FetchOK(a)
  PROVE  OpenBytes(a) \subseteq File /\ IsFiniteSet(OpenBytes(a))
<1>1. ToFetch(a) \subseteq File
  BY Sizes DEF FetchOK, ToFetch, File
<1>2. ToReport(a) \subseteq File
  <2>1. a.from \in Nat /\ a.n \in Nat /\ a.off \in Nat /\ a.stop \in Nat /\ a.off <= a.stop /\ a.stop <= Total
        /\ (a.n > 0 => a.from + a.n = a.off)
    BY DEF FetchOK
  <2>2. CASE a.n = 0
    BY <2>1, <2>2 DEF ToReport
  <2>3. CASE a.n > 0
    BY <2>1, <2>3, Sizes DEF ToReport, File
  <2>4. QED
    BY <2>1, <2>2, <2>3
<1>3. QED
  BY <1>1, <1>2, FileSize, FS_Subset DEF OpenBytes

LEMMA AddingChanges ==
  ASSUME \A g \in Fetchers : FetchOK(fetch[g]),
         NEW f \in Fetchers, NEW a, FetchOK(a), fetch = [g \in Fetchers |-> fetch[g]],
         fetch' = [fetch EXCEPT ![f] = a]
  PROVE  /\ Adding \in Int
         /\ Adding' = Adding - More(0, fetch[f].add) + More(0, a.add)
<1> DEFINE u == [g \in Fetchers |-> More(0, fetch[g].add)]
           v == [g \in Fetchers |-> More(0, fetch'[g].add)]
<1>1. \A b : FetchOK(b) => More(0, b.add) \in Int
  <2>1. \A b : FetchOK(b) => b.add \in Int
    BY DEF FetchOK
  <2>2. QED
    BY <2>1 DEF More
<1>2. \A g \in Fetchers : fetch'[g] = IF g = f THEN a ELSE fetch[g]
  OBVIOUS
<1>3. \A g \in Fetchers : u[g] \in Int /\ v[g] \in Int /\ (g # f => v[g] = u[g])
  BY <1>1, <1>2
<1>4. DOMAIN u = Fetchers /\ DOMAIN v = Fetchers /\ IsFiniteSet(Fetchers)
  BY Sizes
<1>5. u[f] = More(0, fetch[f].add) /\ v[f] = More(0, a.add)
  BY <1>2
<1>6. Adding = SumOf(u) /\ Adding' = SumOf(v)
  BY DEF Adding
<1> HIDE DEF u, v
<1>7. SumOf(u) \in Int /\ SumOf(v) = SumOf(u) - u[f] + v[f]
  BY <1>3, <1>4, SumUpdate
<1>8. QED
  BY <1>5, <1>6, <1>7

\* A connection changes its hands to a, and reports the bytes r.
LEMMA FetchStep ==
  ASSUME CheckpointInv, FetchInv, NEW f \in Fetchers, NEW a, NEW r,
         fetch' = [fetch EXCEPT ![f] = a], FetchOK(a), GoodTasks(plan'),
         r \subseteq OpenBytes(fetch[f]),
         OpenBytes(a) \cap TaskBytes(plan') = {},
         OpenBytes(a) \cup TaskBytes(plan') = (OpenBytes(fetch[f]) \cup TaskBytes(plan)) \ r,
         disk \subseteq disk', r \subseteq disk', ToReport(a) \subseteq disk',
         Maps(ps', Known \cup r), ps'.verified \in Nat,
         ps'.verified + More(0, a.add) = ps.verified + More(0, fetch[f].add) + Cardinality(r)
  PROVE  FetchInv'
<1> DEFINE b == fetch[f]
<1>1. fetch = [g \in Fetchers |-> fetch[g]]
  BY DEF CheckpointInv, CheckpointTypes
<1>2. \A g \in Fetchers : fetch'[g] = IF g = f THEN a ELSE fetch[g]
  BY <1>1
<1>3. \A g \in Fetchers : FetchOK(fetch'[g])
  BY <1>2 DEF FetchInv
<1>4. \A g \in Fetchers : g # f => OpenBytes(fetch[g]) \cap (OpenBytes(b) \cup TaskBytes(plan)) = {}
  BY DEF FetchInv
<1>5. \A g \in Fetchers : OpenBytes(fetch'[g]) \cap TaskBytes(plan') = {}
  <2>1. ASSUME NEW g \in Fetchers, g # f
        PROVE  OpenBytes(fetch'[g]) \cap TaskBytes(plan') = {}
    BY <1>2, <1>4, <2>1
  <2>2. OpenBytes(fetch'[f]) \cap TaskBytes(plan') = {}
    BY <1>2
  <2>3. QED
    BY <2>1, <2>2
<1>6. ASSUME NEW g \in Fetchers, NEW h \in Fetchers, g # h
      PROVE  OpenBytes(fetch'[g]) \cap OpenBytes(fetch'[h]) = {}
  <2>1. CASE g # f /\ h # f
    BY <1>2, <1>6, <2>1 DEF FetchInv
  <2>2. CASE g = f
    <3>1. OpenBytes(fetch[h]) \cap OpenBytes(a) = {}
      BY <1>4, <1>6, <2>2
    <3>2. QED
      BY <1>2, <1>6, <2>2, <3>1
  <2>3. CASE h = f
    <3>1. OpenBytes(fetch[g]) \cap OpenBytes(a) = {}
      BY <1>4, <1>6, <2>3
    <3>2. QED
      BY <1>2, <1>6, <2>3, <3>1
  <2>4. QED
    BY <2>1, <2>2, <2>3
<1>7. Unknown' = Unknown \ r
  <2> DEFINE W == UNION {OpenBytes(fetch[g]) : g \in Fetchers \ {f}}
  <2>1. Unknown = (OpenBytes(b) \cup TaskBytes(plan)) \cup W
    BY DEF Unknown
  <2>2. Unknown' = TaskBytes(plan') \cup UNION {OpenBytes(fetch'[g]) : g \in Fetchers}
    BY DEF Unknown, TaskBytes, OpenBytes, ToFetch, ToReport
  <2>3. UNION {OpenBytes(fetch'[g]) : g \in Fetchers} = OpenBytes(a) \cup W
    <3>1. OpenBytes(fetch'[f]) = OpenBytes(a) /\ \A g \in Fetchers \ {f} : OpenBytes(fetch'[g]) = OpenBytes(fetch[g])
      BY <1>2
    <3>2. QED
      BY <3>1
  <2>4. W \cap r = {}
    BY <1>4
  <2> HIDE DEF W
  <2>5. QED
    BY <2>1, <2>2, <2>3, <2>4
<1>8. r \subseteq File /\ IsFiniteSet(r) /\ r \cap Known = {} /\ IsFiniteSet(Known) /\ Known \subseteq File
  <2>1. FetchOK(b)
    BY DEF FetchInv
  <2>2. r \subseteq Unknown
    BY DEF Unknown
  <2>3. QED
    BY <2>1, <2>2, HandsInFile, FileSize, FS_Subset DEF Known
<1>9. Known' = Known \cup r
  <2>1. Known' = File \ Unknown'
    BY DEF Known, File
  <2>2. QED
    BY <1>7, <1>8, <2>1 DEF Known
<1>10. Cardinality(Known') = Cardinality(Known) + Cardinality(r)
       /\ Cardinality(Known) \in Nat /\ Cardinality(r) \in Nat
  BY <1>8, <1>9, UnionSize, FS_CardinalityType
<1>11. ps'.verified + Adding' = Cardinality(Known')
  <2>1. Adding \in Int /\ Adding' = Adding - More(0, b.add) + More(0, a.add)
    BY <1>1, AddingChanges DEF FetchInv
  <2>2. More(0, b.add) \in Int /\ More(0, a.add) \in Int
    <3>1. FetchOK(b)
      BY DEF FetchInv
    <3>2. QED
      BY <3>1 DEF FetchOK, More
  <2>3. ps.verified \in Nat /\ ps.verified + Adding = Cardinality(Known)
    BY DEF FetchInv
  <2> HIDE DEF b
  <2>4. ps'.verified + More(0, a.add) = ps.verified + More(0, b.add) + Cardinality(r)
    BY DEF b
  <2>5. QED
    BY <1>10, <2>1, <2>2, <2>3, <2>4
<1>12. Known' \subseteq disk'
  BY <1>9 DEF FetchInv
<1>13. \A g \in Fetchers : ToReport(fetch'[g]) \subseteq disk'
  BY <1>2 DEF FetchInv
<1>14. GoodTasks(plan)' /\ TaskBytes(plan)' = TaskBytes(plan')
  BY DEF GoodTasks, GoodTask, Task, BytesOf, TaskBytes
<1>15. Maps(ps, Known)'
  BY <1>9 DEF Maps, ChunkBytes, BytesOf, Task, ChunkLen, Less, Chunks
<1>16. (\A g \in Fetchers : FetchOK(fetch[g]))' /\ (\A g \in Fetchers : OpenBytes(fetch[g])' = OpenBytes(fetch'[g]))
  BY <1>3 DEF FetchOK, OpenBytes, ToFetch, ToReport
<1>17. QED
  BY <1>5, <1>6, <1>11, <1>12, <1>13, <1>14, <1>15, <1>16 DEF FetchInv, ToReport

LEMMA FetchFacts ==
  ASSUME CheckpointInv, FetchInv, mode \in {"run", "pausing"}, NEW f \in Fetchers
  PROVE  /\ IsState(ps) /\ FetchOK(fetch[f]) /\ HasFields(fetch[f], FetchFields)
         /\ fetch[f].n = 0 => fetch[f].add = -1
         /\ Known \subseteq File /\ Maps(ps, Known) /\ ps.verified \in Nat
         /\ GoodTasks(plan) /\ OpenBytes(fetch[f]) \cap TaskBytes(plan) = {}
         /\ Cardinality({}) = 0 /\ More(0, -1) = 0
<1>1. IsState(ps) /\ HasFields(fetch[f], FetchFields) /\ (fetch[f].n = 0 => fetch[f].add = -1)
  BY DEF CheckpointInv, CheckpointTypes, Phases
<1>2. Cardinality({}) = 0 /\ More(0, -1) = 0
  BY FS_EmptySet DEF More
<1>3. QED
  BY <1>1, <1>2 DEF FetchInv, Known

LEMMA PopKept ==
  ASSUME CheckpointInv, FetchInv, NEW f \in Fetchers, PopTask(f)
  PROVE  FetchInv'
<1> DEFINE b == fetch[f]
           t == Head(plan)
           a == [off |-> t.off, stop |-> t.off + t.len, from |-> t.off, n |-> 0, add |-> -1]
<1>1. /\ mode = "run" /\ b.n = 0 /\ b.off = b.stop /\ plan # <<>> /\ plan' = Tail(plan)
      /\ fetch' = [fetch EXCEPT ![f] = a] /\ ps' = MarkDownloading(ps, t) /\ disk' = disk
  BY DEF PopTask, Idle, Flushed
<1>2. /\ IsState(ps) /\ FetchOK(b) /\ b.add = -1 /\ Maps(ps, Known) /\ ps.verified \in Nat
      /\ GoodTasks(plan) /\ Cardinality({}) = 0 /\ More(0, -1) = 0
  BY <1>1, FetchFacts
<1>3. OpenBytes(b) = {}
  BY <1>1, <1>2 DEF OpenBytes, ToFetch, ToReport, FetchOK
<1>4. /\ GoodTask(t) /\ GoodTasks(plan') /\ TaskBytes(plan) = BytesOf(t) \cup TaskBytes(plan')
      /\ BytesOf(t) \cap TaskBytes(plan') = {}
  BY <1>1, <1>2, FirstTask
<1>5. FetchOK(a)
  BY <1>4, Sizes DEF GoodTask, FetchOK
<1>6. OpenBytes(a) = BytesOf(t) /\ ToReport(a) = {}
  BY <1>4 DEF GoodTask, OpenBytes, ToFetch, ToReport, BytesOf
<1>7. Maps(ps', Known) /\ ps'.verified = ps.verified
  BY <1>1, <1>2, DownloadingMaps
<1>8. a.add = -1
  OBVIOUS
<1> HIDE DEF a, b, t
<1>9. Maps(ps', Known \cup {})
  BY <1>7
<1>10. OpenBytes(a) \cup TaskBytes(plan') = (OpenBytes(b) \cup TaskBytes(plan)) \ {}
  BY <1>3, <1>4, <1>6
<1>11. ps'.verified + More(0, a.add) = ps.verified + More(0, b.add) + Cardinality({})
  BY <1>2, <1>7, <1>8
<1>12. QED
  BY <1>1, <1>2, <1>4, <1>5, <1>6, <1>7, <1>9, <1>10, <1>11, FetchStep DEF b

LEMMA WriteKept ==
  ASSUME CheckpointInv, FetchInv, NEW f \in Fetchers, WriteBytes(f)
  PROVE  FetchInv'
<1> DEFINE b == fetch[f]
<1>1. /\ mode \in {"run", "pausing"} /\ b.add = -1 /\ plan' = plan /\ ps' = ps
  BY DEF WriteBytes, memory
<1>2. PICK n \in 1 .. Less(MaxRead, b.stop - b.off) :
        /\ disk' = disk \cup BytesOf(Task(b.off, n))
        /\ fetch' = [fetch EXCEPT ![f].off = @ + n, ![f].n = @ + n,
                                  ![f].from = IF b.n = 0 THEN b.off ELSE @]
  BY DEF WriteBytes
<1> DEFINE a == [b EXCEPT !.off = @ + n, !.n = @ + n, !.from = IF b.n = 0 THEN b.off ELSE @]
<1>3. /\ HasFields(b, FetchFields) /\ FetchOK(b) /\ Maps(ps, Known) /\ ps.verified \in Nat
      /\ GoodTasks(plan) /\ Cardinality({}) = 0 /\ More(0, -1) = 0
      /\ OpenBytes(b) \cap TaskBytes(plan) = {}
  BY <1>1, FetchFacts
<1>4. fetch' = [fetch EXCEPT ![f] = a]
  BY <1>2
<1>5. /\ a.off = b.off + n /\ a.n = b.n + n /\ a.from = (IF b.n = 0 THEN b.off ELSE b.from)
      /\ a.stop = b.stop /\ a.add = -1
  BY <1>1, <1>3 DEF HasFields, FetchFields
<1> HIDE DEF a
<1>6. /\ b.off \in Nat /\ b.stop \in Nat /\ b.from \in Nat /\ b.n \in Nat /\ b.off <= b.stop
      /\ b.stop <= Total /\ (b.n > 0 => b.from + b.n = b.off) /\ (b.add # -1 => b.add = b.n)
  BY <1>3 DEF FetchOK
<1> HIDE DEF b
<1>7. n \in Nat /\ n >= 1 /\ b.off + n <= b.stop
  <2>1. b.stop - b.off \in Nat /\ MaxRead \in Nat
    BY <1>6, Sizes
  <2>2. QED
    BY <2>1, <1>6 DEF Less
<1>8. /\ a.off \in Nat /\ a.stop \in Nat /\ a.from \in Nat /\ a.n \in Nat /\ a.off <= a.stop
      /\ a.from + a.n = a.off
  BY <1>5, <1>6, <1>7
<1>9. FetchOK(a)
  BY <1>5, <1>6, <1>8 DEF FetchOK
<1>10. ToReport(a) = ToReport(b) \cup BytesOf(Task(b.off, n))
  <2>1. ToReport(a) = a.from .. (a.off - 1)
    BY <1>5, <1>8 DEF ToReport
  <2>2. BytesOf(Task(b.off, n)) = b.off .. (a.off - 1)
    <3>1. BytesOf(Task(b.off, n)) = b.off .. (b.off + n - 1)
      BY DEF BytesOf, Task
    <3>2. a.off - 1 = b.off + n - 1
      BY <1>5, <1>6, <1>7
    <3>3. QED
      BY <3>1, <3>2
  <2>3. CASE b.n = 0
    <3>1. ToReport(b) = {} /\ a.from = b.off
      BY <1>5, <1>6, <2>3 DEF ToReport
    <3>2. QED
      BY <2>1, <2>2, <3>1
  <2>4. CASE b.n > 0
    <3>1. ToReport(b) = b.from .. (b.off - 1) /\ a.from = b.from /\ b.from < b.off
      <4>1. b.add = -1
        BY <1>1 DEF b
      <4>2. QED
        BY <4>1, <1>5, <1>6, <2>4 DEF ToReport
    <3>2. b.from .. (a.off - 1) = (b.from .. (b.off - 1)) \cup (b.off .. (a.off - 1))
      BY <3>1, <1>6, <1>5, <1>7
    <3>3. QED
      BY <2>1, <2>2, <3>1, <3>2
  <2>5. QED
    BY <1>6, <2>3, <2>4
<1>11. ToFetch(b) = BytesOf(Task(b.off, n)) \cup ToFetch(a)
  <2>1. BytesOf(Task(b.off, n)) = b.off .. (b.off + n - 1) /\ ToFetch(a) = (b.off + n) .. (b.stop - 1)
        /\ ToFetch(b) = b.off .. (b.stop - 1)
    BY <1>5 DEF BytesOf, Task, ToFetch
  <2>2. QED
    BY <2>1, <1>6, <1>7
<1>12. OpenBytes(a) = OpenBytes(b)
  BY <1>10, <1>11 DEF OpenBytes
<1>13. ToReport(a) \subseteq disk'
  BY <1>2, <1>10 DEF FetchInv, b
<1>14. Maps(ps', Known \cup {})
  BY <1>1, <1>3
<1>15. OpenBytes(a) \cup TaskBytes(plan') = (OpenBytes(b) \cup TaskBytes(plan)) \ {}
  BY <1>1, <1>12
<1>16. ps'.verified + More(0, a.add) = ps.verified + More(0, b.add) + Cardinality({})
  BY <1>1, <1>3, <1>5 DEF b
<1>17. disk \subseteq disk'
  BY <1>2
<1>18. QED
  BY <1>1, <1>3, <1>4, <1>9, <1>12, <1>13, <1>14, <1>15, <1>16, <1>17, FetchStep DEF b

LEMMA FlushMapKept ==
  ASSUME CheckpointInv, FetchInv, NEW f \in Fetchers, FlushMap(f), mode \in {"run", "pausing"}
  PROVE  FetchInv'
<1> DEFINE b == fetch[f]
           t == Task(b.from, b.n)
           a == [b EXCEPT !.add = GainAll(ps, t)]
           r == BytesOf(t)
<1>1. /\ b.n > 0 /\ b.add = -1 /\ ps' = MarkCompleted(ps, t) /\ plan' = plan /\ disk' = disk
      /\ fetch' = [fetch EXCEPT ![f].add = GainAll(ps, t)]
  BY DEF FlushMap
<1>2. /\ IsState(ps) /\ HasFields(b, FetchFields) /\ FetchOK(b) /\ Known \subseteq File
      /\ Maps(ps, Known) /\ ps.verified \in Nat /\ GoodTasks(plan)
      /\ OpenBytes(b) \cap TaskBytes(plan) = {} /\ More(0, -1) = 0
  BY FetchFacts
<1>3. fetch' = [fetch EXCEPT ![f] = a]
  BY <1>1
<1>4. /\ a.off = b.off /\ a.stop = b.stop /\ a.from = b.from /\ a.n = b.n
      /\ a.add = GainAll(ps, t)
  BY <1>2 DEF HasFields, FetchFields
<1>5. GoodTask(t) /\ t.len = b.n /\ r = ToReport(b)
  BY <1>1, <1>2, Sizes DEF FetchOK, GoodTask, Task, BytesOf, ToReport
<1>6. r \subseteq OpenBytes(b) /\ r \cap Known = {} /\ r \subseteq disk
  <2>1. r \subseteq OpenBytes(b)
    BY <1>5 DEF OpenBytes
  <2>2. r \subseteq Unknown
    BY <2>1 DEF Unknown
  <2>3. r \subseteq disk
    BY <1>5 DEF FetchInv
  <2>4. QED
    BY <2>1, <2>2, <2>3 DEF Known
<1>7. /\ Maps(ps', Known \cup r) /\ ps'.verified = ps.verified /\ a.add = b.n
  BY <1>1, <1>2, <1>4, <1>5, <1>6, CompletedMaps
<1>8. Cardinality(r) = b.n
  BY <1>5, TaskSize
<1> HIDE DEF a
<1>9. b.n \in Nat /\ b.off \in Nat /\ b.stop \in Nat /\ b.from \in Nat /\ b.from + b.n = b.off
  BY <1>1, <1>2 DEF FetchOK
<1>10. FetchOK(a)
  BY <1>2, <1>4, <1>7 DEF FetchOK
<1>11. ToReport(a) = {} /\ ToFetch(a) = ToFetch(b)
  BY <1>1, <1>4, <1>7, <1>9 DEF ToReport, ToFetch
<1>12. ToFetch(b) \cap r = {}
  <2>1. r = b.from .. (b.off - 1)
    BY <1>9 DEF BytesOf, Task
  <2> HIDE DEF r, b
  <2>2. QED
    BY <2>1, <1>9 DEF ToFetch
<1>13. OpenBytes(a) \cup TaskBytes(plan') = (OpenBytes(b) \cup TaskBytes(plan)) \ r
       /\ OpenBytes(a) \cap TaskBytes(plan') = {}
  <2>1. OpenBytes(a) = OpenBytes(b) \ r
    BY <1>5, <1>11, <1>12 DEF OpenBytes
  <2>2. QED
    BY <1>1, <1>2, <1>6, <2>1
<1>14. ps'.verified + More(0, a.add) = ps.verified + More(0, b.add) + Cardinality(r)
  <2>1. More(0, a.add) = b.n
    BY <1>7, <1>9 DEF More
  <2> HIDE DEF b
  <2>2. More(0, b.add) = 0
    BY <1>1, <1>2
  <2>3. QED
    BY <1>2, <1>7, <1>8, <1>9, <2>1, <2>2
<1> HIDE DEF r, t
<1>15. QED
  BY <1>1, <1>2, <1>3, <1>6, <1>7, <1>10, <1>11, <1>13, <1>14, FetchStep

LEMMA FlushCountersKept ==
  ASSUME CheckpointInv, FetchInv, NEW f \in Fetchers, FlushCounters(f), mode \in {"run", "pausing"}
  PROVE  FetchInv'
<1> DEFINE b == fetch[f]
           a == [b EXCEPT !.add = -1, !.n = 0]
<1>1. /\ b.add # -1 /\ plan' = plan /\ disk' = disk
      /\ ps' = [ps EXCEPT !.verified = @ + b.add, !.downloaded = @ + b.n]
      /\ fetch' = [fetch EXCEPT ![f].add = -1, ![f].n = 0]
  BY DEF FlushCounters
<1>2. /\ IsState(ps) /\ HasFields(b, FetchFields) /\ FetchOK(b) /\ Maps(ps, Known) /\ ps.verified \in Nat
      /\ GoodTasks(plan) /\ OpenBytes(b) \cap TaskBytes(plan) = {}
      /\ More(0, -1) = 0 /\ Cardinality({}) = 0
  BY FetchFacts
<1>3. fetch' = [fetch EXCEPT ![f] = a]
  BY <1>1
<1>4. a.off = b.off /\ a.stop = b.stop /\ a.from = b.from /\ a.n = 0 /\ a.add = -1
  BY <1>2 DEF HasFields, FetchFields
<1>5. /\ b.add = b.n /\ b.n \in Nat /\ b.off \in Nat /\ b.stop \in Nat /\ b.from \in Nat
      /\ b.off <= b.stop /\ b.stop <= Total
  BY <1>1, <1>2 DEF FetchOK
<1>6. /\ ps'.verified = ps.verified + b.add /\ ps'.size = ps.size /\ ps'.chunk = ps.chunk
      /\ ps'.bits = ps.bits
  BY <1>1, <1>2 DEF IsState, HasFields, StateFields
<1> HIDE DEF a
<1>7. FetchOK(a)
  BY <1>4, <1>5 DEF FetchOK
<1>8. ToReport(a) = {} /\ ToReport(b) = {} /\ ToFetch(a) = ToFetch(b)
  BY <1>1, <1>4, <1>5 DEF ToReport, ToFetch
<1>9. Maps(ps', Known \cup {})
  BY <1>2, <1>6 DEF Maps
<1>10. OpenBytes(a) = OpenBytes(b)
  BY <1>8 DEF OpenBytes
<1> HIDE DEF b
<1>11. ps'.verified + More(0, a.add) = ps.verified + More(0, b.add) + Cardinality({})
       /\ ps'.verified \in Nat
  <2>1. More(0, b.add) = b.n
    BY <1>5 DEF More
  <2>2. QED
    BY <1>2, <1>4, <1>5, <1>6, <2>1
<1>12. QED
  BY <1>1, <1>2, <1>3, <1>7, <1>8, <1>9, <1>10, <1>11, FetchStep DEF b

LEMMA FailKept ==
  ASSUME CheckpointInv, FetchInv, NEW f \in Fetchers, FetchFails(f)
  PROVE  FetchInv'
<1> DEFINE b == fetch[f]
           a == IdleFetch
           t == Task(b.off, b.stop - b.off)
<1>1. /\ mode = "run" /\ b.n = 0 /\ b.off < b.stop /\ plan' = Append(plan, t)
      /\ fetch' = [fetch EXCEPT ![f] = a] /\ ps' = ps /\ disk' = disk
  BY DEF FetchFails, Flushed, memory
<1>2. /\ FetchOK(b) /\ b.add = -1 /\ Maps(ps, Known) /\ ps.verified \in Nat
      /\ GoodTasks(plan) /\ OpenBytes(b) \cap TaskBytes(plan) = {}
      /\ More(0, -1) = 0 /\ Cardinality({}) = 0
  BY <1>1, FetchFacts
<1>3. /\ b.off \in Nat /\ b.stop \in Nat /\ b.from \in Nat /\ b.stop <= Total
  BY <1>2 DEF FetchOK
<1>4. GoodTask(t) /\ BytesOf(t) = ToFetch(b)
  BY <1>1, <1>3, Sizes DEF GoodTask, Task, BytesOf, ToFetch
<1>5. ToReport(b) = {}
  BY <1>1, <1>2, <1>3 DEF ToReport
<1>6. OpenBytes(b) = BytesOf(t)
  BY <1>4, <1>5 DEF OpenBytes
<1>7. GoodTasks(plan') /\ TaskBytes(plan') = TaskBytes(plan) \cup BytesOf(t)
  BY <1>1, <1>2, <1>4, <1>6, AppendTask
<1>8. FetchOK(a) /\ OpenBytes(a) = {} /\ ToReport(a) = {} /\ a.add = -1
  BY Sizes DEF IdleFetch, FetchOK, OpenBytes, ToFetch, ToReport
<1> HIDE DEF a, b, t
<1>9. Maps(ps', Known \cup {})
  BY <1>1, <1>2
<1>10. OpenBytes(a) \cup TaskBytes(plan') = (OpenBytes(b) \cup TaskBytes(plan)) \ {}
  BY <1>6, <1>7, <1>8
<1>11. ps'.verified + More(0, a.add) = ps.verified + More(0, b.add) + Cardinality({})
  BY <1>1, <1>2, <1>8
<1>12. QED
  BY <1>1, <1>2, <1>7, <1>8, <1>9, <1>10, <1>11, FetchStep DEF b

-----------------------------------------------------------------------------
(* The beginning and the ends of a session.                                *)
SameMap(p, q) ==
  /\ q.size = p.size /\ q.bits = p.bits /\ q.chunk = p.chunk
  /\ q.verified = p.verified /\ q.total = p.total

LEMMA SameMapMaps ==
  ASSUME NEW p, NEW q, SameMap(p, q), NEW b, Maps(p, b)
  PROVE  Maps(q, b)
  BY DEF SameMap, Maps

LEMMA MethodsKeepMap ==
  ASSUME NEW p, IsState(p)
  PROVE  /\ SameMap(p, SyncSessionStart(p))
         /\ \A v : SameMap(p, [p EXCEPT !.downloaded = v])
         /\ \A n : LET q == FinalizeSession(p, n)
                  IN q.size = p.size /\ q.bits = p.bits /\ q.chunk = p.chunk /\ q.verified = n
<1>1. SameMap(p, SyncSessionStart(p))
  BY DEF SyncSessionStart, IsState, HasFields, StateFields, SameMap
<1>2. \A v : SameMap(p, [p EXCEPT !.downloaded = v])
  BY DEF IsState, HasFields, StateFields, SameMap
<1>3. \A n : LET q == FinalizeSession(p, n)
            IN q.size = p.size /\ q.bits = p.bits /\ q.chunk = p.chunk /\ q.verified = n
  BY DEF FinalizeSession, IsState, HasFields, StateFields
<1>4. QED
  BY <1>1, <1>2, <1>3

LEMMA TotalKeepsMap ==
  ASSUME NEW p, IsState(p), NEW t
  PROVE  LET q == SetTotalSize(p, t)
         IN q.size = p.size /\ q.bits = p.bits /\ q.chunk = p.chunk /\ q.verified = p.verified
            /\ q.total = t
  BY DEF SetTotalSize, SyncSessionStart, IsState, HasFields, StateFields

LEMMA InitialMap ==
  ASSUME NEW p, IsState(p), NEW s
  PROVE  LET q == InitBitmap(p, s)
         IN /\ q.size = s /\ q.verified = p.verified /\ q.total = p.total
            /\ p.size # s => q.chunk = Blank(s) /\ q.bits = [i \in Chunks(s) |-> "pending"]
  BY DEF InitBitmap, IsState, HasFields, StateFields

LEMMA AddingNothing ==
  ASSUME \A f \in Fetchers : fetch[f].add = -1
  PROVE  Adding = 0
<1> DEFINE c == [f \in Fetchers |-> {}]
<1>1. /\ IsFiniteSet(DOMAIN c) /\ \A f \in DOMAIN c : IsFiniteSet(c[f])
      /\ \A f, g \in DOMAIN c : f # g => c[f] \cap c[g] = {}
  BY Sizes, FS_EmptySet
<1>2. UNION {c[f] : f \in DOMAIN c} = {} /\ Cardinality({}) = 0
  BY FS_EmptySet
<1>3. [f \in DOMAIN c |-> Cardinality(c[f])] = [f \in Fetchers |-> More(0, fetch[f].add)]
  BY <1>2 DEF More
<1> HIDE DEF c
<1>4. SumOf([f \in DOMAIN c |-> Cardinality(c[f])]) = Cardinality(UNION {c[f] : f \in DOMAIN c})
  BY <1>1, SumOfSizes
<1>5. QED
  BY <1>2, <1>3, <1>4 DEF Adding

\* Nothing is with a connection: the queue has all that is missing.
LEMMA IdleHands ==
  ASSUME \A f \in Fetchers : fetch[f] = IdleFetch
  PROVE  /\ Unknown = TaskBytes(plan) /\ Adding = 0
         /\ \A f \in Fetchers : FetchOK(fetch[f]) /\ OpenBytes(fetch[f]) = {} /\ ToReport(fetch[f]) = {}
<1>1. \A f \in Fetchers : FetchOK(fetch[f]) /\ OpenBytes(fetch[f]) = {} /\ ToReport(fetch[f]) = {}
  BY Sizes DEF IdleFetch, FetchOK, OpenBytes, ToFetch, ToReport
<1>2. Adding = 0
  BY AddingNothing DEF IdleFetch
<1>3. Unknown = TaskBytes(plan)
  BY <1>1 DEF Unknown
<1>4. QED
  BY <1>1, <1>2, <1>3

\* A session begins with the queue q.
LEMMA FetchBegins ==
  ASSUME \A f \in Fetchers : fetch[f] = IdleFetch, fetch' = fetch, GoodTasks(plan'),
         File \ TaskBytes(plan') \subseteq disk, disk' = disk,
         Maps(ps', File \ TaskBytes(plan')), ps'.verified = Cardinality(File \ TaskBytes(plan'))
  PROVE  FetchInv'
<1>1. /\ \A f \in Fetchers : FetchOK(fetch[f]) /\ OpenBytes(fetch[f]) = {} /\ ToReport(fetch[f]) = {}
      /\ Adding = 0
  BY IdleHands
<1>2. Adding' = Adding
  BY DEF Adding
<1>3. Unknown' = TaskBytes(plan')
  BY <1>1 DEF Unknown, TaskBytes, OpenBytes, ToFetch, ToReport
<1>4. Known' = File \ TaskBytes(plan')
  BY <1>3 DEF Known, File
<1>5. GoodTasks(plan)' /\ TaskBytes(plan)' = TaskBytes(plan')
  BY DEF GoodTasks, GoodTask, Task, BytesOf, TaskBytes
<1>6. Maps(ps, Known)'
  BY <1>4 DEF Maps, ChunkBytes, BytesOf, Task, ChunkLen, Less, Chunks
<1>7. \A f \in Fetchers : OpenBytes(fetch[f])' = {} /\ ToReport(fetch[f])' = {} /\ FetchOK(fetch[f])'
  BY <1>1 DEF FetchOK, OpenBytes, ToFetch, ToReport
<1>8. ps'.verified \in Nat
  BY FileSize, PartSize
<1>9. ps'.verified + Adding' = Cardinality(Known')
  BY <1>1, <1>2, <1>4, <1>8
<1>10. QED
  BY <1>4, <1>5, <1>6, <1>7, <1>8, <1>9 DEF FetchInv

\* SetupTasks, with what is stored or from the beginning.
LEMMA SetupMaps ==
  ASSUME NEW p, IsState(p), p.total = Total, now \in Nat, IsRow(row), NEW s \in ChunkSizes, p.size = s,
         SetupTasks(p, s), tasks # <<>> => Resumes(tasks, row.size),
         \/ MemoryMatches /\ row.status # "completed"
         \/ p.verified = 0 /\ p.chunk = Blank(s) /\ p.bits = [i \in Chunks(s) |-> "pending"]
  PROVE  /\ GoodTasks(plan') /\ File \ TaskBytes(plan') \subseteq disk
         /\ Maps(ps', File \ TaskBytes(plan'))
         /\ ps'.verified = Cardinality(File \ TaskBytes(plan'))
<1> DEFINE saved == LoadState(cfg.url)
           p0 == [p EXCEPT !.verified = saved.row.downloaded, !.elapsed = saved.row.elapsed]
           p1 == SyncSessionStart(p0)
           pr == RestoreBitmap(p1, saved.row.bits, saved.row.size)
           p2 == RecalculateProgress(pr, saved.tasks)
<1>1. saved.row = row /\ (saved.tasks = tasks \/ saved.tasks = <<>>)
  BY DEF LoadState
<1>2. MemoryMatches /\ row.status # "completed" => saved.tasks = tasks /\ tasks # <<>>
  BY DEF LoadState, MemoryMatches
<1>3. s \in Nat \ {0}
  BY Sizes
<1>4. CASE saved.tasks = <<>>
  <2>1. ps' = SyncSessionStart([p EXCEPT !.downloaded = 0]) /\ plan' = FreshTasks(s)
    BY <1>4 DEF SetupTasks
  <2>2. p.verified = 0 /\ p.chunk = Blank(s) /\ p.bits = [i \in Chunks(s) |-> "pending"]
    BY <1>2, <1>4
  <2>3. Maps(p, {})
    BY <2>2, BlankMaps
  <2>4. SameMap(p, [p EXCEPT !.downloaded = 0]) /\ IsState([p EXCEPT !.downloaded = 0])
    BY MethodsKeepMap, MethodsKeepClock DEF SameClock
  <2>5. SameMap(p, ps')
    <3>1. SameMap([p EXCEPT !.downloaded = 0], ps')
      BY <2>1, <2>4, MethodsKeepMap
    <3>2. QED
      BY <2>4, <3>1 DEF SameMap
  <2>6. GoodTasks(plan') /\ TaskBytes(plan') = File
    BY <1>3, <2>1, FreshTasksCover
  <2>7. File \ TaskBytes(plan') = {} /\ Cardinality({}) = 0
    BY <2>6, FS_EmptySet
  <2>8. Maps(ps', {})
    BY <2>3, <2>5, SameMapMaps
  <2>9. ps'.verified = 0
    BY <2>2, <2>5 DEF SameMap
  <2>10. QED
    BY <2>6, <2>7, <2>8, <2>9
<1>5. CASE saved.tasks # <<>>
  <2>1. saved.tasks = tasks /\ tasks # <<>> /\ Resumes(tasks, row.size)
    BY <1>1, <1>5
  <2>2. row.size \in ChunkSizes /\ row.size > 0 /\ row.size # 0 /\ GoodTasks(tasks)
        /\ File \ TaskBytes(tasks) \subseteq disk
    <3>1. row.size \in ChunkSizes /\ GoodTasks(tasks) /\ File \ TaskBytes(tasks) \subseteq disk
      BY <2>1 DEF Resumes
    <3>2. row.size \in Nat \ {0}
      BY <3>1, Sizes
    <3>3. QED
      BY <3>1, <3>2
  <2>3. /\ ps' = IF saved.row.size > 0 THEN SyncSessionStart([p2 EXCEPT !.downloaded = p2.verified])
                 ELSE [p1 EXCEPT !.downloaded = saved.row.downloaded]
        /\ plan' = saved.tasks
    BY <1>5 DEF SetupTasks
  <2>4. ps' = SyncSessionStart([p2 EXCEPT !.downloaded = p2.verified]) /\ plan' = tasks
    BY <1>1, <2>1, <2>2, <2>3
  <2>5. IsState(p0) /\ p0.total = Total
    BY <1>1 DEF IsState, IsRow, HasFields, StateFields
  <2>6. IsState(p1) /\ p1.total = Total
    BY <2>5, MethodsSetClock, MethodsKeepMap DEF SameMap
  <2> HIDE DEF p0, p1
  <2>7. IsState(pr) /\ pr.size = row.size
    <3>1. IsState(pr)
      BY <2>6, MethodsKeepClock DEF SameClock
    <3>2. pr = [p1 EXCEPT !.size = row.size, !.bits = row.bits,
                          !.chunk = IF DOMAIN @ = Chunks(row.size) THEN @ ELSE Blank(row.size)]
      BY <1>1, <2>2, <2>6, Sizes DEF RestoreBitmap
    <3>3. pr.size = row.size
      BY <2>6, <3>2 DEF IsState, HasFields, StateFields
    <3>4. QED
      BY <3>1, <3>3
  <2> HIDE DEF pr
  <2>8. Maps(p2, File \ TaskBytes(tasks)) /\ p2.verified = Cardinality(File \ TaskBytes(tasks))
    <3>1. pr.size \in ChunkSizes
      BY <2>2, <2>7
    <3>2. QED
      BY <2>1, <2>2, <2>7, <3>1, RecalculatedMaps
  <2>9. IsState(p2)
    BY <2>7, MethodsKeepClock DEF SameClock
  <2> HIDE DEF p2
  <2>10. SameMap(p2, ps')
    <3>1. SameMap(p2, [p2 EXCEPT !.downloaded = p2.verified]) /\ IsState([p2 EXCEPT !.downloaded = p2.verified])
      BY <2>9, MethodsKeepMap, MethodsKeepClock DEF SameClock
    <3>2. SameMap([p2 EXCEPT !.downloaded = p2.verified], ps')
      BY <2>4, <3>1, MethodsKeepMap
    <3>3. QED
      BY <3>1, <3>2 DEF SameMap
  <2>11. Maps(ps', File \ TaskBytes(tasks)) /\ ps'.verified = Cardinality(File \ TaskBytes(tasks))
    BY <2>8, <2>10, SameMapMaps DEF SameMap
  <2>12. QED
    BY <2>2, <2>4, <2>11
<1>6. QED
  BY <1>4, <1>5

\* What is stored stays, while more is written.
LEMMA StoredStays ==
  ASSUME RestInv, UNCHANGED <<row, tasks>>, disk \subseteq disk',
         cfg' = [url |-> cfg'.url, total |-> cfg'.total, ranges |-> cfg'.ranges],
         \A e \in Contents(sent') : e \in Contents(sent) \/ e.kind = "started",
         mode # "done", mode' \notin {"rest", "queued"}
  PROVE  RestInv'
<1>1. \A ts, z : Resumes(ts, z) => Resumes(ts, z)'
  BY DEF Resumes, GoodTasks, GoodTask, Task, BytesOf, TaskBytes, File
<1>2. tasks' # <<>> => Resumes(tasks, row.size)'
  BY <1>1 DEF RestInv, Resumes, GoodTasks, GoodTask, Task, BytesOf, TaskBytes, File
<1>3. \A e \in Contents(sent') : e.kind = "paused" => e.tasks # <<>> /\ Resumes(e.tasks, e.size)'
  BY <1>1 DEF RestInv
<1>4. row'.status # "completed" /\ \A e \in Contents(sent') : e.kind # "complete"
  BY DEF RestInv
<1>5. QED
  BY <1>2, <1>3, <1>4 DEF RestInv, Contents

LEMMA BeginKept ==
  ASSUME CheckpointInv, MapInv, Begin
  PROVE  MapInv'
<1>1. SUFFICES ASSUME ~plain'
               PROVE  MapInv'
  BY DEF MapInv
<1>2. /\ mode = "queued" /\ UNCHANGED <<fetch, disk, row, tasks>>
      /\ cfg' = [cfg EXCEPT !.total = Total]
      /\ sent' = Append(sent, [kind |-> "started", url |-> cfg.url, total |-> cfg.total])
  BY DEF Begin, Tell, database
<1> DEFINE p == SetTotalSize(ps, Total)
<1>3. cfg.ranges /\ mode' = "run" /\ plain' = plain /\ \E s \in ChunkSizes : SetupTasks(InitBitmap(p, s), s)
  BY <1>1 DEF Begin
<1>4. /\ ps # NoState /\ IsState(ps) /\ now \in Nat /\ IsRow(row) /\ sent = <<>>
      /\ \A f \in Fetchers : fetch[f] = IdleFetch
  BY <1>2 DEF CheckpointInv, CheckpointTypes, Phases
<1>5. RestInv /\ (MemoryMatches \/ (ps.verified = 0 /\ ps.size = 0))
  <2>1. RestInv
    BY <1>1, <1>3 DEF MapInv
  <2>2. mode = "queued" /\ cfg.ranges => MemoryMatches \/ (ps.verified = 0 /\ ps.size = 0)
    BY <2>1 DEF RestInv
  <2>3. QED
    BY <1>2, <1>3, <2>1, <2>2
<1>6. PICK s \in ChunkSizes : SetupTasks(InitBitmap(p, s), s)
  BY <1>3
<1> DEFINE q == InitBitmap(p, s)
<1>7. s \in Nat \ {0}
  BY Sizes
<1>8. IsState(p) /\ p.size = ps.size /\ p.verified = ps.verified /\ p.total = Total
  BY <1>4, TotalKeepsMap, MethodsSetClock
<1> HIDE DEF p
<1>9. /\ IsState(q) /\ q.size = s /\ q.verified = ps.verified /\ q.total = Total
      /\ ps.size # s => q.chunk = Blank(s) /\ q.bits = [i \in Chunks(s) |-> "pending"]
  <2>1. IsState(q)
    BY <1>8, MethodsKeepClock DEF SameClock
  <2>2. /\ q.size = s /\ q.verified = p.verified /\ q.total = p.total
        /\ p.size # s => q.chunk = Blank(s) /\ q.bits = [i \in Chunks(s) |-> "pending"]
    BY <1>8, InitialMap
  <2>3. QED
    BY <1>8, <2>1, <2>2
<1>10. SetupTasks(q, s)
  BY <1>6
<1> HIDE DEF q
<1>11. \/ MemoryMatches /\ row.status # "completed"
       \/ q.verified = 0 /\ q.chunk = Blank(s) /\ q.bits = [i \in Chunks(s) |-> "pending"]
  BY <1>2, <1>5, <1>7, <1>9 DEF RestInv
<1>12. tasks # <<>> => Resumes(tasks, row.size)
  BY <1>5 DEF RestInv
<1>13. /\ GoodTasks(plan') /\ File \ TaskBytes(plan') \subseteq disk
       /\ Maps(ps', File \ TaskBytes(plan'))
       /\ ps'.verified = Cardinality(File \ TaskBytes(plan'))
  BY <1>4, <1>9, <1>10, <1>11, <1>12, SetupMaps
<1>14. FetchInv'
  BY <1>2, <1>4, <1>13, FetchBegins
<1>15. RestInv'
  <2>1. cfg' = [url |-> cfg'.url, total |-> cfg'.total, ranges |-> cfg'.ranges]
    BY <1>2, <1>5 DEF RestInv
  <2> DEFINE e == [kind |-> "started", url |-> cfg.url, total |-> cfg.total]
  <2>2. e.kind = "started" /\ sent' = Append(sent, e)
    BY <1>2
  <2> HIDE DEF e
  <2>3. Contents(sent') = Contents(sent) \cup {e}
    BY <1>4, <2>2, NoContents, Queued
  <2>4. QED
    BY <1>2, <1>3, <1>5, <2>1, <2>2, <2>3, StoredStays
<1>16. QED
  BY <1>3, <1>14, <1>15 DEF MapInv

LEMMA ConnectionKept ==
  ASSUME CheckpointInv, MapInv, NEW f \in Fetchers,
         PopTask(f) \/ WriteBytes(f) \/ FlushMap(f) \/ FlushCounters(f) \/ FetchFails(f)
  PROVE  MapInv'
<1>1. SUFFICES ASSUME ~plain'
               PROVE  MapInv'
  BY DEF MapInv
<1>2. /\ UNCHANGED <<mode, cfg, row, tasks, sent, plain>> /\ disk \subseteq disk'
      /\ mode \in {"run", "pausing"} \/ fetch[f].n > 0 \/ fetch[f].add # -1
  BY DEF PopTask, WriteBytes, FlushMap, FlushCounters, FetchFails, memory, database, events
<1>3. mode \in {"run", "pausing"}
  BY <1>2 DEF CheckpointInv, Phases, IdleFetch
<1>4. FetchInv /\ RestInv
  BY <1>1, <1>2, <1>3 DEF MapInv
<1>5. FetchInv'
  BY <1>3, <1>4, PopKept, WriteKept, FlushMapKept, FlushCountersKept, FailKept
<1>6. RestInv'
  <2>1. cfg' = [url |-> cfg'.url, total |-> cfg'.total, ranges |-> cfg'.ranges]
    BY <1>2, <1>4 DEF RestInv
  <2>2. QED
    BY <1>2, <1>3, <1>4, <2>1, StoredStays
<1>7. QED
  BY <1>2, <1>3, <1>5, <1>6 DEF MapInv

\* What is known when no connection has anything to report.
LEMMA AllReported ==
  ASSUME CheckpointInv, FetchInv, mode \in {"run", "pausing"}, \A f \in Fetchers : Flushed(f)
  PROVE  /\ Unknown = TaskBytes(plan) \cup UNION {ToFetch(fetch[f]) : f \in Fetchers}
         /\ ps.verified = Cardinality(Known) /\ SumOf(ps.chunk) = Cardinality(Known)
         /\ ps.verified \in Nat
<1>1. \A f \in Fetchers : fetch[f].n = 0 /\ fetch[f].add = -1 /\ FetchOK(fetch[f])
  BY FetchFacts DEF Flushed
<1>2. \A f \in Fetchers : OpenBytes(fetch[f]) = ToFetch(fetch[f])
  <2>1. \A f \in Fetchers : ToReport(fetch[f]) = {}
    BY <1>1 DEF ToReport, FetchOK
  <2>2. QED
    BY <2>1 DEF OpenBytes
<1>3. Adding = 0
  BY <1>1, AddingNothing
<1>4. Maps(ps, Known) /\ Known \subseteq File /\ ps.verified \in Nat
      /\ ps.verified + Adding = Cardinality(Known)
  BY DEF FetchInv, Known
<1>5. QED
  BY <1>2, <1>3, <1>4, MapSum DEF Unknown

LEMMA ModeKept ==
  ASSUME CheckpointInv, MapInv, AskPause \/ AllFetched
  PROVE  MapInv'
<1>1. SUFFICES ASSUME ~plain'
               PROVE  MapInv'
  BY DEF MapInv
<1>2. /\ mode = "run" /\ UNCHANGED <<cfg, ps, disk, row, tasks, sent, plain>>
      /\ mode' \in {"pausing", "ending"}
  BY DEF AskPause, AllFetched, memory, database, events
<1>3. FetchInv /\ RestInv
  BY <1>1, <1>2 DEF MapInv
<1>4. RestInv'
  <2>1. cfg' = [url |-> cfg'.url, total |-> cfg'.total, ranges |-> cfg'.ranges]
    BY <1>2, <1>3 DEF RestInv
  <2>2. QED
    BY <1>2, <1>3, <2>1, StoredStays
<1>5. CASE AskPause
  <2>1. mode' = "pausing" /\ UNCHANGED <<plan, fetch>>
    BY <1>5 DEF AskPause, session
  <2>2. FetchInv'
    <3>1. Unknown' = Unknown /\ Adding' = Adding
      BY <2>1 DEF Unknown, Adding, TaskBytes, OpenBytes, ToFetch, ToReport
    <3>2. Known' = Known
      BY <3>1 DEF Known, File
    <3>3. Maps(ps, Known)'
      BY <1>2, <1>3, <3>2 DEF FetchInv, Maps, ChunkBytes, BytesOf, Task, ChunkLen, Less, Chunks
    <3>4. /\ GoodTasks(plan)' /\ TaskBytes(plan)' = TaskBytes(plan)
          /\ \A f \in Fetchers : FetchOK(fetch[f])' /\ OpenBytes(fetch[f])' = OpenBytes(fetch[f])
                                 /\ ToReport(fetch[f])' = ToReport(fetch[f])
      BY <1>3, <2>1 DEF FetchInv, GoodTasks, GoodTask, Task, BytesOf, TaskBytes, FetchOK, OpenBytes, ToFetch, ToReport
    <3>5. QED
      BY <1>2, <1>3, <3>1, <3>2, <3>3, <3>4 DEF FetchInv
  <2>3. QED
    BY <1>4, <2>1, <2>2 DEF MapInv
<1>6. CASE AllFetched
  <2>1. mode' = "ending" /\ plan = <<>> /\ \A f \in Fetchers : Flushed(f) /\ fetch[f].off = fetch[f].stop
    BY <1>6 DEF AllFetched, Idle
  <2>2. Unknown = {}
    <3>1. Unknown = TaskBytes(plan) \cup UNION {ToFetch(fetch[f]) : f \in Fetchers}
      BY <1>2, <1>3, <2>1, AllReported
    <3>2. \A f \in Fetchers : ToFetch(fetch[f]) = {}
      BY <1>3, <2>1 DEF FetchInv, FetchOK, ToFetch
    <3>3. QED
      BY <2>1, <3>1, <3>2, NoTasks
  <2>3. Known = File
    BY <2>2 DEF Known
  <2>4. ps.verified = Total /\ SumOf(ps.chunk) = Total /\ Total \in Nat
    BY <1>2, <1>3, <2>1, <2>3, AllReported, FileSize, Sizes
  <2>5. ps'.verified = Total /\ ps'.verified = SumOf(ps.chunk)' /\ ps'.verified \in Nat
    BY <1>2, <2>4
  <2>6. QED
    BY <1>4, <2>1, <2>5 DEF MapInv
<1>7. QED
  BY <1>5, <1>6

LEMMA PauseKept ==
  ASSUME CheckpointInv, MapInv, HandlePause
  PROVE  MapInv'
<1>1. SUFFICES ASSUME ~plain'
               PROVE  MapInv'
  BY DEF MapInv
<1> DEFINE ts == RemainingTasks
           left == SumOf([k \in DOMAIN ts |-> ts[k].len])
           p == FinalizeSession(ps, Total - left)
           e == [kind |-> "paused", url |-> cfg.url, downloaded |-> p.verified,
                 elapsed |-> p.elapsed, tasks |-> ts, bits |-> p.bits, size |-> p.size]
<1>2. /\ mode = "pausing" /\ ps' = p /\ \A f \in Fetchers : Flushed(f)
      /\ \/ left = 0 /\ mode' = "ending" /\ sent' = sent
         \/ left # 0 /\ mode' = "rest" /\ sent' = Append(sent, e)
      /\ UNCHANGED <<cfg, disk, row, tasks, plain>>
  BY DEF HandlePause, Tell, database
<1>3. FetchInv /\ RestInv /\ IsState(ps)
  BY <1>1, <1>2 DEF MapInv, CheckpointInv, CheckpointTypes, Phases
<1>4. GoodTasks(ts) /\ TaskBytes(ts) = Unknown
  <2>1. \A f \in Fetchers : FetchOK(fetch[f])
    BY <1>3 DEF FetchInv
  <2>2. /\ \A f, g \in Fetchers : f # g => ToFetch(fetch[f]) \cap ToFetch(fetch[g]) = {}
        /\ TaskBytes(plan) \cap UNION {ToFetch(fetch[f]) : f \in Fetchers} = {}
        /\ GoodTasks(plan)
    BY <1>3 DEF FetchInv, OpenBytes
  <2>3. /\ GoodTasks(ActiveTasks)
        /\ TaskBytes(ActiveTasks) = UNION {ToFetch(fetch[f]) : f \in Fetchers}
    BY <2>1, <2>2, ActiveTasksCover
  <2>4. GoodTasks(plan \o ActiveTasks)
        /\ TaskBytes(plan \o ActiveTasks) = TaskBytes(plan) \cup UNION {ToFetch(fetch[f]) : f \in Fetchers}
    BY <2>2, <2>3, JoinTasks
  <2>5. Unknown = TaskBytes(plan) \cup UNION {ToFetch(fetch[f]) : f \in Fetchers}
    BY <1>2, <1>3, AllReported
  <2>6. QED
    BY <2>4, <2>5 DEF RemainingTasks
<1> HIDE DEF ts
<1>5. left = Cardinality(Unknown) /\ left \in Nat /\ Unknown \subseteq File /\ IsFiniteSet(Unknown)
  BY <1>4, LengthsAddUp, TasksFinite, FS_CardinalityType
<1> HIDE DEF left
<1>6. Total - left = Cardinality(Known) /\ Cardinality(Known) \in Nat
  <2>1. Known \cap Unknown = {} /\ Known \cup Unknown = File /\ Known \subseteq File
    BY <1>5 DEF Known
  <2>2. IsFiniteSet(Known) /\ Cardinality(Known) \in Nat
    BY <2>1, FileSize, PartSize
  <2>3. Cardinality(File) = Cardinality(Known) + Cardinality(Unknown)
    BY <1>5, <2>1, <2>2, UnionSize
  <2>4. QED
    BY <1>5, <2>2, <2>3, FileSize
<1>7. p.size = ps.size /\ p.chunk = ps.chunk /\ p.verified = Total - left
  BY <1>3, MethodsKeepMap
<1>8. p.verified = SumOf(p.chunk) /\ p.verified \in Nat
  <2>1. SumOf(ps.chunk) = Cardinality(Known)
    BY <1>2, <1>3, AllReported
  <2>2. QED
    BY <1>6, <1>7, <2>1
<1>9. Resumes(ts, ps.size)
  BY <1>3, <1>4 DEF Resumes, FetchInv, Maps, Known
<1>10. PICK v : v = e /\ v.kind = "paused" /\ v.url = cfg.url /\ v.tasks = ts /\ v.size = p.size
  <2>1. e.kind = "paused" /\ e.url = cfg.url /\ e.tasks = ts /\ e.size = p.size
    OBVIOUS
  <2> HIDE DEF e
  <2>2. QED
    BY <2>1
<1> HIDE DEF p, e
<1>11. cfg' = [url |-> cfg'.url, total |-> cfg'.total, ranges |-> cfg'.ranges]
  BY <1>2, <1>3 DEF RestInv
<1>12. CASE left = 0
  <2>1. mode' = "ending" /\ sent' = sent
    BY <1>2, <1>12
  <2>2. ps'.verified = Total
    BY <1>2, <1>7, <1>12, Sizes
  <2>3. RestInv'
    BY <1>2, <1>3, <1>11, <2>1, StoredStays
  <2>4. QED
    BY <1>2, <1>8, <2>1, <2>2, <2>3 DEF MapInv
<1>13. CASE left # 0
  <2>1. mode' = "rest" /\ sent' = Append(sent, v)
    BY <1>2, <1>10, <1>13
  <2>2. sent \in Seq(Contents(sent))
    BY DEF CheckpointInv, CheckpointTypes
  <2>3. Contents(sent') = Contents(sent) \cup {v} /\ sent' # <<>> /\ LastOf(sent') = v
    <3>1. Contents(sent') = Contents(sent) \cup {v}
      BY <2>1, <2>2, Queued
    <3>2. Append(sent, v) # <<>> /\ LastOf(Append(sent, v)) = v
      BY <2>2 DEF LastOf
    <3>3. QED
      BY <2>1, <3>1, <3>2
  <2>4. ts # <<>>
    BY <1>4, <1>5, <1>13, NoTasks, FS_EmptySet
  <2>5. \A q, z : Resumes(q, z)' <=> Resumes(q, z)
    BY <1>2 DEF Resumes, GoodTasks, GoodTask, Task, BytesOf, TaskBytes, File
  <2>6. tasks' # <<>> => Resumes(tasks, row.size)'
    BY <1>2, <1>3, <2>5 DEF RestInv, Resumes, GoodTasks, GoodTask, Task, BytesOf, TaskBytes, File
  <2>7. \A x \in Contents(sent') : x.kind = "paused" => x.tasks # <<>> /\ Resumes(x.tasks, x.size)'
    <3>1. \A x \in Contents(sent) : x.kind = "paused" => x.tasks # <<>> /\ Resumes(x.tasks, x.size)'
      BY <1>3, <2>5 DEF RestInv
    <3>2. v.tasks # <<>> /\ Resumes(v.tasks, v.size)
      BY <1>7, <1>9, <1>10, <2>4
    <3>3. QED
      BY <2>3, <2>5, <3>1, <3>2
  <2>8. row'.status # "completed" /\ \A x \in Contents(sent') : x.kind # "complete"
    BY <1>2, <1>3, <1>10, <2>3 DEF RestInv
  <2>9. RestInv'
    BY <1>2, <1>10, <1>11, <2>1, <2>3, <2>6, <2>7, <2>8 DEF RestInv, Contents, LastOf
  <2>10. QED
    BY <1>2, <1>8, <2>1, <2>9 DEF MapInv
<1>14. QED
  BY <1>12, <1>13

LEMMA CompleteKept ==
  ASSUME CheckpointInv, MapInv, Complete
  PROVE  MapInv'
<1>1. SUFFICES ASSUME ~plain'
               PROVE  MapInv'
  BY DEF MapInv
<1> DEFINE p == FinalizeSession(ps, Total)
           e == [kind |-> "complete", elapsed |-> p.elapsed]
<1>2. /\ mode = "ending" /\ mode' = "done" /\ ps' = p /\ sent' = Append(sent, e)
      /\ UNCHANGED <<cfg, disk, row, tasks, plain>>
  BY DEF Complete, Finished, Tell, database
<1>3. /\ RestInv /\ IsState(ps) /\ ps.verified = Total
      /\ ps.size > 0 => ps.verified \in Nat /\ ps.verified = SumOf(ps.chunk)
      /\ sent \in Seq(Contents(sent))
  BY <1>1, <1>2 DEF MapInv, CheckpointInv, CheckpointTypes, Phases
<1>4. p.size = ps.size /\ p.chunk = ps.chunk /\ p.verified = Total
  BY <1>3, MethodsKeepMap
<1>5. e.kind = "complete"
  OBVIOUS
<1> HIDE DEF p, e
<1>6. Contents(sent') = Contents(sent) \cup {e}
  BY <1>2, <1>3, Queued
<1>7. \A q, z : Resumes(q, z)' <=> Resumes(q, z)
  BY <1>2 DEF Resumes, GoodTasks, GoodTask, Task, BytesOf, TaskBytes, File
<1>8. tasks' # <<>> => Resumes(tasks, row.size)'
  BY <1>2, <1>3, <1>7 DEF RestInv, Resumes, GoodTasks, GoodTask, Task, BytesOf, TaskBytes, File
<1>9. \A x \in Contents(sent') : x.kind = "paused" => x.tasks # <<>> /\ Resumes(x.tasks, x.size)'
  BY <1>3, <1>5, <1>6, <1>7 DEF RestInv
<1>10. cfg' = [url |-> cfg'.url, total |-> cfg'.total, ranges |-> cfg'.ranges]
  BY <1>2, <1>3 DEF RestInv
<1>11. RestInv'
  BY <1>2, <1>8, <1>9, <1>10 DEF RestInv, Contents
<1>12. QED
  BY <1>2, <1>3, <1>4, <1>11 DEF MapInv

LEMMA PlainKept ==
  ASSUME CheckpointInv, SyncFails \/ SingleCopy \/ SingleDone \/ SingleStops
  PROVE  MapInv'
<1>1. plain'
  BY DEF CheckpointInv, Phases, SyncFails, SingleCopy, SingleDone, SingleStops
<1>2. QED
  BY <1>1 DEF MapInv

-----------------------------------------------------------------------------
(* What the event worker stores.                                           *)

\* The queue of events without its first.
LEMMA TailKeepsLast ==
  ASSUME NEW q, q \in Seq(Contents(q)), q # <<>>
  PROVE  /\ Head(q) \in Contents(q) /\ Contents(Tail(q)) \subseteq Contents(q)
         /\ IF Tail(q) = <<>> THEN LastOf(q) = Head(q) ELSE LastOf(Tail(q)) = LastOf(q)
<1> DEFINE t == Tail(q)
           n == Len(q)
<1>1. Contents(q) = Contents(t) \cup {Head(q)}
  BY Unqueued
<1>2. /\ n \in Nat /\ n >= 1 /\ Len(t) = n - 1 /\ Head(q) = q[1] /\ t \in Seq(Contents(q))
      /\ \A k \in 1 .. (n - 1) : t[k] = q[k + 1]
  OBVIOUS
<1>3. t # <<>> => Len(t) # 0
  BY <1>2
<1> HIDE DEF t
<1>4. CASE t = <<>>
  <2>1. Len(<<>>) = 0
    OBVIOUS
  <2>2. Len(t) = 0
    BY <1>4, <2>1
  <2>3. n = 1
    <3> HIDE DEF n
    <3>1. QED
      BY <1>2, <2>2
  <2>4. LastOf(q) = Head(q)
    BY <1>2, <2>3 DEF LastOf
  <2>5. QED
    BY <1>1, <1>4, <2>4 DEF t
<1>5. CASE t # <<>>
  <2>1. LastOf(t) = LastOf(q)
    <3>1. n - 1 \in 1 .. (n - 1) /\ (n - 1) + 1 = n
      BY <1>2, <1>3, <1>5
    <3>2. t[n - 1] = q[n]
      BY <1>2, <3>1
    <3>3. QED
      BY <1>2, <3>2 DEF LastOf
  <2>2. QED
    BY <1>1, <1>5, <2>1 DEF t
<1>6. QED
  BY <1>4, <1>5

\* The worker of events changes the row and the tasks only.
LEMMA StoreKept ==
  ASSUME CheckpointInv, MapInv, ~plain, UNCHANGED <<mode, cfg, ps, plan, fetch, disk, plain>>,
         sent # <<>>, sent' = sent \/ sent' = Tail(sent),
         \/ tasks' = tasks /\ row'.size = row.size
         \/ tasks' = <<>>
         \/ Resumes(tasks', row'.size),
         mode # "done" => row'.status # "completed",
         mode = "rest" /\ sent' = <<>> => MemoryMatches'
  PROVE  MapInv'
<1>1. sent \in Seq(Contents(sent)) /\ mode # "queued"
  BY DEF CheckpointInv, CheckpointTypes, Phases
<1>2. RestInv
  BY DEF MapInv
<1>3. /\ Contents(sent') \subseteq Contents(sent)
      /\ sent' # <<>> => LastOf(sent') = LastOf(sent)
  <2>1. CASE sent' = sent
    BY <2>1
  <2>2. CASE sent' = Tail(sent)
    BY <1>1, <2>2, TailKeepsLast
  <2>3. QED
    BY <2>1, <2>2
<1>4. \A q, z : Resumes(q, z)' <=> Resumes(q, z)
  BY DEF Resumes, GoodTasks, GoodTask, Task, BytesOf, TaskBytes, File
<1>5. Resumes(tasks, row.size)' <=> Resumes(tasks', row'.size)
  BY DEF Resumes, GoodTasks, GoodTask, Task, BytesOf, TaskBytes, File
<1>6. tasks' # <<>> => Resumes(tasks, row.size)'
  BY <1>2, <1>5 DEF RestInv
<1>7. \A x \in Contents(sent') : x.kind = "paused" => x.tasks # <<>> /\ Resumes(x.tasks, x.size)'
  BY <1>2, <1>3, <1>4 DEF RestInv
<1>8. mode # "done" => row'.status # "completed" /\ \A x \in Contents(sent') : x.kind # "complete"
  BY <1>2, <1>3 DEF RestInv
<1>9. mode = "rest" /\ ps # NoState =>
        IF sent' = <<>> THEN MemoryMatches'
        ELSE LastOf(sent').kind = "paused" /\ LastOf(sent').url = cfg.url
  BY <1>2, <1>3 DEF RestInv
<1>10. cfg = [url |-> cfg.url, total |-> cfg.total, ranges |-> cfg.ranges]
  BY <1>2 DEF RestInv
<1>11. RestInv'
  BY <1>1, <1>6, <1>7, <1>8, <1>9, <1>10 DEF RestInv, Contents, LastOf
<1>12. FetchInv => FetchInv'
  <2>1. Unknown' = Unknown /\ Adding' = Adding
    BY DEF Unknown, Adding, TaskBytes, OpenBytes, ToFetch, ToReport
  <2>2. Known' = Known
    BY <2>1 DEF Known, File
  <2>3. Maps(ps, Known) => Maps(ps, Known)'
    BY <2>2 DEF Maps, ChunkBytes, BytesOf, Task, ChunkLen, Less, Chunks
  <2>4. /\ GoodTasks(plan) => GoodTasks(plan)'
        /\ TaskBytes(plan)' = TaskBytes(plan)
        /\ \A f \in Fetchers : /\ FetchOK(fetch[f]) => FetchOK(fetch[f])'
                               /\ OpenBytes(fetch[f])' = OpenBytes(fetch[f])
                               /\ ToReport(fetch[f])' = ToReport(fetch[f])
    BY DEF GoodTasks, GoodTask, Task, BytesOf, TaskBytes, FetchOK, OpenBytes, ToFetch, ToReport
  <2>5. QED
    BY <2>1, <2>2, <2>3, <2>4 DEF FetchInv
<1>13. QED
  BY <1>11, <1>12 DEF MapInv

LEMMA StoresKept ==
  ASSUME CheckpointInv, MapInv,
         StoreStarted \/ StorePausedEntry \/ StorePausedState \/ StoreComplete \/ DeleteTasks
  PROVE  MapInv'
<1>1. SUFFICES ASSUME ~plain'
               PROVE  MapInv'
  BY DEF MapInv
<1> DEFINE e == Head(sent)
<1>2. /\ sent # <<>> /\ UNCHANGED <<mode, cfg, ps, plan, fetch, disk, plain>>
      /\ sent' = sent \/ sent' = Tail(sent)
  BY DEF StoreStarted, StorePausedEntry, StorePausedState, StoreComplete, DeleteTasks, Next1,
         Taken, StoreKeeps, memory, session
<1>3. RestInv /\ ~plain
  BY <1>1, <1>2 DEF MapInv
<1>4. /\ sent \in Seq(Contents(sent)) /\ IsRow(row) /\ IsEvent(e) /\ ps # NoState
  BY <1>2, NextEvent DEF CheckpointInv, CheckpointTypes, Phases
<1>5. e \in Contents(sent) /\ (Tail(sent) = <<>> => LastOf(sent) = e)
  BY <1>2, <1>4, TailKeepsLast
<1>6. mode = "rest" /\ Tail(sent) = <<>> => e.kind = "paused" /\ e.url = cfg.url
  BY <1>2, <1>3, <1>4, <1>5 DEF RestInv
<1>7. mode # "done" => row.status # "completed" /\ e.kind # "complete"
  BY <1>3, <1>5 DEF RestInv
<1> HIDE DEF e
<1>8. \A r : LET x == [row EXCEPT !.status = r.status, !.url = r.url, !.total = r.total,
                                  !.downloaded = r.downloaded, !.elapsed = r.elapsed]
             IN x.size = row.size /\ x.status = r.status
  BY <1>4 DEF IsRow, HasFields, RowFields
<1>9. CASE StoreStarted
  <2> DEFINE r == [row EXCEPT !.status = "downloading", !.url = e.url, !.total = e.total]
  <2>1. /\ row' = [row EXCEPT !.status = r.status, !.url = r.url, !.total = r.total,
                              !.downloaded = r.downloaded, !.elapsed = r.elapsed]
        /\ e.kind = "started" /\ sent' = Tail(sent) /\ tasks' = tasks
    BY <1>9 DEF StoreStarted, AddToMasterList, Next1, Taken, e
  <2>2. r.status = "downloading"
    BY <1>4 DEF IsRow, HasFields, RowFields
  <2> HIDE DEF r
  <2>3. row'.size = row.size /\ row'.status = "downloading"
    BY <1>8, <2>1, <2>2
  <2>4. mode = "rest" => sent' # <<>>
    BY <1>6, <2>1
  <2>5. QED
    BY <1>2, <1>3, <2>1, <2>3, <2>4, StoreKept
<1>10. CASE StorePausedEntry
  <2> DEFINE r == [row EXCEPT !.status = "paused", !.downloaded = e.downloaded, !.total = Total,
                              !.elapsed = More(@, e.elapsed)]
  <2>1. /\ row' = [row EXCEPT !.status = r.status, !.url = r.url, !.total = r.total,
                              !.downloaded = r.downloaded, !.elapsed = r.elapsed]
        /\ sent' = sent /\ tasks' = tasks
    BY <1>10 DEF StorePausedEntry, AddToMasterList, e
  <2>2. r.status = "paused"
    BY <1>4 DEF IsRow, HasFields, RowFields
  <2> HIDE DEF r
  <2>3. row'.size = row.size /\ row'.status = "paused"
    BY <1>8, <2>1, <2>2
  <2>4. QED
    BY <1>2, <1>3, <2>1, <2>3, StoreKept
<1>11. CASE StorePausedState
  <2> DEFINE s == [e EXCEPT !.elapsed = More(row.elapsed, @)]
  <2>1. e.kind = "paused" /\ sent' = Tail(sent) /\ SaveState(s)
    BY <1>11 DEF StorePausedState, Next1, Taken, e
  <2>2. s.url = e.url /\ s.size = e.size /\ s.tasks = e.tasks
    BY <1>4, <2>1 DEF IsEvent, HasFields, PausedFields
  <2>3. e.tasks # <<>> /\ Resumes(e.tasks, e.size)
    BY <1>3, <1>5, <2>1 DEF RestInv
  <2> HIDE DEF s
  <2>4. /\ row' = [row EXCEPT !.status = "paused", !.url = s.url, !.total = Total, !.elapsed = s.elapsed,
                              !.downloaded = s.downloaded, !.size = s.size, !.bits = s.bits]
        /\ tasks' = e.tasks
    BY <2>1, <2>2 DEF SaveState
  <2>5. row'.status = "paused" /\ row'.url = e.url /\ row'.size = e.size
    BY <1>4, <2>2, <2>4 DEF IsRow, HasFields, RowFields
  <2>6. Resumes(tasks', row'.size)
    BY <2>3, <2>4, <2>5
  <2>7. mode = "rest" /\ sent' = <<>> => MemoryMatches'
    BY <1>2, <1>6, <2>1, <2>3, <2>4, <2>5 DEF MemoryMatches
  <2>8. QED
    BY <1>2, <1>3, <2>1, <2>5, <2>6, <2>7, StoreKept
<1>12. CASE StoreComplete
  <2> DEFINE r == [row EXCEPT !.status = "completed", !.downloaded = Total, !.total = Total,
                              !.elapsed = e.elapsed]
  <2>1. /\ row' = [row EXCEPT !.status = r.status, !.url = r.url, !.total = r.total,
                              !.downloaded = r.downloaded, !.elapsed = r.elapsed]
        /\ e.kind = "complete" /\ tasks' = tasks
    BY <1>12 DEF StoreComplete, AddToMasterList, Next1, e
  <2> HIDE DEF r
  <2>2. row'.size = row.size
    BY <1>8, <2>1
  <2>3. mode = "done"
    BY <1>7, <2>1
  <2>4. QED
    BY <1>2, <1>3, <2>1, <2>2, <2>3, StoreKept
<1>13. CASE DeleteTasks
  <2>1. tasks' = <<>> /\ row' = row /\ e.kind = "complete"
    BY <1>13 DEF DeleteTasks, Next1, e
  <2>2. mode = "done"
    BY <1>7, <2>1
  <2>3. QED
    BY <1>2, <1>3, <2>1, <2>2, StoreKept
<1>14. QED
  BY <1>9, <1>10, <1>11, <1>12, <1>13

-----------------------------------------------------------------------------
(* Resumes, a new address, kills and the clock.                            *)

\* What is stored is what it was, but for the address and the status.
LEMMA StoredAgrees ==
  ASSUME RestInv, mode # "done", tasks' = tasks, disk' = disk, row'.size = row.size,
         row'.status # "completed", sent' = sent \/ sent' = <<>>,
         cfg' = [url |-> cfg'.url, total |-> cfg'.total, ranges |-> cfg'.ranges],
         mode' = "rest" /\ ps' # NoState => sent' = <<>> /\ MemoryMatches',
         mode' = "queued" /\ cfg'.ranges => MemoryMatches' \/ (ps'.verified = 0 /\ ps'.size = 0)
  PROVE  RestInv'
<1>1. \A q, z : Resumes(q, z)' <=> Resumes(q, z)
  BY DEF Resumes, GoodTasks, GoodTask, Task, BytesOf, TaskBytes, File
<1>2. Resumes(tasks, row.size)' <=> Resumes(tasks', row'.size)
  BY DEF Resumes, GoodTasks, GoodTask, Task, BytesOf, TaskBytes, File
<1>3. tasks' # <<>> => Resumes(tasks, row.size)'
  BY <1>1, <1>2 DEF RestInv
<1>4. Contents(sent') \subseteq Contents(sent)
  BY NoContents
<1>5. \A x \in Contents(sent') : /\ x.kind = "paused" => x.tasks # <<>> /\ Resumes(x.tasks, x.size)'
                                 /\ x.kind # "complete"
  BY <1>1, <1>4 DEF RestInv
<1>6. QED
  BY <1>3, <1>5 DEF RestInv, Contents

LEMMA ResumeKept ==
  ASSUME ~Late, CheckpointInv, MapInv, HotResume \/ ColdResume
  PROVE  MapInv'
<1>1. SUFFICES ASSUME ~plain'
               PROVE  MapInv'
  BY DEF MapInv
<1>2. /\ mode = "rest" /\ mode' = "queued" /\ UNCHANGED <<disk, row, tasks, sent, plain>>
  BY DEF HotResume, ColdResume, database, events
<1>3. RestInv /\ row.status # "completed"
  BY <1>1, <1>2 DEF MapInv, RestInv
<1>4. CASE HotResume
  <2>1. /\ ps # NoState /\ ps' = ps /\ sent = <<>>
        /\ cfg' = [cfg EXCEPT !.ranges = @ \/ LoadState(cfg.url).tasks # <<>>]
    BY <1>4 DEF HotResume, EventsStored
  <2>2. MemoryMatches
    BY <1>2, <1>3, <2>1 DEF RestInv
  <2>3. cfg = [url |-> cfg.url, total |-> cfg.total, ranges |-> cfg.ranges]
    BY <1>3 DEF RestInv
  <2> DEFINE r == cfg.ranges \/ LoadState(cfg.url).tasks # <<>>
  <2>4. cfg' = [url |-> cfg.url, total |-> cfg.total, ranges |-> r]
    BY <2>1, <2>3
  <2> HIDE DEF r
  <2>5. cfg'.url = cfg.url /\ cfg' = [url |-> cfg'.url, total |-> cfg'.total, ranges |-> cfg'.ranges]
    BY <2>4
  <2>6. MemoryMatches'
    BY <1>2, <2>2, <2>5 DEF MemoryMatches
  <2>7. RestInv'
    BY <1>2, <1>3, <2>5, <2>6, StoredAgrees
  <2>8. QED
    BY <1>1, <1>2, <2>1, <2>7 DEF MapInv
<1>5. CASE ColdResume
  <2>1. ps = NoState
    BY <1>5 DEF ColdResume
  <2>2. PICK saved \in {LoadState(row.url), LoadStates} :
          /\ ps' = ResumedState(saved)
          /\ cfg' = [url |-> row.url, total |-> row.total, ranges |-> saved.tasks # <<>>]
    BY <1>5 DEF ColdResume
  <2>3. saved.row = row /\ (saved.tasks = tasks \/ saved.tasks = <<>>)
    BY <2>2 DEF LoadState, LoadStates
  <2> DEFINE r == saved.tasks # <<>>
  <2>4. cfg' = [url |-> row.url, total |-> row.total, ranges |-> r]
    BY <2>2
  <2>5. r => tasks # <<>>
    BY <2>3
  <2> HIDE DEF r
  <2>6. cfg'.url = row.url /\ cfg'.ranges = r
        /\ cfg' = [url |-> cfg'.url, total |-> cfg'.total, ranges |-> cfg'.ranges]
    BY <2>4
  <2>7. cfg'.ranges => MemoryMatches'
    BY <1>2, <2>5, <2>6 DEF MemoryMatches
  <2>8. RestInv'
    BY <1>2, <1>3, <2>6, <2>7, StoredAgrees
  <2>9. ps'.size = 0
    BY <2>2 DEF ResumedState, SyncSessionStart, NewProgressState
  <2>10. QED
    BY <1>2, <2>8, <2>9 DEF MapInv
<1>6. QED
  BY <1>4, <1>5

LEMMA UpdateKept ==
  ASSUME ~Late, CheckpointInv, MapInv, UpdateURL
  PROVE  MapInv'
<1>1. SUFFICES ASSUME ~plain'
               PROVE  MapInv'
  BY DEF MapInv
<1>2. mode = "rest" /\ sent = <<>> /\ UNCHANGED <<mode, ps, disk, tasks, sent, plain>>
  BY DEF UpdateURL, EventsStored, session, events
<1>3. PICK u : /\ cfg' = IF ps = NoState THEN cfg ELSE [cfg EXCEPT !.url = u]
               /\ row' = [row EXCEPT !.url = u]
  BY DEF UpdateURL
<1>4. RestInv /\ row.status # "completed" /\ IsRow(row)
  BY <1>1, <1>2 DEF MapInv, RestInv, CheckpointInv, CheckpointTypes
<1>5. row'.url = u /\ row'.size = row.size /\ row'.status = row.status
  BY <1>3, <1>4 DEF IsRow, HasFields, RowFields
<1>6. cfg = [url |-> cfg.url, total |-> cfg.total, ranges |-> cfg.ranges]
  BY <1>4 DEF RestInv
<1>7. [cfg EXCEPT !.url = u] = [url |-> u, total |-> cfg.total, ranges |-> cfg.ranges]
  BY <1>6
<1>8. /\ cfg' = [url |-> cfg'.url, total |-> cfg'.total, ranges |-> cfg'.ranges]
      /\ ps # NoState => cfg'.url = u
  BY <1>3, <1>6, <1>7
<1>9. ps # NoState => tasks # <<>>
  BY <1>2, <1>4 DEF RestInv, MemoryMatches
<1>10. ps' # NoState => MemoryMatches'
  BY <1>2, <1>5, <1>8, <1>9 DEF MemoryMatches
<1>11. RestInv'
  BY <1>2, <1>4, <1>5, <1>8, <1>10, StoredAgrees
<1>12. QED
  BY <1>1, <1>2, <1>11 DEF MapInv

LEMMA KillKept ==
  ASSUME MapInv, KillProcess
  PROVE  MapInv'
<1>1. SUFFICES ASSUME ~plain'
               PROVE  MapInv'
  BY DEF MapInv
<1>2. /\ mode # "done" /\ mode' = "down" /\ ps' = NoState /\ sent' = <<>>
      /\ UNCHANGED <<cfg, disk, row, tasks, plain>>
  BY DEF KillProcess, database
<1>3. RestInv /\ row.status # "completed"
  BY <1>1, <1>2 DEF MapInv, RestInv
<1>4. cfg' = [url |-> cfg'.url, total |-> cfg'.total, ranges |-> cfg'.ranges]
  BY <1>2, <1>3 DEF RestInv
<1>5. RestInv'
  BY <1>2, <1>3, <1>4, StoredAgrees
<1>6. QED
  BY <1>2, <1>5 DEF MapInv

LEMMA RestartKept ==
  ASSUME CheckpointInv, MapInv, Restart
  PROVE  MapInv'
<1>1. SUFFICES ASSUME ~plain'
               PROVE  MapInv'
  BY DEF MapInv
<1>2. /\ mode = "down" /\ mode' = "rest"
      /\ row' = [row EXCEPT !.status = IF @ = "downloading" THEN "paused" ELSE @]
      /\ UNCHANGED <<cfg, ps, disk, tasks, sent, plain>>
  BY DEF Restart, memory, session, events
<1>3. RestInv /\ row.status # "completed" /\ IsRow(row) /\ ps = NoState
  BY <1>1, <1>2 DEF MapInv, RestInv, CheckpointInv, CheckpointTypes, Phases
<1>4. row'.size = row.size /\ row'.status # "completed"
  BY <1>2, <1>3 DEF IsRow, HasFields, RowFields
<1>5. cfg' = [url |-> cfg'.url, total |-> cfg'.total, ranges |-> cfg'.ranges]
  BY <1>2, <1>3 DEF RestInv
<1>6. RestInv'
  BY <1>2, <1>3, <1>4, <1>5, StoredAgrees
<1>7. QED
  BY <1>2, <1>3, <1>6 DEF MapInv

\* The clock is nothing to the map.
LEMMA ClockKept ==
  ASSUME MapInv, UNCHANGED <<mode, cfg, ps, plan, fetch, disk, row, tasks, sent, plain>>
  PROVE  MapInv'
<1>1. RestInv => RestInv'
  <2>1. /\ \A q, z : Resumes(q, z)' <=> Resumes(q, z)
        /\ Resumes(tasks, row.size)' <=> Resumes(tasks, row.size)
    BY DEF Resumes, GoodTasks, GoodTask, Task, BytesOf, TaskBytes, File
  <2>2. Contents(sent)' = Contents(sent) /\ LastOf(sent)' = LastOf(sent)
        /\ MemoryMatches' = MemoryMatches
    BY DEF Contents, LastOf, MemoryMatches
  <2>3. QED
    BY <2>1, <2>2 DEF RestInv
<1>2. FetchInv => FetchInv'
  <2>1. Unknown' = Unknown /\ Adding' = Adding
    BY DEF Unknown, Adding, TaskBytes, OpenBytes, ToFetch, ToReport
  <2>2. Known' = Known
    BY <2>1 DEF Known, File
  <2>3. Maps(ps, Known) => Maps(ps, Known)'
    BY <2>2 DEF Maps, ChunkBytes, BytesOf, Task, ChunkLen, Less, Chunks
  <2>4. /\ GoodTasks(plan) => GoodTasks(plan)'
        /\ TaskBytes(plan)' = TaskBytes(plan)
        /\ \A f \in Fetchers : /\ FetchOK(fetch[f]) => FetchOK(fetch[f])'
                               /\ OpenBytes(fetch[f])' = OpenBytes(fetch[f])
                               /\ ToReport(fetch[f])' = ToReport(fetch[f])
    BY DEF GoodTasks, GoodTask, Task, BytesOf, TaskBytes, FetchOK, OpenBytes, ToFetch, ToReport
  <2>5. QED
    BY <2>1, <2>2, <2>3, <2>4 DEF FetchInv
<1>3. QED
  BY <1>1, <1>2 DEF MapInv

-----------------------------------------------------------------------------
LEMMA MapStart == CheckpointInit => MapInv
<1> SUFFICES ASSUME CheckpointInit
             PROVE  MapInv
  OBVIOUS
<1>1. mode = "queued" /\ tasks = <<>> /\ sent = <<>> /\ row.status # "completed"
  BY DEF CheckpointInit
<1>2. ps.size = 0 /\ ps.verified = 0
  BY DEF CheckpointInit, NewProgressState
<1>3. cfg = [url |-> cfg.url, total |-> cfg.total, ranges |-> cfg.ranges]
  BY DEF CheckpointInit
<1>4. RestInv
  BY <1>1, <1>2, <1>3, NoContents DEF RestInv
<1>5. QED
  BY <1>1, <1>2, <1>4 DEF MapInv

LEMMA MapStep ==
  ASSUME ~Late, CheckpointInv, MapInv, [CheckpointNext]_checkpointVars
  PROVE  MapInv'
<1>1. CASE UNCHANGED checkpointVars
  <2>1. UNCHANGED <<mode, cfg, ps, plan, fetch, disk, row, tasks, sent, plain>>
    BY <1>1 DEF checkpointVars, memory, session, database, events
  <2>2. QED
    BY <2>1, ClockKept
<1>2. CASE Tick
  <2>1. UNCHANGED <<mode, cfg, ps, plan, fetch, disk, row, tasks, sent, plain>>
    BY <1>2 DEF Tick, memory, session, database, events
  <2>2. QED
    BY <2>1, ClockKept
<1>3. QED
  BY <1>1, <1>2, BeginKept, ConnectionKept, ModeKept, PauseKept, CompleteKept, PlainKept,
     StoresKept, ResumeKept, UpdateKept, KillKept, RestartKept DEF CheckpointNext

\* Without connections at work there is nothing to add.
LEMMA MapSays ==
  ASSUME CheckpointInv, MapInv
  PROVE  VerifiedIsSum /\ ChunksAreWritten
<1>1. VerifiedIsSum
  <2>1. SUFFICES ASSUME ps # NoState, ~plain, ps.size > 0
                 PROVE  ps.verified + Adding = SumOf(ps.chunk)
    BY DEF VerifiedIsSum, Charted
  <2>2. CASE mode \in {"run", "pausing"}
    <3>1. FetchInv
      BY <2>1, <2>2 DEF MapInv
    <3>2. Maps(ps, Known) /\ Known \subseteq File /\ ps.verified + Adding = Cardinality(Known)
      BY <3>1 DEF FetchInv, Known
    <3>3. QED
      BY <3>2, MapSum
  <2>3. CASE mode \notin {"run", "pausing"}
    <3>1. ps.verified \in Nat /\ ps.verified = SumOf(ps.chunk)
      BY <2>1, <2>3 DEF MapInv
    <3>2. Adding = 0
      BY <2>3, IdleHands DEF CheckpointInv, Phases
    <3>3. QED
      BY <3>1, <3>2
  <2>4. QED
    BY <2>2, <2>3
<1>2. ChunksAreWritten
  <2>1. SUFFICES ASSUME mode \in {"run", "pausing"}, ~plain, NEW i \in DOMAIN ps.chunk
                 PROVE  LET written == Cardinality(disk \cap ChunkBytes(ps.size, i))
                        IN /\ ps.chunk[i] <= written
                           /\ ps.bits[i] = "completed" => written = ChunkLen(ps.size, i)
    BY DEF ChunksAreWritten, Fetching, ChunkBytes
  <2> DEFINE s == ps.size
             c == ChunkBytes(s, i)
  <2>2. Maps(ps, Known) /\ Known \subseteq disk /\ Known \subseteq File
    BY <2>1 DEF MapInv, FetchInv, Known
  <2>3. s \in Nat \ {0} /\ i \in Chunks(s)
    BY <2>2, Sizes DEF Maps
  <2>4. /\ ps.chunk[i] = Cardinality(c \cap Known)
        /\ ps.bits[i] = "completed" => ps.chunk[i] = ChunkLen(s, i)
    BY <2>2, <2>3 DEF Maps
  <2>5. IsFiniteSet(c) /\ Cardinality(c) = ChunkLen(s, i)
    BY <2>3, ChunkSize
  <2> HIDE DEF c, s
  <2>6. /\ IsFiniteSet(disk \cap c) /\ Cardinality(disk \cap c) \in Nat
        /\ Cardinality(disk \cap c) <= Cardinality(c) /\ Cardinality(c) \in Nat
    BY <2>5, PartSize
  <2>7. c \cap Known \subseteq disk \cap c
    BY <2>2
  <2>8. Cardinality(c \cap Known) <= Cardinality(disk \cap c) /\ Cardinality(c \cap Known) \in Nat
    BY <2>6, <2>7, PartSize
  <2>9. QED
    BY <2>4, <2>5, <2>6, <2>8 DEF c, s
<1>3. QED
  BY <1>1, <1>2

(* For any file, chunks, connections and bounds, if nobody resumes before  *)
(* the last session's events are stored: what the workers have reported,   *)
(* with what is between the map's unlock and the counter, is the sum over  *)
(* the chunks, through every pause, kill, resume with chunks of another    *)
(* size and completion (progress.go:422-589, downloader.go:537-551).       *)
THEOREM VerifiedIsAlwaysSum == ~Late => (CheckpointSpec => []VerifiedIsSum)
<1>1. CheckpointInit => CheckpointInv /\ MapInv
  BY CheckpointStart, MapStart
<1>2. CheckpointInv /\ MapInv => VerifiedIsSum
  BY MapSays
<1>3. ASSUME ~Late
      PROVE  CheckpointSpec => []VerifiedIsSum
  <2>1. CheckpointInv /\ MapInv /\ [CheckpointNext]_checkpointVars => (CheckpointInv /\ MapInv)'
    BY <1>3, CheckpointStep, MapStep
  <2>2. QED
    BY <1>1, <1>2, <2>1, PTL DEF CheckpointSpec
<1>4. QED
  BY <1>3

(* For any file, chunks, connections and bounds, if nobody resumes before  *)
(* the last session's events are stored: while connections fetch, no chunk *)
(* is shown with more bytes than are in the file, and none as completed    *)
(* that has a hole (progress.go:484-498, 569-588).                         *)
THEOREM ChunksAreAlwaysWritten == ~Late => (CheckpointSpec => []ChunksAreWritten)
<1>1. CheckpointInit => CheckpointInv /\ MapInv
  BY CheckpointStart, MapStart
<1>2. CheckpointInv /\ MapInv => ChunksAreWritten
  BY MapSays
<1>3. ASSUME ~Late
      PROVE  CheckpointSpec => []ChunksAreWritten
  <2>1. CheckpointInv /\ MapInv /\ [CheckpointNext]_checkpointVars => (CheckpointInv /\ MapInv)'
    BY <1>3, CheckpointStep, MapStep
  <2>2. QED
    BY <1>1, <1>2, <2>1, PTL DEF CheckpointSpec
<1>4. QED
  BY <1>3

-----------------------------------------------------------------------------
(* The transports, for every number of users, keys and transports: the     *)
(* reference counts are exact, the two maps agree, an idle transport       *)
(* always has a timer to come, and the pool implements TransportCache.     *)

(* What is held is managed, and what is managed has been created.          *)
HeldIsManaged ==
  /\ \A u \in Users : held[u] # NoTransport => held[u] \in transportMap
  /\ transportMap \subseteq made

(* Timers belong to created transports and are not of a later generation;  *)
(* none is both pending and fired, and an evicted transport has none of    *)
(* its current generation, so it is evicted once.                          *)
TimersKnown ==
  /\ \A t \in Transports, g \in Nat :
       <<t, g>> \in pending \cup fired => t \in made /\ g <= timerGen[t]
  /\ pending \cap fired = {}
  /\ \A t \in made \ transportMap : <<t, timerGen[t]>> \notin pending \cup fired

PoolInv == TypeOK /\ HeldIsManaged /\ TimersKnown /\ RefsExact /\ MapsAgree /\ IdleIsTimed

LEMMA HoldersFinite ==
  ASSUME NEW t
  PROVE  IsFiniteSet(Holders(t)) /\ Cardinality(Holders(t)) \in Nat
<1>1. Holders(t) \in SUBSET Users
  BY DEF Holders
<1>2. QED
  BY <1>1, NetworkPoolAssumption, FS_Subset, FS_CardinalityType

(* A user that takes t is one more holder of t and of nothing else.        *)
LEMMA HoldersGain ==
  ASSUME TypeOK, NEW u \in Users, NEW t \in Transports, held[u] = NoTransport,
         held' = [held EXCEPT ![u] = t]
  PROVE  /\ Cardinality(Holders(t)') = Cardinality(Holders(t)) + 1
         /\ \A s \in Transports : s # t => Holders(s)' = Holders(s)
<1>1. Holders(t)' = Holders(t) \cup {u} /\ u \notin Holders(t)
  BY NetworkPoolAssumption DEF Holders, TypeOK
<1>2. \A s \in Transports : s # t => Holders(s)' = Holders(s)
  BY NetworkPoolAssumption DEF Holders, TypeOK
<1>3. Cardinality(Holders(t) \cup {u}) = Cardinality(Holders(t)) + 1
  BY <1>1, HoldersFinite, FS_AddElement
<1>4. QED
  BY <1>1, <1>2, <1>3

(* A user that gives t back is one holder less of t and of nothing else.   *)
LEMMA HoldersLose ==
  ASSUME TypeOK, NEW u \in Users, NEW t \in Transports, held[u] = t,
         held' = [held EXCEPT ![u] = NoTransport]
  PROVE  /\ Cardinality(Holders(t)') = Cardinality(Holders(t)) - 1
         /\ Cardinality(Holders(t)) > 0
         /\ \A s \in Transports : s # t => Holders(s)' = Holders(s)
<1>1. Holders(t)' = Holders(t) \ {u} /\ u \in Holders(t)
  BY NetworkPoolAssumption DEF Holders, TypeOK
<1>2. \A s \in Transports : s # t => Holders(s)' = Holders(s)
  BY NetworkPoolAssumption DEF Holders, TypeOK
<1>3. IsFiniteSet(Holders(t)) /\ Cardinality(Holders(t)) \in Nat
  BY HoldersFinite
<1>4. Cardinality(Holders(t)) # 0
  BY <1>1, <1>3, FS_EmptySet
<1>5. Cardinality(Holders(t) \ {u}) = Cardinality(Holders(t)) - 1
  BY <1>1, <1>3, FS_RemoveElement
<1>6. QED
  BY <1>1, <1>2, <1>3, <1>4, <1>5

LEMMA PoolInit == Init => PoolInv
<1>1. SUFFICES ASSUME Init PROVE PoolInv
  OBVIOUS
<1>2. TypeOK
  BY <1>1 DEF Init, TypeOK
<1>3. QED
  BY <1>1, <1>2, NetworkPoolAssumption
     DEF Init, PoolInv, HeldIsManaged, TimersKnown, RefsExact, MapsAgree, IdleIsTimed

LEMMA AcquireNewStep ==
  ASSUME PoolInv, NEW u \in Users, NEW k \in Keys, NEW t \in Transports, AcquireNew(u, k, t)
  PROVE  PoolInv'
<1> USE NetworkPoolAssumption DEF PoolInv, AcquireNew, timers
<1>1. TypeOK'
  BY DEF TypeOK
<1>2. HeldIsManaged'
  BY DEF TypeOK, HeldIsManaged
<1>3. TimersKnown'
  BY DEF TypeOK, HeldIsManaged, TimersKnown
<1>4. Holders(t) = {}
  BY DEF HeldIsManaged, Holders
<1>5. Cardinality(Holders(t)') = 1
  <2>1. Cardinality(Holders(t)) = 0
    BY <1>4, FS_EmptySet
  <2>2. Cardinality(Holders(t)') = Cardinality(Holders(t)) + 1
    BY HoldersGain
  <2>3. QED
    BY <2>1, <2>2
<1>6. RefsExact'
  <2> SUFFICES ASSUME NEW s \in transportMap' PROVE refs'[s] = Cardinality(Holders(s)')
    BY DEF RefsExact
  <2>1. CASE s = t
    BY <2>1, <1>5 DEF TypeOK
  <2>2. CASE s # t
    <3>1. s \in Transports /\ s \in transportMap
      BY <2>2 DEF TypeOK
    <3>2. Holders(s)' = Holders(s)
      BY <2>2, <3>1, HoldersGain
    <3>3. QED
      BY <2>2, <3>1, <3>2 DEF TypeOK, RefsExact
  <2>3. QED
    BY <2>1, <2>2
<1>7. MapsAgree'
  BY DEF TypeOK, MapsAgree, HeldIsManaged
<1>8. IdleIsTimed'
  BY DEF TypeOK, IdleIsTimed
<1>9. QED
  BY <1>1, <1>2, <1>3, <1>6, <1>7, <1>8

LEMMA AcquireSharedStep ==
  ASSUME PoolInv, NEW u \in Users, NEW k \in Keys, AcquireShared(u, k)
  PROVE  PoolInv'
<1> SUFFICES ASSUME NEW t, t = configMap[k] PROVE PoolInv'
  OBVIOUS
<1> USE NetworkPoolAssumption DEF PoolInv, maps
<1>0. /\ t \in Transports /\ held[u] = NoTransport
      /\ pending' = pending \ {<<t, idleTimer[t]>>}
      /\ timerGen' = [timerGen EXCEPT ![t] = IF idleTimer[t] # 0 THEN @ + 1 ELSE @]
      /\ idleTimer' = [idleTimer EXCEPT ![t] = 0]
      /\ refs' = [refs EXCEPT ![t] = @ + 1]
      /\ held' = [held EXCEPT ![u] = t]
      /\ UNCHANGED <<configMap, transportMap, made, key, fired>>
  BY DEF AcquireShared, TypeOK
<1>1. t \in transportMap /\ t = configMap[k]
  BY <1>0 DEF MapsAgree
<1>2. TypeOK'
  BY <1>0 DEF TypeOK
<1>3. HeldIsManaged'
  BY <1>0, <1>1 DEF TypeOK, HeldIsManaged
<1>4. TimersKnown'
  BY <1>0, <1>1 DEF TypeOK, TimersKnown
<1>5. RefsExact'
  <2> SUFFICES ASSUME NEW s \in transportMap' PROVE refs'[s] = Cardinality(Holders(s)')
    BY DEF RefsExact
  <2>1. s \in Transports /\ s \in transportMap
    BY <1>0 DEF TypeOK
  <2>2. refs[s] = Cardinality(Holders(s))
    BY <2>1 DEF RefsExact
  <2>3. Cardinality(Holders(t)') = Cardinality(Holders(t)) + 1
        /\ (s # t => Holders(s)' = Holders(s))
    BY <1>0, <2>1, HoldersGain
  <2>4. QED
    BY <1>0, <2>1, <2>2, <2>3 DEF TypeOK
<1>6. MapsAgree'
  BY <1>0 DEF MapsAgree
<1>7. IdleIsTimed'
  BY <1>0, <1>1 DEF TypeOK, IdleIsTimed
<1>8. QED
  BY <1>2, <1>3, <1>4, <1>5, <1>6, <1>7

LEMMA ReleaseStep ==
  ASSUME PoolInv, NEW u \in Users, Release(u)
  PROVE  PoolInv'
<1> SUFFICES ASSUME NEW t, t = held[u] PROVE PoolInv'
  OBVIOUS
<1> USE NetworkPoolAssumption DEF PoolInv, maps, timers
<1>0. /\ t \in transportMap /\ t \in Transports /\ held[u] = t
      /\ refs[t] > 1
      /\ refs' = [refs EXCEPT ![t] = @ - 1]
      /\ held' = [held EXCEPT ![u] = NoTransport]
      /\ UNCHANGED <<configMap, transportMap, made, key, timerGen, idleTimer, pending, fired>>
  BY DEF Release, TypeOK
<1>1. TypeOK'
  BY <1>0 DEF TypeOK
<1>2. HeldIsManaged' /\ TimersKnown' /\ MapsAgree' /\ IdleIsTimed'
  BY <1>0 DEF TypeOK, HeldIsManaged, TimersKnown, MapsAgree, IdleIsTimed
<1>3. RefsExact'
  <2> SUFFICES ASSUME NEW s \in transportMap' PROVE refs'[s] = Cardinality(Holders(s)')
    BY DEF RefsExact
  <2>1. s \in Transports /\ refs[s] = Cardinality(Holders(s))
    BY <1>0 DEF TypeOK, RefsExact
  <2>2. Cardinality(Holders(t)') = Cardinality(Holders(t)) - 1
        /\ (s # t => Holders(s)' = Holders(s))
    BY <1>0, <2>1, HoldersLose
  <2>3. QED
    BY <1>0, <2>1, <2>2 DEF TypeOK
<1>4. QED
  BY <1>1, <1>2, <1>3

LEMMA ReleaseLastStep ==
  ASSUME PoolInv, NEW u \in Users, ReleaseLast(u)
  PROVE  PoolInv'
<1> SUFFICES ASSUME NEW t, t = held[u] PROVE PoolInv'
  OBVIOUS
<1> USE NetworkPoolAssumption DEF PoolInv, maps
<1>0. /\ t \in transportMap /\ t \in Transports /\ held[u] = t
      /\ refs[t] <= 1
      /\ refs' = [refs EXCEPT ![t] = 0]
      /\ timerGen' = [timerGen EXCEPT ![t] = @ + 1]
      /\ idleTimer' = [idleTimer EXCEPT ![t] = timerGen[t] + 1]
      /\ pending' = pending \cup {<<t, timerGen[t] + 1>>}
      /\ held' = [held EXCEPT ![u] = NoTransport]
      /\ UNCHANGED <<configMap, transportMap, made, key, fired>>
  BY DEF ReleaseLast, TypeOK
<1>1. TypeOK'
  BY <1>0 DEF TypeOK
<1>2. HeldIsManaged' /\ MapsAgree'
  BY <1>0 DEF TypeOK, HeldIsManaged, MapsAgree
<1>3. TimersKnown'
  <2>1. timerGen[t] \in Nat
    BY <1>0 DEF TypeOK
  <2>2. <<t, timerGen[t] + 1>> \notin pending \cup fired
    BY <1>0, <2>1 DEF TimersKnown
  <2>3. pending' \cap fired' = {}
    BY <1>0, <2>2 DEF TimersKnown
  <2>4. \A s \in Transports, g \in Nat :
          <<s, g>> \in pending' \cup fired' => s \in made' /\ g <= timerGen'[s]
    BY <1>0, <2>1 DEF TypeOK, TimersKnown, HeldIsManaged
  <2>5. \A s \in made' \ transportMap' : <<s, timerGen'[s]>> \notin pending' \cup fired'
    BY <1>0 DEF TypeOK, TimersKnown
  <2>6. QED
    BY <2>3, <2>4, <2>5 DEF TimersKnown
<1>4. RefsExact'
  <2> SUFFICES ASSUME NEW s \in transportMap' PROVE refs'[s] = Cardinality(Holders(s)')
    BY DEF RefsExact
  <2>1. s \in Transports /\ refs[s] = Cardinality(Holders(s))
    BY <1>0 DEF TypeOK, RefsExact
  <2>2. refs[t] = Cardinality(Holders(t)) /\ Cardinality(Holders(t)) \in Nat
    BY <1>0, HoldersFinite DEF RefsExact
  <2>3. /\ Cardinality(Holders(t)') = Cardinality(Holders(t)) - 1
        /\ Cardinality(Holders(t)) > 0
        /\ s # t => Holders(s)' = Holders(s)
    BY <1>0, <2>1, HoldersLose
  <2>4. QED
    BY <1>0, <2>1, <2>2, <2>3 DEF TypeOK
<1>5. IdleIsTimed'
  BY <1>0 DEF TypeOK, IdleIsTimed
<1>6. QED
  BY <1>1, <1>2, <1>3, <1>4, <1>5

LEMMA TimerStep ==
  ASSUME PoolInv, NEW t \in Transports, NEW g \in Nat \ {0}, Timer(t, g)
  PROVE  PoolInv'
<1> USE DEF PoolInv, maps
<1>1. CASE Expire(t, g)
  <2>1. pending' \cup fired' = pending \cup fired
    BY <1>1 DEF Expire
  <2>2. TypeOK' /\ HeldIsManaged' /\ RefsExact' /\ MapsAgree'
    BY <1>1 DEF Expire, TypeOK, HeldIsManaged, RefsExact, MapsAgree, Holders
  <2>3. TimersKnown' /\ IdleIsTimed'
    BY <1>1, <2>1 DEF Expire, TimersKnown, IdleIsTimed
  <2>4. QED
    BY <2>2, <2>3
<1>2. CASE Evict(t, g)
  <2>1. t \in made \ transportMap'
    BY <1>2 DEF Evict, TimersKnown
  <2>2. TypeOK' /\ RefsExact'
    BY <1>2 DEF Evict, TypeOK, RefsExact, Holders
  <2>3. t \in transportMap
    BY <1>2 DEF Evict, IsIdle, TimersKnown
  <2>4. Holders(t) = {}
    BY <1>2, <2>3, HoldersFinite, FS_EmptySet DEF Evict, IsIdle, RefsExact
  <2>5. HeldIsManaged'
    BY <1>2, <2>4 DEF Evict, HeldIsManaged, Holders
  <2>6. <<t, timerGen[t]>> \notin pending' \cup fired'
    BY <1>2 DEF Evict, IsIdle, TimersKnown
  <2>7. TimersKnown'
    BY <1>2, <2>1, <2>6 DEF Evict, TimersKnown
  <2>8. MapsAgree'
    BY <1>2, <2>3, NetworkPoolAssumption DEF Evict, MapsAgree, TypeOK
  <2>9. IdleIsTimed'
    BY <1>2 DEF Evict, IdleIsTimed
  <2>10. QED
    BY <2>2, <2>5, <2>7, <2>8, <2>9
<1>3. CASE TooLate(t, g)
  BY <1>3 DEF TooLate, IsIdle, TypeOK, HeldIsManaged, RefsExact, MapsAgree, Holders,
              TimersKnown, IdleIsTimed
<1>4. QED
  BY <1>1, <1>2, <1>3 DEF Timer

LEMMA StutterStep == ASSUME PoolInv, UNCHANGED vars PROVE PoolInv'
BY DEF PoolInv, vars, maps, timers, TypeOK, HeldIsManaged, TimersKnown, RefsExact, Holders,
       MapsAgree, IdleIsTimed

(* A timer in one of the two sets has a transport and a generation.        *)
LEMMA TimerParts ==
  ASSUME TypeOK, NEW e \in pending \cup fired
  PROVE  e[1] \in Transports /\ e[2] \in Nat \ {0}
BY DEF TypeOK

LEMMA PoolStep == PoolInv /\ [Next]_vars => PoolInv'
<1> SUFFICES ASSUME PoolInv, [Next]_vars PROVE PoolInv'
  OBVIOUS
<1>1. ASSUME NEW e \in pending \cup fired, Timer(e[1], e[2]) PROVE PoolInv'
  BY <1>1, TimerParts, TimerStep DEF PoolInv
<1>2. QED
  BY <1>1, AcquireNewStep, AcquireSharedStep, ReleaseStep, ReleaseLastStep, StutterStep DEF Next

LEMMA PoolAlways == Spec => []PoolInv
BY PoolInit, PoolStep, PTL DEF Spec

(* The types of the pool's state.                                          *)
THEOREM NetworkPoolTypes == Spec => []TypeOK
<1>1. PoolInv => TypeOK
  BY DEF PoolInv
<1>2. QED
  BY <1>1, PoolAlways, PTL

(* refs counts the goroutines that hold a managed transport, so "the last  *)
(* release" is the last one, and release never meets a transport it does   *)
(* not manage.                                                             *)
THEOREM RefsAreExact == Spec => []RefsExact
<1>1. PoolInv => RefsExact
  BY DEF PoolInv
<1>2. QED
  BY <1>1, PoolAlways, PTL

(* configMap and transportMap lead to the same leases.                     *)
THEOREM MapsAlwaysAgree == Spec => []MapsAgree
<1>1. PoolInv => MapsAgree
  BY DEF PoolInv
<1>2. QED
  BY <1>1, PoolAlways, PTL

(* No idle transport is left without a timer that will evict it.           *)
THEOREM IdleIsAlwaysTimed == Spec => []IdleIsTimed
<1>1. PoolInv => IdleIsTimed
  BY DEF PoolInv
<1>2. QED
  BY <1>1, PoolAlways, PTL

-----------------------------------------------------------------------------
LEMMA CacheInit == Init => Cache!TCInit
BY DEF Init, Cache!TCInit

LEMMA CacheStep == PoolInv /\ [Next]_vars => [Cache!TCNext]_(Cache!cacheVars)
<1> SUFFICES ASSUME PoolInv, [Next]_vars PROVE Cache!TCNext \/ UNCHANGED <<configMap, held>>
  BY DEF Cache!cacheVars
<1> USE NetworkPoolAssumption DEF PoolInv
<1>1. ASSUME NEW u \in Users, NEW k \in Keys, NEW t \in Transports, AcquireNew(u, k, t)
      PROVE  Cache!Create(u, k, t)
  <2>1. \A l \in Keys : configMap[l] # t
    BY <1>1 DEF AcquireNew, MapsAgree, HeldIsManaged
  <2>2. \A v \in Users : held[v] # t
    BY <1>1 DEF AcquireNew, HeldIsManaged
  <2>3. QED
    BY <1>1, <2>1, <2>2 DEF AcquireNew, Cache!Create
<1>2. ASSUME NEW u \in Users, NEW k \in Keys, AcquireShared(u, k)
      PROVE  Cache!Share(u, k)
  BY <1>2 DEF AcquireShared, maps, Cache!Share
<1>3. ASSUME NEW u \in Users, Release(u) \/ ReleaseLast(u)
      PROVE  Cache!GiveBack(u)
  BY <1>3 DEF Release, ReleaseLast, maps, Cache!GiveBack, TypeOK
<1>4. ASSUME NEW t \in Transports, NEW g \in Nat \ {0}, Timer(t, g)
      PROVE  Cache!Drop(key[t]) \/ UNCHANGED <<configMap, held>>
  <2>1. CASE Evict(t, g)
    <3>1. t \in transportMap /\ configMap[key[t]] = t
      BY <2>1 DEF Evict, IsIdle, TimersKnown, MapsAgree, TypeOK
    <3>2. Holders(t) = {}
      BY <2>1, <3>1, HoldersFinite, FS_EmptySet DEF Evict, IsIdle, RefsExact
    <3>3. QED
      BY <2>1, <3>1, <3>2 DEF Evict, Holders, Cache!Drop
  <2>2. QED
    BY <1>4, <2>1 DEF Timer, Expire, TooLate, maps
<1>5. ASSUME NEW e \in pending \cup fired, Timer(e[1], e[2])
      PROVE  Cache!TCNext \/ UNCHANGED <<configMap, held>>
  <2>1. e[1] \in Transports /\ e[2] \in Nat \ {0} /\ key[e[1]] \in Keys
    BY TimerParts DEF TypeOK
  <2>2. QED
    BY <1>4, <1>5, <2>1 DEF Cache!TCNext
<1>6. QED
  BY <1>1, <1>2, <1>3, <1>5 DEF Next, Cache!TCNext, vars, maps

(* The pool implements TransportCache: users of a configuration share one  *)
(* transport and an eviction never takes it away from a user.              *)
THEOREM PoolImplementsCache == Spec => ImplementsTransportCache
BY CacheInit, CacheStep, PoolAlways, PTL DEF Spec, ImplementsTransportCache, Cache!TCSpec
=============================================================================
