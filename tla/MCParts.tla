------------------------------- MODULE MCParts -------------------------------
(***************************************************************************)
(* Parts of the program that share no state with each other, and of which  *)
(* something is owed in the end: the transports, a program that exits when *)
(* it is done, a remote client.  One run explores them all: a behaviour is *)
(* one of any of them, while the others rest.                              *)
(***************************************************************************)
EXTENDS NetworkPool, ExitWhenDone, Remote

VARIABLE part

\* A program that has exited: ExitFairness asks nothing of it.
ExitRests ==
  /\ ui = "server" /\ place = [d \in AllDownloads |-> "ended"] /\ uncounted = {}
  /\ pendingEnqueue = 0 /\ activeDownloads = 0
  /\ consumer = TRUE /\ feed = <<>> /\ watch = "fired" /\ spoiled = FALSE

\* One of the pool's initial states is enough while it rests.
PoolRests == Init /\ key = CHOOSE f \in [Transports -> Keys] : TRUE

PartsInit ==
  /\ part \in {"pool", "exit", "remote"}
  /\ IF part = "pool" THEN Init ELSE PoolRests
  /\ IF part = "exit" THEN ExitInit ELSE ExitRests
  /\ RemoteInit

PartsNext ==
  \/ part = "pool" /\ Next /\ UNCHANGED <<part, exitVars, remoteVars>>
  \/ part = "exit" /\ ExitNext /\ UNCHANGED <<part, vars, remoteVars>>
  \/ part = "remote" /\ RemoteNext /\ UNCHANGED <<part, vars, exitVars>>

PartsSpec ==
  /\ PartsInit
  /\ [][PartsNext]_<<part, vars, exitVars, remoteVars>>
  /\ Fairness /\ ExitFairness /\ RemoteFairness
=============================================================================
