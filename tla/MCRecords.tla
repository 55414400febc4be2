------------------------------ MODULE MCRecords ------------------------------
(***************************************************************************)
(* What the program keeps on disk of its own: the row and the tasks of a   *)
(* download, and the files that name the process that runs.  The two share *)
(* nothing, and are explored in one run: a behaviour is one of either.     *)
(***************************************************************************)
EXTENDS Checkpoint, Instance

VARIABLE record

RecordsInit == record \in {"download", "process"} /\ CheckpointInit /\ InstanceInit

RecordsNext ==
  \/ record = "download" /\ CheckpointNext /\ UNCHANGED <<record, instanceVars>>
  \/ record = "process" /\ InstanceNext /\ UNCHANGED <<record, checkpointVars>>

RecordsSpec == RecordsInit /\ [][RecordsNext]_<<record, checkpointVars, instanceVars>>
=============================================================================
