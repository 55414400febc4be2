---------------------------- MODULE MCLifecycle ----------------------------
(* Values for TLC.                                                         *)
EXTENDS Lifecycle
WantedSame == [d \in Downloads |-> 1]
WantedFirst == CHOOSE f \in [Downloads -> Names] : \A d, e \in Downloads : d # e => f[d] # f[e]
=============================================================================
