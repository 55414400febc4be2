----------------------- MODULE MCConcurrentDownloader -----------------------
(* ConcurrentDownloader for TLC.                                           *)
EXTENDS ConcurrentDownloader, TLC

Symmetry == Permutations(Workers)
=============================================================================
