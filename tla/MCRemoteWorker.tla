----------------------------- MODULE MCRemoteWorker -----------------------------
(* One remote worker, which sorts before the local one.                     *)
EXTENDS RemoteWorker, TLC

CONSTANTS s1, s2, w1

BeforeLocal == <<w1, Local>>
Symmetry == Permutations(Sandboxes)
=============================================================================
