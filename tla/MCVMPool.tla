------------------------------ MODULE MCVMPool ------------------------------
(* Symmetry of the VMPool runs.                                            *)
EXTENDS VMPool, TLC

CONSTANTS s1, s2, s3, v1, v2, v3, d1, d2

Symmetry ==
  Permutations(Sandboxes) \cup Permutations(VMs) \cup Permutations(Destroyers)
=============================================================================
