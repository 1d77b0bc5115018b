-------------------------- MODULE MCSandboxLifecycle --------------------------
(* Symmetry of the safety run.                                             *)
EXTENDS SandboxLifecycle, TLC

CONSTANTS s1, s2

Symmetry == Permutations(Sandboxes) \cup Permutations(Clients)
=============================================================================
