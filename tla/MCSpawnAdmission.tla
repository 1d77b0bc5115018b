-------------------------- MODULE MCSpawnAdmission --------------------------
(* Constants of the SpawnAdmission runs.                                   *)
EXTENDS SpawnAdmission, TLC

CONSTANTS c1, c2, c3, c4, o1

\* One owner with two of the calls; the other calls name no owner.
OneOwner == [c \in Calls |-> IF c \in {c1, c2} THEN o1 ELSE NoOwner]

\* Calls with the same owner are interchangeable.
Symmetry == Permutations({c1, c2}) \cup Permutations(Calls \ {c1, c2})
=============================================================================
