------------------------ MODULE MCSpawnAdmissionLive ------------------------
(* Constants of the liveness run: no owner limits.                       *)
EXTENDS SpawnAdmission

NoOwners == [c \in Calls |-> NoOwner]
=============================================================================
