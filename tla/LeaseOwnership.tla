--------------------------- MODULE LeaseOwnership ---------------------------
(* What leases promise (docs/worker-rpc-contract.md, "Required lease       *)
(* guarantees"): a resource has at most one owner, and passes from one     *)
(* owner to another only through a state in which nobody owns it.          *)
CONSTANTS Holders, Nobody

VARIABLE owner

Init == owner = Nobody

Take(h) == owner = Nobody /\ owner' = h

GiveUp == owner' = Nobody

Next == GiveUp \/ \E h \in Holders : Take(h)

Spec == Init /\ [][Next]_owner
=============================================================================
