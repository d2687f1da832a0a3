------------------------- MODULE MCReplicatedStore -------------------------
(* Values of the constants of ReplicatedStore for TLC. *)
EXTENDS ReplicatedStore, TLC

CONSTANTS n1, n2, k1, k2

Servers == {n1, n2}
DeliveryKeys == {k1, k2}
Symmetry == Permutations(Servers) \cup Permutations(DeliveryKeys)

=============================================================================
