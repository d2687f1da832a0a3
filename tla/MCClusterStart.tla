--------------------------- MODULE MCClusterStart ---------------------------
(* Values of the constants of ClusterStart for TLC. *)
EXTENDS ClusterStart, TLC

CONSTANTS n1, n2, n3, a1, a2, a3

Two == {n1, n2}
One == {n1}
Homes == [n \in Founders |-> IF n = n1 THEN a1 ELSE a2]

\* Founders by cluster.peers, or by cluster.bootstrap.
PeersOfTwo == <<n1, n2>>
NoPeers == <<>>

\* The joiner shall not vote.
Configured == [n \in Nodes |-> IF n \in Founders THEN "voter" ELSE "nonvoter"]

=============================================================================
