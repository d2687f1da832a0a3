--------------------------- MODULE MCIngressSync ---------------------------
(* Values of the constants of IngressSync for TLC. *)
EXTENDS IngressSync

CONSTANTS n1, n2

SamePriority == [n \in {n1, n2} |-> 1]
Ids == [n \in {n1, n2} |-> IF n = n1 THEN 1 ELSE 2]

\* No observer reaches n1, which is eligible to itself alone.
OneUnseen == [n \in {n1, n2} |-> IF n = n1 THEN {"unseen", "unfit"}
                                         ELSE {"reachable", "unfit"}]
BothSeen == [n \in {n1, n2} |-> {"reachable", "unfit"}]

=============================================================================
