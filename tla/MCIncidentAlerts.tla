-------------------------- MODULE MCIncidentAlerts --------------------------
(* Values of the constants of IncidentAlerts for TLC. *)
EXTENDS IncidentAlerts, TLC

CONSTANTS n1, n2, r1, r2

\* Nodes are interchangeable, and so are rules: no order on either is used.
NodeAndRuleSymmetry ==
    {p @@ q : p \in Permutations({n1, n2}), q \in Permutations({r1, r2})}

=============================================================================
