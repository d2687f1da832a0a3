---------------------------- MODULE MCMembership ----------------------------
(* Values of the constants of Membership for TLC. *)
EXTENDS Membership, TLC

CONSTANTS n1, n2, n3, a1, a2

RequestSymmetry == Permutations(Requests)

Two == {n1, n2}
Homes == [n \in Two |-> IF n = n1 THEN a1 ELSE a2]

Join(m, role, addr) == [op |-> "join", member |-> m, role |-> role, addr |-> addr]
Role(m, role) == [op |-> "role", member |-> m, role |-> role, addr |-> None]
Remove(m) == [op |-> "remove", member |-> m, role |-> "voter", addr |-> None]

\* Every change of one of the founders, which may lead, and a new node that
\* joins with its address.
ChangesAndJoins ==
    {Role(n2, "nonvoter"), Remove(n2), Join(n2, "nonvoter", a2), Join(n3, "voter", a2)}

\* What the properties tell apart: whether a member that is raced for was left half
\* way as well makes no difference to them.
ToldApart ==
    <<leadershipVars, directory, configuration, view, request, torn \ raced, raced>>

=============================================================================
