--------------------------- MODULE MCAdminSettings ---------------------------
(* Values of the constants of AdminSettings for TLC. *)
EXTENDS AdminSettings, TLC

CONSTANTS n1, n2, a1, a2, p1, p2, telegram, smtp, f1

\* Administrators are interchangeable; nodes are not, the environment differs.
AdminSymmetry == Permutations(Admins)

Environment == (n1 :> {telegram}) @@ (n2 :> {})

Put(c, fields, secret) ==
    [op |-> "put", channel |-> c, enabled |-> TRUE, fields |-> fields, secret |-> secret]

Asked ==
    {[op |-> "bootstrap", password |-> p1], [op |-> "bootstrap", password |-> p2],
     [op |-> "login", password |-> p1], [op |-> "logout"],
     [op |-> "password", current |-> p1, password |-> p2],
     Put(telegram, f1, FALSE), Put(telegram, f1, TRUE), Put(smtp, None, FALSE),
     Put(smtp, f1, FALSE), [op |-> "reset", channel |-> telegram]}

=============================================================================
