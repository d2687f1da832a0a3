-------------------------- MODULE LeadershipProofs --------------------------
(***************************************************************************)
(* Lemmas about Leadership for the proofs of the modules that extend it:   *)
(* what its steps keep, and that a term has one leader at most.            *)
(***************************************************************************)
EXTENDS Leadership, TLAPS

LEMMA LeadershipStarts ==
    ASSUME LeadershipInit
    PROVE  LeadershipTypeOK
BY MaxTermAssumption DEF LeadershipInit, LeadershipTypeOK, MaxTermAssumption

LEMMA LeadershipStays ==
    ASSUME LeadershipTypeOK, UNCHANGED leadershipVars
    PROVE  LeadershipTypeOK'
BY DEF LeadershipTypeOK, leadershipVars

LEMMA LeadershipDeposed ==
    ASSUME LeadershipTypeOK, NEW l \in Nodes, Deposed(l)
    PROVE  LeadershipTypeOK'
BY DEF LeadershipTypeOK, Deposed

LEMMA LeadershipElected ==
    ASSUME LeadershipTypeOK, NEW n \in Nodes, Elect(n)
    PROVE  LeadershipTypeOK' /\ term' = term + 1
BY MaxTermAssumption
   DEF LeadershipTypeOK, Elect, LeadershipMayMove, MaxTermAssumption

LEMMA LeadershipHeard ==
    ASSUME LeadershipTypeOK, NEW n \in Nodes, WatchLeadership(n)
    PROVE  LeadershipTypeOK'
BY DEF LeadershipTypeOK, WatchLeadership

LEMMA LeadershipRestarted ==
    ASSUME LeadershipTypeOK, NEW n \in Nodes, Restart(n)
    PROVE  LeadershipTypeOK'
BY DEF LeadershipTypeOK, Restart

\* Within a term raft has the leader it has, or none.
LEMMA OneLeaderInTerm ==
    ASSUME LeadershipTypeOK, NEW n \in Nodes,
           \/ UNCHANGED leadershipVars
           \/ Deposed(n)
           \/ WatchLeadership(n)
           \/ Restart(n)
    PROVE  term' = term /\ raftLeader' \in {raftLeader, None}
BY DEF leadershipVars, Deposed, WatchLeadership, Restart

=============================================================================
