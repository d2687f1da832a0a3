----------------------------- MODULE Leadership -----------------------------
(***************************************************************************)
(* cluster.Manager over hashicorp/raft.  Raft itself is external: of it we *)
(* keep who may commit a log entry now (raftLeader) and how many elections *)
(* there have been (term).  The Manager adds a flag of its own, isLeader,  *)
(* which a goroutine copies from raft's NotifyCh, so it lags behind raft   *)
(* in both directions: a deposed node still takes itself for the leader    *)
(* and a new leader does not know it yet.                                  *)
(*                                                                         *)
(* Every write of the program goes through Manager.Apply.  Its outcomes,   *)
(* which the modules that extend this one conjoin with their own effect:   *)
(*   Committed(n)  the command is in the log and in n's own store;         *)
(*   Refused(n)    the flag or raft refused it, nothing was written;       *)
(*   Deposed(n)    raft accepted it and lost leadership before the answer: *)
(*                 the caller sees an error, the command may be committed. *)
(***************************************************************************)
EXTENDS Naturals

CONSTANTS
    Nodes,      \* the raft servers
    None,       \* no node
    MaxTerm     \* bound: elections in a behaviour

ASSUME NodesAssumption == None \notin Nodes
ASSUME MaxTermAssumption == MaxTerm \in Nat

VARIABLES
    raftLeader, \* the node whose log entries raft commits, or None
    term,       \* elections so far
    isLeader    \* Manager.isLeader of every node

leadershipVars == <<raftLeader, term, isLeader>>

LeadershipTypeOK ==
    /\ raftLeader \in Nodes \cup {None}
    /\ term \in 0..MaxTerm
    /\ isLeader \in [Nodes -> BOOLEAN]

LeadershipInit ==
    /\ raftLeader = None
    /\ term = 0
    /\ isLeader = [n \in Nodes |-> FALSE]

\* ApplyRaw asks the flag first, raft.Apply then asks raft.
Accepts(n) == isLeader[n] /\ raftLeader = n

Committed(n) == Accepts(n) /\ UNCHANGED leadershipVars

Refused(n) == ~Accepts(n) /\ UNCHANGED leadershipVars

\* The bound: after the last election leadership no longer moves.
LeadershipMayMove == term < MaxTerm

Deposed(n) ==
    /\ Accepts(n)
    /\ LeadershipMayMove
    /\ raftLeader' = None
    /\ UNCHANGED <<term, isLeader>>

-----------------------------------------------------------------------------
\* Raft elects n; the old leader, if there is one, has not heard of it.
Elect(n) ==
    /\ LeadershipMayMove
    /\ raftLeader # n
    /\ raftLeader' = n
    /\ term' = term + 1
    /\ UNCHANGED isLeader

\* watchLeadership stores what NotifyCh reported.
WatchLeadership(n) ==
    /\ isLeader[n] # (raftLeader = n)
    /\ isLeader' = [isLeader EXCEPT ![n] = (raftLeader = n)]
    /\ UNCHANGED <<raftLeader, term>>

\* The process of n stops and is started again: a new Manager has no flag.
Restart(n) ==
    /\ LeadershipMayMove
    /\ isLeader' = [isLeader EXCEPT ![n] = FALSE]
    /\ raftLeader' = IF raftLeader = n THEN None ELSE raftLeader
    /\ UNCHANGED term

=============================================================================
