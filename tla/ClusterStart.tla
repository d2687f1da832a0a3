---------------------------- MODULE ClusterStart ----------------------------
(***************************************************************************)
(* How a cluster comes to be: the founders bootstrap raft, a leader copies *)
(* its configuration file into the empty directory, and further nodes ask  *)
(* to be let in.  The directory is seeded at the start of every tick of    *)
(* the engine and of every membership request, one Apply per peer, until   *)
(* there is a row.  A new node asks its seeds in turn until it is accepted *)
(* or gets an answer that it does not ask again after; then the process    *)
(* stops, and systemd starts it again.                                     *)
(*                                                                         *)
(* Which seed is asked makes no difference: it forwards to the leader it   *)
(* knows.  Requests of administrators are left to Membership.              *)
(***************************************************************************)
EXTENDS Membership, Sequences

CONSTANTS
    Peers,          \* cluster.peers of the founders; none in dynamic mode
    ConfiguredRole, \* cluster.role of every node
    Joiners,        \* nodes with join_seeds
    JoinAddresses   \* the addresses a joiner may be configured with

ASSUME PeersAssumption ==
    /\ Peers \in Seq(Founders)
    /\ Peers # <<>> => \A m \in Founders : \E i \in DOMAIN Peers : Peers[i] = m
ASSUME JoinersAssumption ==
    /\ Joiners \subseteq Nodes \ Founders
    /\ ConfiguredRole \in [Nodes -> Roles]
    /\ JoinAddresses \subseteq Addresses

VARIABLES
    seeding,    \* the peers that a tick, or a request, still has to write
    joiner,     \* the new nodes: their processes and what is on their disks
    verdict,    \* what a request that is being rolled back will be answered
    cut         \* history: a seeding ended before its last peer

startVars == <<seeding, joiner, verdict, cut>>
allVars == <<vars, startVars>>

\* What the client makes of an answer: to go on, to ask again, or to stop.
Outcomes == {"joined", "asking", "stopped"}

Seeders == Nodes \cup Requests

ASSUME SeedersAssumption == Nodes \cap Requests = {} /\ None \notin Requests

JoinerStates ==
    [pc : Outcomes \cup {"running"}, request : {None}, addr : JoinAddresses,
     hasState : BOOLEAN]
    \cup [pc : {"waiting"}, request : Requests, addr : JoinAddresses,
          hasState : BOOLEAN]

StartTypeOK ==
    /\ LeadershipTypeOK
    /\ directory \in [Nodes -> Rows]
    /\ configuration \in [Nodes -> Servers]
    /\ view \in [Nodes -> [Nodes -> Rows]]
    /\ \A r \in Requests :
           \/ request[r] \in RequestStates
           \/ At(r, "seed") /\ request[r].at \in Nodes /\ seeding[r] # <<>>
    /\ seeding \in [Seeders -> Seq(Nodes)]
    /\ joiner \in [Joiners -> JoinerStates]
    /\ verdict \in [Requests -> Outcomes]
    /\ torn \subseteq Nodes
    /\ raced \subseteq Nodes
    /\ cut \in BOOLEAN

EmptyDirectory == [m \in Nodes |-> NoRow]

\* NewManager bootstraps the first peer with all peers, or the first node of a
\* dynamic cluster alone; the others start empty.
StartInit ==
    /\ LeadershipInit
    /\ directory = EmptyDirectory
    /\ configuration = [m \in Nodes |->
                           IF m \in Founders
                           THEN [role |-> "voter", addr |-> HomeAddress[m]]
                           ELSE Absent]
    /\ view = [n \in Nodes |-> EmptyDirectory]
    /\ request = [r \in Requests |-> NoRequest]
    /\ torn = {}
    /\ raced = {}
    /\ seeding = [s \in Seeders |-> <<>>]
    /\ joiner \in [Joiners -> [pc : {"asking"}, request : {None},
                               addr : JoinAddresses, hasState : {FALSE}]]
    /\ verdict = [r \in Requests |-> "asking"]
    /\ cut = FALSE

-----------------------------------------------------------------------------
(* EnsureMemberDirectorySeeded                                             *)

\* Peers include the local node: a node that asks to join has none.
UsesStaticPeers(n) == Peers # <<>> /\ n \notin Joiners

\* Mutant: the local node is taken to have a row already.
SeedListWithoutSelf(n) ==
    IF UsesStaticPeers(n) THEN SelectSeq(Peers, LAMBDA m : m # n) ELSE <<n>>

SeedList(n) == IF UsesStaticPeers(n) THEN Peers ELSE <<n>>

\* clusterMemberFromPeer, SelfMember
SeedRow(m) ==
    [status |-> "active",
     role |-> IF UsesStaticPeers(m) THEN "voter" ELSE ConfiguredRole[m],
     addr |-> IF m \in Joiners THEN joiner[m].addr ELSE HomeAddress[m]]

Unseeded(n) == view[n] = EmptyDirectory

\* The next Apply of a seeding by s at n, and the one that is its last because
\* it fails.
SeedingGoesOn(s, n) ==
    /\ PutMember(Head(seeding[s]), SeedRow(Head(seeding[s])))
    /\ Succeeds(n)
    /\ seeding' = [seeding EXCEPT ![s] = Tail(@)]
    /\ UNCHANGED cut

SeedingFails(s, n) ==
    /\ \/ /\ PutMember(Head(seeding[s]), SeedRow(Head(seeding[s])))
          /\ FailsCommitted(n)
       \/ Fails(n)
    /\ seeding' = [seeding EXCEPT ![s] = <<>>]
    /\ cut' = TRUE

\* The engine of n begins a tick ...
BeginSeeding(n) ==
    /\ isLeader[n]
    /\ Unseeded(n)
    /\ seeding[n] = <<>>
    /\ seeding' = [seeding EXCEPT ![n] = SeedList(n)]
    /\ UNCHANGED <<vars, joiner, verdict, cut>>

\* ... and goes on; an error is logged.
SeedInTick(n) ==
    /\ seeding[n] # <<>>
    /\ SeedingGoesOn(n, n) \/ SeedingFails(n, n)
    /\ UNCHANGED <<configuration, request, torn, raced, joiner, verdict>>

-----------------------------------------------------------------------------
(* The client: AutoJoin                                                    *)

\* The client that waits for r is answered, if r is.
Tell(r, outcome) ==
    joiner' = [j \in Joiners |->
        IF joiner[j].request = r /\ request'[r] = NoRequest
        THEN [joiner[j] EXCEPT !.pc = outcome, !.request = None]
        ELSE joiner[j]]

\* tryJoinSeed with the node's own row.
Ask(j, r) ==
    /\ joiner[j].pc = "asking"
    /\ At(r, "idle")
    /\ request' = [request EXCEPT ![r] =
           [NoRequest EXCEPT !.pc = "arrive", !.op = "join", !.member = j,
                             !.row = SeedRow(j)]]
    /\ joiner' = [joiner EXCEPT ![j].pc = "waiting", ![j].request = r]
    /\ UNCHANGED <<leadershipVars, directory, configuration, view, torn, raced,
                   seeding, verdict, cut>>

\* Mutant: the answer given up is still waited for.
TimeOutStillWaiting(j) ==
    /\ joiner[j].pc = "waiting"
    /\ LeadershipMayMove
    /\ joiner' = [joiner EXCEPT ![j].pc = "asking"]
    /\ UNCHANGED <<vars, seeding, verdict, cut>>

\* After 10 seconds, or when the connection breaks, the client asks the next
\* seed.  The handler goes on.
TimeOut(j) ==
    /\ joiner[j].pc = "waiting"
    /\ LeadershipMayMove
    /\ joiner' = [joiner EXCEPT ![j].pc = "asking", ![j].request = None]
    /\ UNCHANGED <<vars, seeding, verdict, cut>>

\* raft on j is up before the join is, and stores what the leader sends.
StoreRaftState(j) ==
    /\ joiner[j].pc # "stopped"
    /\ ~joiner[j].hasState
    /\ configuration[j] # Absent
    /\ raftLeader \notin {None, j}
    /\ joiner' = [joiner EXCEPT ![j].hasState = TRUE]
    /\ UNCHANGED <<vars, seeding, verdict, cut>>

\* The bound: a joiner that takes itself for the leader does not die.
Die(j) ==
    /\ joiner[j].pc # "stopped"
    /\ LeadershipMayMove
    /\ raftLeader # j /\ ~isLeader[j]
    /\ joiner' = [joiner EXCEPT ![j].pc = "stopped", ![j].request = None]
    /\ UNCHANGED <<vars, seeding, verdict, cut>>

\* Mutant: the files that raft makes when it is opened count as state.
StartWithoutJoining(j) ==
    /\ joiner[j].pc = "stopped"
    /\ joiner' = [joiner EXCEPT ![j].pc = "running"]
    /\ UNCHANGED <<vars, seeding, verdict, cut>>

\* systemd starts the process again; NeedsJoin asks for raft state only.
Start(j) ==
    /\ joiner[j].pc = "stopped"
    /\ joiner' = [joiner EXCEPT ![j].pc = IF joiner[j].hasState THEN "running"
                                                                ELSE "asking"]
    /\ UNCHANGED <<vars, seeding, verdict, cut>>

-----------------------------------------------------------------------------
(* The handler of a join: as in Membership, with its answers               *)

\* A handler stays where it has begun to seed.
MayHandle(r, n) == request[r].at \in {None, n}

\* 503, retryable; or the flag is gone when JoinMember looks at it again: 409.
NotHandled(r) ==
    /\ Unavailable(r)
    /\ \/ request[r].at = None /\ Tell(r, "asking")
       \/ request[r].at = None /\ LeadershipMayMove /\ Tell(r, "stopped")
       \/ request[r].at # None /\ ~isLeader[request[r].at] /\ Tell(r, "stopped")
    /\ UNCHANGED <<seeding, verdict, cut>>

BeginSeedingFirst(r, n) ==
    /\ At(r, "arrive")
    /\ isLeader[n] /\ Unseeded(n) /\ MayHandle(r, n)
    /\ request' = [request EXCEPT ![r].pc = "seed", ![r].at = n]
    /\ seeding' = [seeding EXCEPT ![r] = SeedList(n)]
    /\ UNCHANGED <<leadershipVars, directory, configuration, view, torn, raced,
                   joiner, verdict, cut>>

\* A node that is not the leader answers 409, which is final, and one that has
\* lost leadership while it waited 500.
LeaderError(n) == IF Accepts(n) THEN "asking" ELSE "stopped"

SeedFirst(r) ==
    LET n == request[r].at
    IN  /\ At(r, "seed")
        /\ \/ /\ SeedingGoesOn(r, n)
              /\ IF seeding'[r] = <<>> THEN Goto(r, "arrive") ELSE UNCHANGED request
              /\ UNCHANGED joiner
           \/ SeedingFails(r, n) /\ Answer(r) /\ Tell(r, LeaderError(n))
        /\ UNCHANGED <<configuration, torn, raced, verdict>>

BeginRequest(r) ==
    NotHandled(r) \/ \E n \in Nodes : BeginSeedingFirst(r, n)

\* A conflict is final.
HandleJoin(r, n) ==
    /\ ~Unseeded(n)
    /\ MayHandle(r, n)
    /\ BeginJoin(r, n)
    /\ Tell(r, "stopped")
    /\ UNCHANGED <<seeding, verdict, cut>>

\* Mutant: an error of raft is answered like a success.
DecideAndCallHidingErrors(r) ==
    /\ Decide(r) \/ Call(r)
    /\ verdict' = [verdict EXCEPT ![r] = "joined"]
    /\ Tell(r, "joined")
    /\ UNCHANGED <<seeding, cut>>

\* ensureRaftMembership: a conflict and a node that does not lead are final,
\* and to raft being busy or deposed the client comes back.
DecideAndCall(r) ==
    /\ Decide(r) \/ Call(r)
    /\ verdict' = [verdict EXCEPT ![r] =
           IF request'[r].pc = "rollback" /\ (At(r, "decide") \/ raftLeader # request[r].at)
           THEN "stopped" ELSE "asking"]
    /\ Tell(r, "joined")
    /\ UNCHANGED <<seeding, cut>>

WriteJoin(r) ==
    /\ WriteRow(r)
    /\ Tell(r, LeaderError(request[r].at))
    /\ UNCHANGED <<seeding, verdict, cut>>

RollBackJoin(r) ==
    /\ Rollback(r)
    /\ Tell(r, verdict[r])
    /\ verdict' = [verdict EXCEPT ![r] = "asking"]
    /\ UNCHANGED <<seeding, cut>>

HandleStep(r) ==
    \/ SeedFirst(r)
    \/ DecideAndCall(r)
    \/ WriteJoin(r)
    \/ RollBackJoin(r)

-----------------------------------------------------------------------------
(* The surroundings                                                        *)

\* Ticks and handlers of n are gone, and the clients are cut off.
CrashNode(n) ==
    LET here == {r \in Requests : request[r].at = n}
        lost == {s \in here \cup {n} : seeding[s] # <<>>}
    IN  /\ here \cup lost # {}
        /\ Restart(n)
        /\ request' = [r \in Requests |-> IF r \in here THEN NoRequest ELSE request[r]]
        /\ torn' = torn \cup {request[r].member : r \in {q \in here : UnderWay(q)}}
        /\ seeding' = [s \in Seeders |-> IF s \in lost THEN <<>> ELSE seeding[s]]
        /\ cut' = (cut \/ lost # {})
        /\ joiner' = [j \in Joiners |->
               IF joiner[j].request \in here
               THEN [joiner[j] EXCEPT !.pc = "asking", !.request = None]
               ELSE joiner[j]]
        /\ UNCHANGED <<directory, configuration, view, raced, verdict>>

\* A process that is down is not elected.
ElectNode(n) ==
    /\ n \in Joiners => joiner[n].pc # "stopped"
    /\ ElectLeader(n)
    /\ UNCHANGED startVars

Hear(n) == HearLeadership(n) /\ UNCHANGED startVars

ReplicaCatchesUp(n) == CatchUp(n) /\ UNCHANGED startVars

StartNext ==
    \/ \E n \in Nodes :
           \/ BeginSeeding(n)
           \/ SeedInTick(n)
           \/ CrashNode(n)
           \/ ElectNode(n)
           \/ Hear(n)
           \/ ReplicaCatchesUp(n)
    \/ \E r \in Requests :
           \/ BeginRequest(r)
           \/ \E n \in Nodes : HandleJoin(r, n)
           \/ HandleStep(r)
    \/ \E j \in Joiners :
           \/ \E r \in Requests : Ask(j, r)
           \/ TimeOut(j)
           \/ StoreRaftState(j)
           \/ Die(j)
           \/ Start(j)

StartSpec == StartInit /\ [][StartNext]_allVars

\* The call of raft that a handler has waited for is carried out.
CallGoesThrough(r) ==
    At(r, "call") /\ DecideAndCall(r) /\ configuration' # configuration

\* Everybody goes on, somebody is elected, and requests that are sent again and
\* again get through to a leader and to raft.
StartFairness ==
    /\ \A n \in Nodes :
           /\ WF_allVars(BeginSeeding(n) \/ SeedInTick(n))
           /\ WF_allVars(Hear(n))
           /\ WF_allVars(ReplicaCatchesUp(n))
           /\ WF_allVars(raftLeader = None /\ ElectNode(n))
    /\ \A r \in Requests :
           /\ WF_allVars(BeginRequest(r) \/ HandleStep(r))
           /\ SF_allVars(\E n \in Nodes : HandleJoin(r, n))
           /\ SF_allVars(CallGoesThrough(r))
    /\ \A j \in Joiners :
           /\ SF_allVars(\E r \in Requests : Ask(j, r))
           /\ WF_allVars(Start(j))

FairStartSpec == StartSpec /\ StartFairness

-----------------------------------------------------------------------------
(* Properties                                                              *)

Disturbed == torn \cup raced

\* Once every seeding is over and none was cut off, the directory has a row for
\* every peer or none at all, whoever else was seeding or joining meanwhile and
\* whichever replicas they looked at.
SeededInFull ==
    ~cut /\ (\A s \in Seeders : seeding[s] = <<>>) /\ directory # EmptyDirectory
        => \A i \in DOMAIN Peers : directory[Peers[i]] # NoRow

\* A node that was told that it has joined is a member for everybody and is in
\* raft, even if seedings were cut off and addresses taken, as long as no
\* handler of its join was interrupted or overtaken by another one.
JoinedIsMember ==
    \A j \in Joiners \ Disturbed :
        AtRest /\ joiner[j].pc = "joined" => Active(directory[j]) /\ Agree(j)

\* The address of j is that of a founder.
AddressTaken(j) == \E m \in Founders : HomeAddress[m] = joiner[j].addr

\* Every new node with an address of its own becomes a member in the end,
\* whatever it was answered and however often it was started again, unless a
\* handler of its join was disturbed.
JoinsInTheEnd ==
    \A j \in Joiners :
        <>[]( \/ AddressTaken(j)
              \/ j \in Disturbed
              \/ Active(directory[j]) /\ Agree(j) )

=============================================================================
