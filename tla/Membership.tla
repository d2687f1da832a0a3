----------------------------- MODULE Membership -----------------------------
(***************************************************************************)
(* JoinMember, UpdateMemberRole, RemoveMember and the removal of the       *)
(* leader itself.  Membership is kept twice: as rows of cluster_members,   *)
(* the directory that the program goes by, and as the configuration of     *)
(* raft, which decides who votes and who is replicated to.  Each request   *)
(* changes both, one after the other, without a lock and without a         *)
(* transaction; nothing compares the two later.                            *)
(*                                                                         *)
(* A request that reaches a follower is forwarded until a node that takes  *)
(* itself for the leader handles it, or it is answered with an error.      *)
(* The directory has been seeded already.  The raft address stands for all *)
(* addresses of a member.  Membership events are left out.                 *)
(***************************************************************************)
EXTENDS Leadership

CONSTANTS
    Requests,   \* bound: requests handled at the same time
    Addresses,  \* raft addresses
    Commands,   \* what requests may ask for
    Founders,   \* the members of the first configuration, all of them voters
    HomeAddress \* address of every founder

VARIABLES
    directory,      \* the cluster_members rows
    configuration,  \* raft's latest configuration
    view,           \* the directory as replicated to each node
    request,        \* the handlers: where they are, their locals
    torn,           \* history: members that were left half way, and that no
                    \* request has succeeded for since
    raced           \* history: members whose last handlers overlapped, or read
                    \* a replica that lagged behind

vars == <<leadershipVars, directory, configuration, view, request, torn, raced>>

Roles == {"voter", "nonvoter"}

\* The rows, a member that never joined among them.
NoRow == [status |-> "none", role |-> "nonvoter", addr |-> None]
Rows == [status : {"active", "removed"}, role : Roles, addr : Addresses]
            \cup {NoRow}

\* The servers of a configuration.
Absent == [role |-> "none", addr |-> None]
Servers == [role : Roles, addr : Addresses] \cup {Absent}

Active(row) == row.status = "active"

Calls == {"none", "AddVoter", "AddNonvoter", "DemoteVoter", "RemoveServer"}

NoRequest == [pc |-> "idle", op |-> "none", member |-> None, row |-> NoRow,
              previous |-> NoRow, call |-> "none", at |-> None]

RequestStates ==
    [pc : {"arrive", "decide", "call", "write", "rollback"},
     op : {"join", "role", "remove"}, member : Nodes, previous : Rows,
     row : [status : {"active", "removed"}, role : Roles,
            addr : Addresses \cup {None}],
     call : Calls, at : Nodes \cup {None}] \cup {NoRequest}

\* What may be asked for: only a join brings an address along.
CommandStates ==
    [op : {"join"}, member : Nodes, role : Roles, addr : Addresses]
    \cup [op : {"role", "remove"}, member : Nodes, role : Roles, addr : {None}]

ASSUME CommandsAssumption == Commands \subseteq CommandStates
ASSUME AddressesAssumption == None \notin Addresses
ASSUME FoundersAssumption ==
    /\ Founders \subseteq Nodes
    /\ Founders # {}
    /\ HomeAddress \in [Founders -> Addresses]
    /\ \A m, n \in Founders : HomeAddress[m] = HomeAddress[n] => m = n

TypeOK ==
    /\ LeadershipTypeOK
    /\ directory \in [Nodes -> Rows]
    /\ configuration \in [Nodes -> Servers]
    /\ view \in [Nodes -> [Nodes -> Rows]]
    /\ request \in [Requests -> RequestStates]
    /\ torn \subseteq Nodes
    /\ raced \subseteq Nodes

Init ==
    /\ LeadershipInit
    /\ directory = [m \in Nodes |->
                       IF m \in Founders
                       THEN [status |-> "active", role |-> "voter",
                             addr |-> HomeAddress[m]]
                       ELSE NoRow]
    /\ configuration = [m \in Nodes |->
                           IF m \in Founders
                           THEN [role |-> "voter", addr |-> HomeAddress[m]]
                           ELSE Absent]
    /\ view = [n \in Nodes |-> directory]
    /\ request = [r \in Requests |-> NoRequest]
    /\ torn = {}
    /\ raced = {}

-----------------------------------------------------------------------------
(* The configuration of raft                                               *)

Voters(conf) == {m \in Nodes : conf[m].role = "voter"}

\* raft refuses a configuration without a voter or with a shared address.
Valid(conf) ==
    /\ Voters(conf) # {}
    /\ \A m, n \in Nodes :
           m # n /\ conf[m] # Absent => conf[m].addr # conf[n].addr

\* An existing voter that is added again keeps its vote.
Changed(conf, call, m, addr) ==
    CASE call = "AddVoter" ->
           [conf EXCEPT ![m] = [role |-> "voter", addr |-> addr]]
      [] call = "AddNonvoter" ->
           [conf EXCEPT ![m] = [role |-> IF @.role = "voter" THEN "voter"
                                                              ELSE "nonvoter",
                                addr |-> addr]]
      [] call = "DemoteVoter" ->
           IF conf[m] = Absent THEN conf ELSE [conf EXCEPT ![m].role = "nonvoter"]
      [] call = "RemoveServer" -> [conf EXCEPT ![m] = Absent]

\* The call is committed; a leader that has lost its vote steps down.
CallSucceeds(n, conf) ==
    /\ raftLeader = n
    /\ Valid(conf)
    /\ configuration' = conf
    /\ raftLeader' = IF n \in Voters(conf) THEN n ELSE None
    /\ UNCHANGED <<term, isLeader>>

\* raft is not the leader here, refuses the change, or is busy with another
\* one until the 10 seconds are over.
CallFails == UNCHANGED <<leadershipVars, configuration>>

\* Leadership is lost over it, and the change may or may not be committed.
CallIsLost(n, conf) ==
    /\ raftLeader = n
    /\ Valid(conf)
    /\ LeadershipMayMove
    /\ configuration' \in {configuration, conf}
    /\ raftLeader' = None
    /\ UNCHANGED <<term, isLeader>>

\* removeServer no longer waits because the client is gone; raft goes on.
CallIsAbandoned(call, n, conf) ==
    /\ call = "RemoveServer"
    /\ CallSucceeds(n, conf)

-----------------------------------------------------------------------------
(* Manager.Apply of a row                                                  *)

\* Nobody reads the replica of any other node, so it stays as it is and catches
\* up when the node may be elected.
Readers == {n \in Nodes : n \in Voters(configuration) \/ isLeader[n]}

\* As in IncidentAlerts: after the last election no replica lags.
Replicates(first) ==
    \E behind \in SUBSET (Readers \ first) :
        /\ behind = {} \/ LeadershipMayMove
        /\ view' = [n \in Nodes |-> IF n \in Readers \ behind THEN directory'
                                                             ELSE view[n]]

PutMember(m, row) == directory' = [directory EXCEPT ![m] = row]

Succeeds(n) == Committed(n) /\ Replicates({n})

Fails(n) == (Refused(n) \/ Deposed(n)) /\ UNCHANGED <<directory, view>>

FailsCommitted(n) == Deposed(n) /\ Replicates({})

-----------------------------------------------------------------------------
(* The handlers                                                            *)

At(r, step) == request[r].pc = step

Goto(r, step) == request' = [request EXCEPT ![r].pc = step]

Answer(r) == request' = [request EXCEPT ![r] = NoRequest]

\* The handler has left its member half way, or has succeeded for it.
Tears(r) == torn' = torn \cup {request[r].member}

Mends(r) == torn' = torn \ {request[r].member}

UnderWay(r) == request[r].pc \notin {"idle", "arrive"}

\* A handler that has the member to itself, and has read the last row, ends a
\* race; what the race has left behind is for it to mend.
NotesRace(r, n) ==
    LET m == request[r].member
        alone == /\ \A q \in Requests \ {r} : ~(UnderWay(q) /\ request[q].member = m)
                 /\ view[n][m] = directory[m]
    IN  IF alone
        THEN /\ raced' = raced \ {m}
             /\ torn' = torn \cup (raced \cap {m})
        ELSE /\ raced' = raced \cup {m}
             /\ UNCHANGED torn

Receive(r) ==
    /\ At(r, "idle")
    /\ \E c \in Commands :
         request' = [request EXCEPT ![r] =
                        [NoRequest EXCEPT
                            !.pc = "arrive", !.op = c.op, !.member = c.member,
                            !.row = [status |-> "active", role |-> c.role,
                                     addr |-> c.addr]]]
    /\ UNCHANGED <<leadershipVars, directory, configuration, view, torn, raced>>

\* No leader is found, or the one that was found no longer is.
Unavailable(r) ==
    /\ At(r, "arrive")
    /\ Answer(r)
    /\ UNCHANGED <<leadershipVars, directory, configuration, view, torn, raced>>

\* normalizeJoinCandidate: is the id active elsewhere, or the address taken?
Conflicts(rows, m, addr) ==
    \/ Active(rows[m]) /\ rows[m].addr # addr
    \/ \E other \in Nodes \ {m} : Active(rows[other]) /\ rows[other].addr = addr

BeginJoin(r, n) ==
    LET m == request[r].member
    IN  /\ At(r, "arrive") /\ request[r].op = "join"
        /\ isLeader[n]
        /\ IF Conflicts(view[n], m, request[r].row.addr)
           THEN Answer(r) /\ UNCHANGED <<torn, raced>>
           ELSE /\ request' = [request EXCEPT ![r].pc = "write", ![r].at = n,
                                              ![r].previous = view[n][m]]
                /\ NotesRace(r, n)
        /\ UNCHANGED <<leadershipVars, directory, configuration, view>>

\* Mutants: a changed row is made of the request, or of any row there is.
BeginChangeFromRequest(r, n) ==
    LET m == request[r].member
        row == view[n][m]
    IN  /\ At(r, "arrive") /\ request[r].op \in {"role", "remove"}
        /\ isLeader[n]
        /\ request[r].op = "remove" => m # n
        /\ IF ~Active(row)
           THEN Answer(r) /\ UNCHANGED <<torn, raced>>
           ELSE /\ request' = [request EXCEPT ![r].pc = "decide", ![r].at = n]
                /\ NotesRace(r, n)
        /\ UNCHANGED <<leadershipVars, directory, configuration, view>>

BeginChangeOfAny(r, n) ==
    LET m == request[r].member
        row == view[n][m]
    IN  /\ At(r, "arrive") /\ request[r].op \in {"role", "remove"}
        /\ isLeader[n]
        /\ request[r].op = "remove" => m # n
        /\ IF row = NoRow
           THEN Answer(r) /\ UNCHANGED <<torn, raced>>
           ELSE /\ request' = [request EXCEPT
                       ![r].pc = "decide", ![r].at = n,
                       ![r].row = IF request[r].op = "role"
                                  THEN [request[r].row EXCEPT !.addr = row.addr]
                                  ELSE [row EXCEPT !.status = "removed"]]
                /\ NotesRace(r, n)
        /\ UNCHANGED <<leadershipVars, directory, configuration, view>>

\* UpdateMemberRole and RemoveMember take the row as it is and change a field.
BeginChange(r, n) ==
    LET m == request[r].member
        row == view[n][m]
    IN  /\ At(r, "arrive") /\ request[r].op \in {"role", "remove"}
        /\ isLeader[n]
        /\ request[r].op = "remove" => m # n
        /\ IF ~Active(row)
           THEN Answer(r) /\ UNCHANGED <<torn, raced>>
           ELSE /\ request' = [request EXCEPT
                       ![r].pc = "decide", ![r].at = n,
                       ![r].row = IF request[r].op = "role"
                                  THEN [row EXCEPT !.role = request[r].row.role]
                                  ELSE [row EXCEPT !.status = "removed"]]
                /\ NotesRace(r, n)
        /\ UNCHANGED <<leadershipVars, directory, configuration, view>>

LastVoter(m) == Voters(configuration) = {m}

\* handleLeaderSelfRemoval: leadership goes to another active voter, whose
\* health is left open here, and the request is sent after it.
RemoveSelf(r, n) ==
    /\ At(r, "arrive") /\ request[r].op = "remove" /\ request[r].member = n
    /\ isLeader[n]
    /\ \/ Answer(r) /\ UNCHANGED leadershipVars
       \/ /\ ~LastVoter(n)
          /\ raftLeader = n
          /\ LeadershipMayMove
          /\ \E target \in Voters(configuration) \ {n} :
               /\ Active(view[n][target])
               /\ raftLeader' = target
          /\ term' = term + 1
          /\ UNCHANGED <<isLeader, request>>
    /\ UNCHANGED <<directory, configuration, view, torn, raced>>

\* ensureRaftMembership compares the configuration with the row of a member
\* that shall be in it ...
CallFor(row, server) ==
    CASE row.role = server.role -> "none"
      [] row.role = "voter" /\ server.role # "voter" -> "AddVoter"
      [] row.role # "voter" /\ server.role = "voter" -> "DemoteVoter"
      [] OTHER -> "AddNonvoter"

\* ... and RemoveMember with that of a member that shall not.
CallForRemoval(server) == IF server = Absent THEN "none" ELSE "RemoveServer"

\* The last voter is neither demoted nor removed, and a server is not moved.
Objects(op, m, row, server) ==
    \/ op = "role" /\ row.role = "nonvoter" /\ LastVoter(m)
    \/ op = "remove" /\ LastVoter(m)
    \/ op \in {"join", "role"} /\ server # Absent /\ server.addr # row.addr

\* Mutant: a failed join leaves its row behind.
AfterErrorNoRollback(r) == Answer(r)

\* What follows an error, and what follows when raft is as it should be.
AfterError(r) == IF request[r].op = "join" THEN Goto(r, "rollback") ELSE Answer(r)

AfterCall(r) == IF request[r].op = "join" THEN Answer(r) /\ Mends(r)
                                          ELSE Goto(r, "write") /\ UNCHANGED torn

Decide(r) ==
    LET q == request[r]
        server == configuration[q.member]
        call == IF q.op = "remove" THEN CallForRemoval(server)
                                   ELSE CallFor(q.row, server)
    IN  /\ At(r, "decide")
        /\ IF Objects(q.op, q.member, q.row, server)
           THEN AfterError(r) /\ UNCHANGED torn
           ELSE IF call = "none"
           THEN AfterCall(r)
           ELSE /\ request' = [request EXCEPT ![r].pc = "call", ![r].call = call]
                /\ UNCHANGED torn
        /\ UNCHANGED <<leadershipVars, directory, configuration, view, raced>>

Call(r) ==
    LET q == request[r]
        conf == Changed(configuration, q.call, q.member, q.row.addr)
    IN  /\ At(r, "call")
        /\ \/ CallSucceeds(q.at, conf) /\ AfterCall(r)
           \/ CallFails /\ AfterError(r) /\ UNCHANGED torn
           \/ /\ CallIsLost(q.at, conf) \/ CallIsAbandoned(q.call, q.at, conf)
              /\ AfterError(r)
              /\ Tears(r)
        /\ UNCHANGED <<directory, view, raced>>

\* The row: before the call for a join, after it otherwise.
WriteRow(r) ==
    LET q == request[r]
    IN  /\ At(r, "write")
        /\ \/ /\ PutMember(q.member, q.row)
              /\ Succeeds(q.at)
              /\ IF q.op = "join" THEN Goto(r, "decide") /\ UNCHANGED torn
                                  ELSE Answer(r) /\ Mends(r)
           \/ /\ PutMember(q.member, q.row)
              /\ FailsCommitted(q.at)
              /\ Answer(r)
              /\ IF q.op = "join" THEN Tears(r) ELSE UNCHANGED torn
           \/ /\ Fails(q.at)
              /\ Answer(r)
              /\ IF q.call # "none" THEN Tears(r) ELSE UNCHANGED torn
        /\ UNCHANGED <<configuration, raced>>

\* rollbackMemberRecord: the row as it was read, or a removed one.
Rollback(r) ==
    LET q == request[r]
        row == IF q.previous = NoRow THEN [q.row EXCEPT !.status = "removed"]
                                     ELSE q.previous
    IN  /\ At(r, "rollback")
        /\ \/ /\ PutMember(q.member, row)
              /\ Succeeds(q.at) \/ FailsCommitted(q.at)
              /\ UNCHANGED torn
           \/ Fails(q.at) /\ Tears(r)
        /\ Answer(r)
        /\ UNCHANGED <<configuration, raced>>

-----------------------------------------------------------------------------
(* The surroundings                                                        *)

CatchUp(n) ==
    /\ n \in Readers
    /\ view[n] # directory
    /\ view' = [view EXCEPT ![n] = directory]
    /\ UNCHANGED <<leadershipVars, directory, configuration, request, torn, raced>>

\* The handlers of n are gone; its replica is as old as it was (a bound: a
\* snapshot may be older).
Crash(n) ==
    LET here == {r \in Requests : request[r].at = n}
    IN  /\ here # {}
        /\ Restart(n)
        /\ request' = [r \in Requests |-> IF r \in here THEN NoRequest ELSE request[r]]
        /\ torn' = torn \cup {request[r].member : r \in here}
        /\ UNCHANGED <<directory, configuration, view, raced>>

ElectLeader(n) ==
    /\ n \in Voters(configuration)
    /\ Elect(n)
    /\ UNCHANGED <<directory, configuration, view, request, torn, raced>>

HearLeadership(n) ==
    /\ WatchLeadership(n)
    /\ UNCHANGED <<directory, configuration, view, request, torn, raced>>

Handle(r) ==
    \/ Receive(r)
    \/ Unavailable(r)
    \/ \E n \in Nodes : BeginJoin(r, n) \/ BeginChange(r, n) \/ RemoveSelf(r, n)
    \/ Decide(r)
    \/ Call(r)
    \/ WriteRow(r)
    \/ Rollback(r)

Next ==
    \/ \E r \in Requests : Handle(r)
    \/ \E n \in Nodes :
           CatchUp(n) \/ Crash(n) \/ ElectLeader(n) \/ HearLeadership(n)

Spec == Init /\ [][Next]_vars

-----------------------------------------------------------------------------
(* Properties                                                              *)

AtRest == \A r \in Requests : ~UnderWay(r)

\* The directory and raft say the same of m.
Agree(m) ==
    configuration[m] = IF Active(directory[m])
                       THEN [role |-> directory[m].role, addr |-> directory[m].addr]
                       ELSE Absent

\* When no request is being handled, the directory and raft say the same of
\* every member for which the last request was handled alone and succeeded, or
\* failed without having been interrupted between its two writes.  So failed
\* joins are undone, and whatever overlapping handlers, lost leadership and
\* crashes leave of a member, the next request that has the member to itself
\* and is answered with success makes up for.
AgreeUndisturbed ==
    AtRest => \A m \in Nodes \ (torn \cup raced) : Agree(m)

\* No two active members have one address when no request is being handled,
\* with the exception of members that were left half way or are being raced for:
\* joins that both passed the check are told apart by raft.
AddressesDistinct ==
    AtRest => \A m, n \in Nodes \ (torn \cup raced) :
        m # n /\ Active(directory[m]) /\ Active(directory[n]) =>
            directory[m].addr # directory[n].addr

\* A removed member comes back only by a join of its own that writes its row,
\* unless its last handlers overlapped or read an old row: a change of role that
\* is overtaken by a removal does bring it back.  No rollback does, and nothing
\* takes a member that is gone from raft, too, into raft again.
RemovedComesBackByJoin ==
    [][ \A m \in Nodes \ raced :
            LET JoinIs(steps) == \E r \in Requests :
                    /\ request[r].op = "join" /\ request[r].member = m
                    /\ request[r].pc \in steps
            IN  directory[m].status = "removed" =>
                    /\ Active(directory'[m]) => JoinIs({"write"})
                    /\ configuration[m] = Absent => configuration'[m] = Absent ]_vars

\* The directory can be gone by: as long as every handler got to its end, what
\* it says of a member is what raft says, when no handler is at work.
DirectoryIsTruth ==
    AtRest => \A m \in Nodes \ torn : directory[m] # NoRow => Agree(m)

=============================================================================
