------------------------- MODULE ClusterStartProofs -------------------------
(***************************************************************************)
(* Theorems about ClusterStart, for any founders, peers, joiners, roles and*)
(* addresses, any number of requests at a time and every bound.            *)
(*                                                                         *)
(* Nobody changes its address, so a node has one row and one raft server   *)
(* that it can be given.  A seeding only ever writes rows of nodes that    *)
(* raft knows already, and the first write of all is that of a founder.    *)
(***************************************************************************)
EXTENDS ClusterStart, LeadershipProofs, SequenceTheorems

\* The rows and the server that node m may have; a founder is never removed.
Gone(m) == [SeedRow(m) EXCEPT !.status = "removed"]

OwnRows(m) == {NoRow, SeedRow(m)} \cup {row \in {Gone(m)} : m \in Joiners}

OwnServer(m) ==
    IF m \in Founders THEN [role |-> "voter", addr |-> HomeAddress[m]]
                      ELSE [role |-> ConfiguredRole[m], addr |-> joiner[m].addr]

KnownNodes == Founders \cup Joiners

\* Every request is a join, and its handler works on it once it has read the
\* rows.
JoinHandlers ==
    [pc : {"arrive", "seed", "write", "decide", "call", "rollback"}, op : {"join"},
     member : Joiners, previous : Rows, call : {"none", "AddVoter", "AddNonvoter"},
     row : [status : {"active"}, role : Roles, addr : Addresses],
     at : Nodes \cup {None}]

Working(r) == request[r].pc \in {"write", "decide", "call", "rollback"}

TypeInv ==
    /\ LeadershipTypeOK
    /\ directory \in [Nodes -> Rows]
    /\ configuration \in [Nodes -> Servers]
    /\ view \in [Nodes -> [Nodes -> Rows]]
    /\ request \in [Requests -> JoinHandlers \cup {NoRequest}]
    /\ seeding \in [Seeders -> Seq(Nodes)]
    /\ joiner \in [Joiners -> JoinerStates]
    /\ verdict \in [Requests -> {"asking", "stopped"}]
    /\ torn \subseteq Nodes /\ raced \subseteq Nodes /\ cut \in BOOLEAN

\* A node has its own row and its own server, or none; who is not in raft does
\* not lead.
RowsOf(m) ==
    /\ m \in KnownNodes =>
           /\ directory[m] \in OwnRows(m)
           /\ \A n \in Nodes : view[n][m] \in OwnRows(m)
           /\ configuration[m] \in {Absent, OwnServer(m)}
    /\ m \notin KnownNodes => directory[m] = NoRow /\ configuration[m] = Absent
    /\ m \in Founders => configuration[m] # Absent
    /\ isLeader[m] \/ raftLeader = m => configuration[m] # Absent
    /\ \A n \in Nodes : view[n][m] # NoRow => directory[m] # NoRow

RequestOf(r) ==
    LET q == request[r]
    IN  /\ q.pc # "idle" => q.row = SeedRow(q.member) /\ q.previous \in OwnRows(q.member)
        /\ UnderWay(r) => q.at \in Nodes
        /\ q.pc = "seed" <=> seeding[r] # <<>>
        /\ q.pc = "call" =>
               q.call = IF q.row.role = "voter" THEN "AddVoter" ELSE "AddNonvoter"

JoinerOf(j) ==
    LET q == joiner[j]
    IN  /\ q.pc = "waiting" => request[q.request].pc # "idle" /\ request[q.request].member = j
        /\ q.pc = "joined" => configuration[j] # Absent

\* Seedings write the rows of nodes that raft knows.
SeedingOf(s) ==
    \A i \in DOMAIN seeding[s] :
        seeding[s][i] \in KnownNodes /\ configuration[seeding[s][i]] # Absent

\* Before the first write nobody has joined and every seeding is at its start;
\* after it every peer has a row, or a seeding has it still to write.
SeedInv ==
    /\ directory = EmptyDirectory =>
           /\ \A j \in Joiners : configuration[j] = Absent
           /\ \A r \in Requests : ~Working(r)
           /\ \A s \in Seeders : seeding[s] = <<>> \/ Peers = <<>> \/ seeding[s] = Peers
    /\ ~cut /\ directory # EmptyDirectory =>
           \A i \in DOMAIN Peers :
               \/ directory[Peers[i]] # NoRow
               \/ \E s \in Seeders : \E k \in DOMAIN seeding[s] : seeding[s][k] = Peers[i]

\* What the handler of a join knows of a joiner that it shares with no other;
\* the more when it was not left half way before.
HandlerOf(r) ==
    LET q == request[r]
        absent == configuration[q.member] = Absent
    IN  Working(r) /\ q.member \notin raced =>
            /\ q.pc \in {"decide", "call"} => directory[q.member] = SeedRow(q.member)
            /\ q.pc = "call" => absent
            /\ q.member \notin torn =>
                   /\ q.pc = "write" =>
                          directory[q.member] = q.previous /\ (absent <=> ~Active(q.previous))
                   /\ q.pc # "write" => (Active(q.previous) => ~absent)
                   /\ q.pc = "rollback" => absent

OneWorker ==
    \A q, r \in Requests :
        Working(q) /\ Working(r) /\ q # r /\ request[q].member = request[r].member =>
            request[r].member \in raced

\* Whom raft has, the directory has; and the other way when no handler works.
RestOf(j) ==
    /\ configuration[j] # Absent => directory[j] = SeedRow(j)
    /\ Active(directory[j]) /\ (\A r \in Requests : Working(r) => request[r].member # j) =>
           configuration[j] # Absent

AddressInv ==
    \A m, n \in Nodes :
        m # n /\ configuration[m] # Absent => configuration[m].addr # configuration[n].addr

JoinInv ==
    /\ \A r \in Requests : HandlerOf(r)
    /\ OneWorker
    /\ \A j \in Joiners \ Disturbed : RestOf(j)

IInv ==
    /\ TypeInv
    /\ \A m \in Nodes : RowsOf(m)
    /\ \A r \in Requests : RequestOf(r)
    /\ \A j \in Joiners : JoinerOf(j)
    /\ \A s \in Seeders : SeedingOf(s)
    /\ SeedInv /\ JoinInv /\ AddressInv

-----------------------------------------------------------------------------
USE NodesAssumption, MaxTermAssumption, AddressesAssumption, FoundersAssumption,
    PeersAssumption, JoinersAssumption, SeedersAssumption
  DEF NodesAssumption, MaxTermAssumption, AddressesAssumption, FoundersAssumption,
      PeersAssumption, JoinersAssumption, SeedersAssumption

(* Rows, servers and lists                                                 *)

\* What a joiner is configured with is what it asks for.
LEMMA JoinersRow ==
    ASSUME TypeInv, NEW j \in Joiners
    PROVE  /\ joiner[j].addr \in Addresses
           /\ SeedRow(j) = [status |-> "active", role |-> ConfiguredRole[j],
                            addr |-> joiner[j].addr]
           /\ OwnServer(j) = [role |-> ConfiguredRole[j], addr |-> joiner[j].addr]
<1>1. joiner[j].addr \in Addresses
  BY DEF TypeInv, JoinerStates
<1> QED
  BY <1>1 DEF SeedRow, UsesStaticPeers, OwnServer

LEMMA KnownRows ==
    ASSUME TypeInv, NEW m \in KnownNodes
    PROVE  /\ m \in Nodes
           /\ SeedRow(m) \in Rows /\ SeedRow(m) # NoRow /\ Active(SeedRow(m))
           /\ OwnServer(m) \in Servers /\ OwnServer(m) # Absent
           /\ SeedRow(m).addr = OwnServer(m).addr
<1>1. m \in Nodes
  BY DEF KnownNodes
<1>2. CASE m \in Joiners
  BY <1>1, <1>2, JoinersRow DEF Rows, NoRow, Servers, Absent, Active, Roles
<1>3. CASE m \notin Joiners
  <2>1. HomeAddress[m] \in Addresses /\ m \in Founders
    BY <1>3 DEF KnownNodes
  <2>2. ConfiguredRole[m] \in Roles /\ "voter" \in Roles
    BY <1>1 DEF Roles
  <2>3. OwnServer(m) = [role |-> "voter", addr |-> HomeAddress[m]]
    BY <2>1 DEF OwnServer
  <2>4. /\ SeedRow(m) \in Rows /\ SeedRow(m).status = "active"
        /\ SeedRow(m).addr = HomeAddress[m]
    BY <1>3, <2>1, <2>2 DEF SeedRow, Rows
  <2> QED
    BY <1>1, <2>1, <2>2, <2>3, <2>4 DEF Servers, Absent, NoRow, Active
<1> QED
  BY <1>2, <1>3

LEMMA OwnRowsAre ==
    ASSUME TypeInv, NEW m \in KnownNodes, NEW row \in OwnRows(m)
    PROVE  /\ row \in Rows
           /\ Active(row) <=> row = SeedRow(m)
           /\ row = NoRow \/ row = SeedRow(m) \/ (row = Gone(m) /\ m \in Joiners)
           /\ row # NoRow => row.addr = SeedRow(m).addr
<1>1. SeedRow(m) \in Rows /\ Active(SeedRow(m)) /\ SeedRow(m) # NoRow
  BY KnownRows
<1>2. /\ Gone(m) \in Rows /\ ~Active(Gone(m)) /\ Gone(m).addr = SeedRow(m).addr
  BY <1>1 DEF Gone, Rows, NoRow, Active
<1>3. NoRow \in Rows /\ ~Active(NoRow)
  BY DEF Rows, NoRow, Active
<1>4. row = NoRow \/ row = SeedRow(m) \/ (row = Gone(m) /\ m \in Joiners)
  BY DEF OwnRows
<1> QED
  BY <1>1, <1>2, <1>3, <1>4

\* As long as nobody changes its address.
LEMMA NothingElseIsOwned ==
    ASSUME \A j \in Joiners : joiner'[j].addr = joiner[j].addr, NEW m
    PROVE  /\ SeedRow(m)' = SeedRow(m) /\ Gone(m)' = Gone(m)
           /\ OwnRows(m)' = OwnRows(m)
           /\ OwnServer(m)' = OwnServer(m) \/ m \notin KnownNodes
<1>1. SeedRow(m)' = SeedRow(m)
  BY DEF SeedRow, UsesStaticPeers
<1>2. Gone(m)' = Gone(m)
  BY <1>1 DEF Gone
<1>3. OwnRows(m)' = OwnRows(m)
  BY <1>1, <1>2 DEF OwnRows
<1>4. OwnServer(m)' = OwnServer(m) \/ m \notin KnownNodes
  BY DEF OwnServer, KnownNodes
<1> QED
  BY <1>1, <1>2, <1>3, <1>4

LEMMA SeedListIs ==
    ASSUME NEW n \in Nodes
    PROVE  /\ SeedList(n) \in Seq(Nodes) /\ SeedList(n) # <<>>
           /\ n \in KnownNodes =>
                  \A i \in DOMAIN SeedList(n) :
                      SeedList(n)[i] \in Founders \/ SeedList(n)[i] = n
           /\ n \notin Joiners => Peers = <<>> \/ SeedList(n) = Peers
<1>1. CASE UsesStaticPeers(n)
  <2>1. SeedList(n) = Peers /\ Peers # <<>>
    BY <1>1 DEF SeedList, UsesStaticPeers
  <2>2. Peers \in Seq(Nodes) /\ \A i \in DOMAIN Peers : Peers[i] \in Founders
    OBVIOUS
  <2> QED
    BY <2>1, <2>2
<1>2. CASE ~UsesStaticPeers(n)
  <2>1. SeedList(n) = <<n>>
    BY <1>2 DEF SeedList
  <2> QED
    BY <1>2, <2>1 DEF UsesStaticPeers
<1> QED
  BY <1>1, <1>2

\* What is in a list is at its head or in its tail.
LEMMA HeadAndTail ==
    ASSUME NEW list \in Seq(Nodes), list # <<>>
    PROVE  /\ Head(list) \in Nodes /\ Tail(list) \in Seq(Nodes)
           /\ \E i \in DOMAIN list : Head(list) = list[i]
           /\ \A k \in DOMAIN Tail(list) : \E i \in DOMAIN list : Tail(list)[k] = list[i]
           /\ \A i \in DOMAIN list :
                  list[i] = Head(list) \/ \E k \in DOMAIN Tail(list) : list[i] = Tail(list)[k]
<1>1. Len(list) \in Nat /\ Len(list) # 0 /\ DOMAIN list = 1..Len(list)
  OBVIOUS
<1>2. Head(list) = list[1] /\ Head(list) \in Nodes /\ Tail(list) \in Seq(Nodes)
  OBVIOUS
<1>3. DOMAIN Tail(list) = 1..(Len(list) - 1)
      /\ \A k \in 1..(Len(list) - 1) : Tail(list)[k] = list[k + 1]
  OBVIOUS
<1>4. ASSUME NEW i \in DOMAIN list, i # 1
      PROVE  i - 1 \in DOMAIN Tail(list) /\ list[i] = Tail(list)[i - 1]
  BY <1>1, <1>3, <1>4
<1>5. ASSUME NEW k \in DOMAIN Tail(list)  PROVE \E i \in DOMAIN list : Tail(list)[k] = list[i]
  <2>1. k + 1 \in DOMAIN list /\ Tail(list)[k] = list[k + 1]
    BY <1>1, <1>3
  <2> QED
    BY <2>1
<1>6. Head(list) = list[1] /\ 1 \in DOMAIN list
  BY <1>1, <1>2
<1>7. ASSUME NEW i \in DOMAIN list
      PROVE  list[i] = Head(list) \/ \E k \in DOMAIN Tail(list) : list[i] = Tail(list)[k]
  BY <1>4, <1>6
<1> QED
  BY <1>2, <1>5, <1>6, <1>7

-----------------------------------------------------------------------------
(* What keeps each part of the invariant                                   *)

SameAddresses == \A j \in Joiners : joiner'[j].addr = joiner[j].addr

\* Rows are only replaced by rows of the same node, and raft only learns.
RowsMove ==
    /\ \A m \in Nodes :
           \/ directory'[m] = directory[m]
           \/ m \in KnownNodes /\ directory'[m] \in OwnRows(m) \ {NoRow}
    /\ \A n, m \in Nodes : view'[n][m] \in {view[n][m], directory'[m]}
    /\ \A m \in Nodes :
           \/ configuration'[m] = configuration[m]
           \/ m \in KnownNodes /\ configuration'[m] = OwnServer(m)
    /\ \A m \in Nodes :
           isLeader'[m] \/ raftLeader' = m =>
               isLeader[m] \/ raftLeader = m \/ configuration'[m] # Absent

LEMMA RowsKept ==
    ASSUME IInv, SameAddresses, RowsMove
    PROVE  /\ \A m \in Nodes : RowsOf(m)'
           /\ \A m \in Nodes : configuration[m] # Absent => configuration'[m] # Absent
           /\ \A m \in Nodes : directory[m] # NoRow => directory'[m] # NoRow
<1>1. ASSUME NEW m \in Nodes
      PROVE  /\ RowsOf(m)'
             /\ configuration[m] # Absent => configuration'[m] # Absent
             /\ directory[m] # NoRow => directory'[m] # NoRow
  <2>1. RowsOf(m) /\ TypeInv
    BY DEF IInv
  <2>2. configuration[m] # Absent => configuration'[m] # Absent
    BY <2>1, KnownRows DEF RowsMove
  <2>3. directory[m] # NoRow => directory'[m] # NoRow
    BY DEF RowsMove
  <2>4. ASSUME m \in KnownNodes
        PROVE  /\ directory'[m] \in OwnRows(m)'
               /\ \A n \in Nodes : view'[n][m] \in OwnRows(m)'
               /\ configuration'[m] \in {Absent, OwnServer(m)'}
    <3>1. OwnRows(m)' = OwnRows(m) /\ OwnServer(m)' = OwnServer(m)
      BY <2>4, NothingElseIsOwned DEF SameAddresses
    <3>2. directory'[m] \in OwnRows(m) /\ configuration'[m] \in {Absent, OwnServer(m)}
      BY <2>1, <2>4 DEF RowsMove, RowsOf
    <3>3. \A n \in Nodes : view'[n][m] \in OwnRows(m)
      BY <2>1, <2>4, <3>2 DEF RowsMove, RowsOf
    <3> QED
      BY <3>1, <3>2, <3>3
  <2>5. m \notin KnownNodes => directory'[m] = NoRow /\ configuration'[m] = Absent
    BY <2>1 DEF RowsMove, RowsOf
  <2>6. isLeader'[m] \/ raftLeader' = m => configuration'[m] # Absent
    BY <2>1, <2>2 DEF RowsMove, RowsOf
  <2>7. \A n \in Nodes : view'[n][m] # NoRow => directory'[m] # NoRow
    BY <2>1, <2>3 DEF RowsMove, RowsOf
  <2>8. m \in Founders => configuration'[m] # Absent
    BY <2>1, <2>2 DEF RowsOf
  <2>9. RowsOf(m)'
    BY <2>4, <2>5, <2>6, <2>7, <2>8 DEF RowsOf
  <2> QED
    BY <2>2, <2>3, <2>9
<1> QED
  BY <1>1

In(m, list) == \E k \in DOMAIN list : list[k] = m

\* Seedings begin with nodes that raft knows, and drop nobody who has no row.
SeedingsMove ==
    /\ \A s \in Seeders : \A m \in Nodes :
           In(m, seeding'[s]) =>
               In(m, seeding[s]) \/ (m \in KnownNodes /\ configuration'[m] # Absent)
    /\ cut => cut'
    /\ ~cut' => \A s \in Seeders : \A m \in Nodes :
           In(m, seeding[s]) => directory'[m] # NoRow \/ \E t \in Seeders : In(m, seeding'[t])
    /\ directory = EmptyDirectory /\ directory' # EmptyDirectory =>
           \E s \in Seeders : seeding[s] # <<>>
    /\ directory' = EmptyDirectory =>
           /\ UNCHANGED configuration
           /\ \A r \in Requests : ~Working(r)'
           /\ \A s \in Seeders :
                  seeding'[s] \in {seeding[s], <<>>, Peers} \/ Peers = <<>>

LEMMA SeedingsKept ==
    ASSUME IInv, TypeInv', RowsMove, SeedingsMove,
           \A m \in Nodes : configuration[m] # Absent => configuration'[m] # Absent,
           \A m \in Nodes : directory[m] # NoRow => directory'[m] # NoRow
    PROVE  SeedInv' /\ \A s \in Seeders : SeedingOf(s)'
<1>1. ASSUME NEW s \in Seeders  PROVE SeedingOf(s)'
  <2> SUFFICES ASSUME NEW i \in DOMAIN seeding'[s]
               PROVE  seeding'[s][i] \in KnownNodes /\ configuration'[seeding'[s][i]] # Absent
    BY DEF SeedingOf
  <2>1. seeding'[s] \in Seq(Nodes)
    BY DEF TypeInv
  <2>2. PICK m \in Nodes : m = seeding'[s][i]
    BY <2>1
  <2>3. In(m, seeding'[s])
    BY <2>2 DEF In
  <2>4. In(m, seeding[s]) => m \in KnownNodes /\ configuration[m] # Absent
    BY DEF In, IInv, SeedingOf
  <2> QED
    BY <2>2, <2>3, <2>4 DEF SeedingsMove
<1>2. directory # EmptyDirectory => directory' # EmptyDirectory
  <2> SUFFICES ASSUME directory # EmptyDirectory  PROVE directory' # EmptyDirectory
    OBVIOUS
  <2>1. PICK m \in Nodes : directory[m] # NoRow
    BY DEF IInv, TypeInv, EmptyDirectory
  <2> QED
    BY <2>1 DEF EmptyDirectory
<1>3. ASSUME directory' = EmptyDirectory
      PROVE  /\ \A j \in Joiners : configuration'[j] = Absent
             /\ \A r \in Requests : ~Working(r)'
             /\ \A s \in Seeders :
                    seeding'[s] = <<>> \/ Peers = <<>> \/ seeding'[s] = Peers
  BY <1>2, <1>3 DEF SeedingsMove, IInv, SeedInv
<1>4. ASSUME ~cut', directory' # EmptyDirectory, NEW i \in DOMAIN Peers
      PROVE  \/ directory'[Peers[i]] # NoRow
             \/ \E s \in Seeders : \E k \in DOMAIN seeding'[s] : seeding'[s][k] = Peers[i]
  <2>1. Peers # <<>> /\ ~cut
    BY <1>4 DEF SeedingsMove
  <2>2. PICK m \in Nodes : m = Peers[i]
    BY <1>4
  <2>3. directory[m] # NoRow \/ \E s \in Seeders : In(m, seeding[s])
    <3>1. CASE directory # EmptyDirectory
      BY <1>4, <2>1, <2>2, <3>1 DEF IInv, SeedInv, In
    <3>2. CASE directory = EmptyDirectory
      <4>1. PICK s \in Seeders : seeding[s] # <<>>
        BY <1>4, <3>2 DEF SeedingsMove
      <4>2. seeding[s] = Peers
        BY <2>1, <3>2, <4>1 DEF IInv, SeedInv
      <4> QED
        BY <1>4, <2>2, <4>2 DEF In
    <3> QED
      BY <3>1, <3>2
  <2>4. directory'[m] # NoRow \/ \E s \in Seeders : In(m, seeding'[s])
    BY <1>4, <2>3 DEF SeedingsMove
  <2> QED
    BY <2>2, <2>4 DEF In
<1>5. SeedInv'
  BY <1>3, <1>4 DEF SeedInv, EmptyDirectory
<1> QED
  BY <1>1, <1>5

\* A step in which the handlers of W take part, and the others do not.
LEMMA JoinsKept ==
    ASSUME IInv, SameAddresses, NEW W \in SUBSET Requests,
           \A q \in Requests \ W : request'[q] = request[q],
           \A q \in Requests \ W :
               Working(q) /\ request[q].member \in raced => request[q].member \in raced',
           \A j \in Joiners :
               j \notin raced' /\ (\A w \in W : Working(w) => request[w].member # j) =>
                   /\ configuration'[j] = configuration[j]
                   /\ directory'[j] \in {directory[j], SeedRow(j)}
                   /\ j \notin torn' =>
                          j \notin torn /\ j \notin raced /\ directory'[j] = directory[j],
           \A w \in W : HandlerOf(w)',
           \A w \in W, q \in Requests :
               w # q /\ Working(w)' /\ Working(q)' /\ request'[w].member = request'[q].member =>
                   request'[w].member \in raced',
           \A w \in W : \A j \in Joiners :
               j \notin torn' /\ j \notin raced' /\ Working(w) /\ request[w].member = j =>
                   RestOf(j)'
    PROVE  JoinInv'
<1>2. ASSUME NEW q \in Requests  PROVE HandlerOf(q)'
  <2>1. CASE q \in W
    BY <2>1
  <2>2. CASE q \notin W
    <3>1. request'[q] = request[q]
      BY <2>2
    <3>2. PICK m : m = request[q].member
      OBVIOUS
    <3> SUFFICES ASSUME Working(q), m \notin raced'  PROVE HandlerOf(q)'
      BY <3>1, <3>2 DEF HandlerOf, Working
    <3>3. m \in Joiners /\ m \notin raced
      <4>1. request[q] \in JoinHandlers
        BY DEF IInv, TypeInv, Working, NoRequest
      <4> QED
        BY <2>2, <3>2, <4>1 DEF JoinHandlers
    <3>4. \A w \in W : Working(w) => request[w].member # m
      BY <2>2, <3>2, <3>3 DEF IInv, JoinInv, OneWorker
    <3>5. /\ configuration'[m] = configuration[m]
          /\ directory'[m] \in {directory[m], SeedRow(m)}
          /\ m \notin torn' => m \notin torn /\ directory'[m] = directory[m]
      BY <3>3, <3>4
    <3>6. SeedRow(m)' = SeedRow(m)
      BY NothingElseIsOwned DEF SameAddresses
    <3>7. HandlerOf(q)
      BY DEF IInv, JoinInv
    <3> HIDE DEF SameAddresses
    <3> QED
      BY <3>1, <3>2, <3>3, <3>5, <3>6, <3>7 DEF HandlerOf, Working
  <2> QED
    BY <2>1, <2>2
<1>3. OneWorker'
  <2> SUFFICES ASSUME NEW q \in Requests, NEW r \in Requests, Working(q)', Working(r)', q # r,
                      request'[q].member = request'[r].member
               PROVE  request'[r].member \in raced'
    BY DEF OneWorker
  <2>1. CASE q \in W \/ r \in W
    BY <2>1
  <2>2. CASE q \notin W /\ r \notin W
    BY <2>2 DEF IInv, JoinInv, OneWorker, Working
  <2> QED
    BY <2>1, <2>2
<1>4. ASSUME NEW j \in Joiners \ Disturbed'  PROVE RestOf(j)'
  <2>1. CASE \E w \in W : Working(w) /\ request[w].member = j
    BY <1>4, <2>1 DEF Disturbed
  <2>2. CASE \A w \in W : Working(w) => request[w].member # j
    <3>1. /\ directory'[j] = directory[j] /\ configuration'[j] = configuration[j]
          /\ j \notin Disturbed
      BY <1>4, <2>2 DEF Disturbed
    <3>2. RestOf(j)
      BY <1>4, <3>1 DEF IInv, JoinInv
    <3>3. SeedRow(j)' = SeedRow(j)
      BY NothingElseIsOwned DEF SameAddresses
    <3>4. (\A r \in Requests : Working(r)' => request'[r].member # j) =>
              (\A r \in Requests : Working(r) => request[r].member # j)
      BY <2>2 DEF Working
    <3> QED
      BY <3>1, <3>2, <3>3, <3>4 DEF RestOf
  <2> QED
    BY <2>1, <2>2
<1> QED
  BY <1>2, <1>3, <1>4 DEF JoinInv

\* A request that is left alone.
LEMMA RequestKept ==
    ASSUME IInv, SameAddresses, NEW q \in Requests, request'[q] = request[q],
           seeding'[q] = seeding[q]
    PROVE  RequestOf(q)'
<1>1. RequestOf(q)
  BY DEF IInv
<1>2. UnderWay(q)' <=> UnderWay(q)
  BY DEF UnderWay
<1>3. PICK m : m = request[q].member
  OBVIOUS
<1>4. SeedRow(m)' = SeedRow(m) /\ OwnRows(m)' = OwnRows(m)
  BY NothingElseIsOwned DEF SameAddresses
<1> QED
  BY <1>1, <1>2, <1>3, <1>4 DEF RequestOf

\* A joiner that goes on waiting, for a handler that goes on.
LEMMA JoinersKept ==
    ASSUME IInv,
           \A m \in Nodes : configuration[m] # Absent => configuration'[m] # Absent,
           \A j \in Joiners :
               \/ joiner'[j].pc \notin {"waiting", "joined"}
               \/ joiner'[j].pc = "joined" /\
                      (joiner[j].pc = "joined" \/ configuration'[j] # Absent)
               \/ /\ joiner'[j].pc = "waiting" /\ joiner[j].pc = "waiting"
                  /\ joiner'[j].request = joiner[j].request
                  /\ request'[joiner[j].request].pc # "idle"
                  /\ request'[joiner[j].request].member = request[joiner[j].request].member
    PROVE  \A j \in Joiners : JoinerOf(j)'
<1> SUFFICES ASSUME NEW j \in Joiners  PROVE JoinerOf(j)'
  OBVIOUS
<1>1. JoinerOf(j) /\ j \in Nodes
  BY DEF IInv
<1>2. CASE joiner'[j].pc \notin {"waiting", "joined"}
  BY <1>2 DEF JoinerOf
<1>3. CASE joiner'[j].pc = "joined"
  BY <1>1, <1>3 DEF JoinerOf
<1>4. CASE joiner'[j].pc = "waiting"
  BY <1>1, <1>4 DEF JoinerOf
<1> QED
  BY <1>2, <1>3, <1>4

LEMMA AddressesKept ==
    ASSUME IInv, UNCHANGED configuration \/ Valid(configuration')
    PROVE  AddressInv'
BY DEF IInv, AddressInv, Valid

\* The client that waits for r is told, and nobody else.
LEMMA Told ==
    ASSUME TypeInv, NEW r \in Requests, NEW outcome \in Outcomes, Tell(r, outcome)
    PROVE  /\ joiner' \in [Joiners -> JoinerStates] /\ SameAddresses
           /\ \A j \in Joiners :
                  \/ joiner'[j] = joiner[j] /\ ~(joiner[j].request = r /\ request'[r] = NoRequest)
                  \/ /\ joiner[j].pc = "waiting" /\ joiner[j].request = r
                     /\ request'[r] = NoRequest /\ joiner'[j].pc = outcome
<1>1. ASSUME NEW j \in Joiners
      PROVE  /\ joiner'[j] \in JoinerStates /\ joiner'[j].addr = joiner[j].addr
             /\ \/ joiner'[j] = joiner[j] /\ ~(joiner[j].request = r /\ request'[r] = NoRequest)
                \/ /\ joiner[j].pc = "waiting" /\ joiner[j].request = r
                   /\ request'[r] = NoRequest /\ joiner'[j].pc = outcome
  <2>1. joiner[j] \in JoinerStates
    BY DEF TypeInv
  <2>2. CASE joiner[j].request = r /\ request'[r] = NoRequest
    <3>1. joiner'[j] = [joiner[j] EXCEPT !.pc = outcome, !.request = None]
      BY <2>2 DEF Tell
    <3>2. joiner[j] \in [pc : {"waiting"}, request : Requests, addr : JoinAddresses,
                         hasState : BOOLEAN]
      BY <2>1, <2>2 DEF JoinerStates
    <3>3. joiner'[j] \in [pc : {outcome}, request : {None}, addr : {joiner[j].addr},
                          hasState : BOOLEAN]
      BY <3>1, <3>2
    <3>4. joiner[j].addr \in JoinAddresses /\ joiner[j].pc = "waiting"
      BY <3>2
    <3> QED
      BY <2>2, <3>3, <3>4 DEF JoinerStates
  <2>3. CASE ~(joiner[j].request = r /\ request'[r] = NoRequest)
    BY <2>1, <2>3 DEF Tell
  <2> QED
    BY <2>2, <2>3
<1> QED
  BY <1>1 DEF Tell, SameAddresses

\* The invariant, when nothing is written and nobody is elected.
LEMMA QuietKeeps ==
    ASSUME IInv, TypeInv', SameAddresses,
           UNCHANGED <<leadershipVars, directory, configuration, view>>,
           SeedingsMove, JoinInv',
           \A r \in Requests : RequestOf(r)',
           \A j \in Joiners : JoinerOf(j)'
    PROVE  IInv'
<1>1. RowsMove
  BY DEF RowsMove, leadershipVars
<1>2. AddressInv'
  BY AddressesKept
<1> QED
  BY <1>1, <1>2, RowsKept, SeedingsKept DEF IInv

-----------------------------------------------------------------------------
(* The client                                                              *)

LEMMA JoinerChanges ==
    ASSUME TypeInv, NEW j \in Joiners, NEW s \in JoinerStates, s.addr = joiner[j].addr,
           joiner' = [joiner EXCEPT ![j] = s]
    PROVE  /\ joiner' \in [Joiners -> JoinerStates] /\ SameAddresses
           /\ joiner'[j] = s /\ \A i \in Joiners : i # j => joiner'[i] = joiner[i]
BY DEF TypeInv, SameAddresses

\* The client alone moves, and neither waits nor is it told that it has joined.
LEMMA ClientKeeps ==
    ASSUME IInv, NEW j \in Joiners, NEW s \in JoinerStates, s.addr = joiner[j].addr,
           joiner' = [joiner EXCEPT ![j] = s],
           s.pc \notin {"waiting", "joined"} \/
               (s.pc = joiner[j].pc /\ s.request = joiner[j].request),
           UNCHANGED <<vars, seeding, verdict, cut>>
    PROVE  IInv'
<1>1. /\ UNCHANGED <<leadershipVars, directory, configuration, view, request, torn, raced>>
      /\ UNCHANGED leadershipVars
  BY DEF vars, leadershipVars
<1>2. TypeInv /\ joiner' \in [Joiners -> JoinerStates] /\ SameAddresses
      /\ joiner'[j] = s /\ \A i \in Joiners : i # j => joiner'[i] = joiner[i]
  BY JoinerChanges DEF IInv
<1>3. TypeInv'
  BY <1>1, <1>2, LeadershipStays DEF TypeInv
<1>4. SeedingsMove
  <2>1. directory = EmptyDirectory => \A r \in Requests : ~Working(r)'
    BY <1>1 DEF IInv, SeedInv, Working
  <2> QED
    BY <1>1, <2>1 DEF SeedingsMove, EmptyDirectory, IInv
<1>5. JoinInv'
  <2>1. PICK none \in SUBSET Requests : none = {}
    OBVIOUS
  <2> QED
    BY <1>1, <1>2, <2>1, JoinsKept
<1>6. \A r \in Requests : RequestOf(r)'
  BY <1>1, <1>2, RequestKept
<1>7. \A i \in Joiners : JoinerOf(i)'
  BY <1>1, <1>2 DEF IInv, JoinerOf
<1> QED
  BY <1>1, <1>2, <1>3, <1>4, <1>5, <1>6, <1>7, QuietKeeps

LEMMA ClientInv ==
    ASSUME IInv, NEW j \in Joiners,
           TimeOut(j) \/ StoreRaftState(j) \/ Die(j) \/ Start(j)
    PROVE  IInv'
<1>1. joiner[j] \in JoinerStates /\ joiner \in [Joiners -> JoinerStates]
  BY DEF IInv, TypeInv
<1>2. \/ joiner[j] \in [pc : Outcomes \cup {"running"}, request : {None},
                        addr : JoinAddresses, hasState : BOOLEAN]
      \/ joiner[j] \in [pc : {"waiting"}, request : Requests, addr : JoinAddresses,
                        hasState : BOOLEAN]
  BY <1>1 DEF JoinerStates
<1>3. CASE TimeOut(j)
  <2> DEFINE s == [joiner[j] EXCEPT !.pc = "asking", !.request = None]
  <2>1. s \in JoinerStates /\ s.addr = joiner[j].addr /\ s.pc = "asking"
    BY <1>2 DEF JoinerStates, Outcomes
  <2>2. joiner' = [joiner EXCEPT ![j] = s] /\ UNCHANGED <<vars, seeding, verdict, cut>>
    BY <1>1, <1>3 DEF TimeOut
  <2> HIDE DEF s
  <2> QED
    BY <2>1, <2>2, ClientKeeps
<1>4. CASE StoreRaftState(j)
  <2> DEFINE s == [joiner[j] EXCEPT !.hasState = TRUE]
  <2>1. s \in JoinerStates /\ s.addr = joiner[j].addr /\ s.pc = joiner[j].pc
        /\ s.request = joiner[j].request
    BY <1>2 DEF JoinerStates
  <2>2. joiner' = [joiner EXCEPT ![j] = s] /\ UNCHANGED <<vars, seeding, verdict, cut>>
    BY <1>1, <1>4 DEF StoreRaftState
  <2> HIDE DEF s
  <2> QED
    BY <2>1, <2>2, ClientKeeps
<1>5. CASE Die(j)
  <2> DEFINE s == [joiner[j] EXCEPT !.pc = "stopped", !.request = None]
  <2>1. s \in JoinerStates /\ s.addr = joiner[j].addr /\ s.pc = "stopped"
    BY <1>2 DEF JoinerStates, Outcomes
  <2>2. joiner' = [joiner EXCEPT ![j] = s] /\ UNCHANGED <<vars, seeding, verdict, cut>>
    BY <1>1, <1>5 DEF Die
  <2> HIDE DEF s
  <2> QED
    BY <2>1, <2>2, ClientKeeps
<1>6. CASE Start(j)
  <2> DEFINE s == [joiner[j] EXCEPT !.pc = IF joiner[j].hasState THEN "running"
                                                                ELSE "asking"]
  <2>1. joiner[j].pc = "stopped"
    BY <1>6 DEF Start
  <2>2. s \in JoinerStates /\ s.addr = joiner[j].addr /\ s.pc \in {"running", "asking"}
    BY <1>2, <2>1 DEF JoinerStates, Outcomes
  <2>3. joiner' = [joiner EXCEPT ![j] = s] /\ UNCHANGED <<vars, seeding, verdict, cut>>
    BY <1>1, <1>6 DEF Start
  <2> HIDE DEF s
  <2> QED
    BY <2>2, <2>3, ClientKeeps
<1> QED
  BY <1>3, <1>4, <1>5, <1>6

-----------------------------------------------------------------------------
(* Requests that arrive, and seedings that begin                           *)

LEMMA RequestChanges ==
    ASSUME TypeInv, NEW r \in Requests, NEW h \in JoinHandlers \cup {NoRequest},
           request' = [request EXCEPT ![r] = h]
    PROVE  /\ request' \in [Requests -> JoinHandlers \cup {NoRequest}]
           /\ request'[r] = h
           /\ \A q \in Requests : q # r => request'[q] = request[q]
BY DEF TypeInv

\* Who leads is in raft, and raft has known nodes only.
LEMMA LeadersAreKnown ==
    ASSUME IInv, NEW n \in Nodes, isLeader[n] \/ raftLeader = n
    PROVE  n \in KnownNodes /\ configuration[n] # Absent
BY DEF IInv, RowsOf

LEMMA SeedingBegins ==
    ASSUME IInv, NEW n \in Nodes, isLeader[n], NEW s \in Seeders, seeding[s] = <<>>,
           UNCHANGED <<directory, configuration, cut>>,
           seeding' = [seeding EXCEPT ![s] = SeedList(n)],
           \A r \in Requests : Working(r)' => Working(r)
    PROVE  /\ SeedingsMove
           /\ seeding' \in [Seeders -> Seq(Nodes)]
           /\ seeding'[s] # <<>> /\ \A t \in Seeders : t # s => seeding'[t] = seeding[t]
<1>1. seeding \in [Seeders -> Seq(Nodes)]
  BY DEF IInv, TypeInv
<1>2. seeding' \in [Seeders -> Seq(Nodes)] /\ seeding'[s] = SeedList(n)
      /\ \A t \in Seeders : t # s => seeding'[t] = seeding[t]
  BY <1>1, SeedListIs
<1>3. n \in KnownNodes /\ configuration[n] # Absent
  BY LeadersAreKnown
<1>4. ASSUME NEW m \in Nodes, In(m, SeedList(n))
      PROVE  m \in KnownNodes /\ configuration'[m] # Absent
  <2>1. m \in Founders \/ m = n
    BY <1>3, <1>4, SeedListIs DEF In
  <2> QED
    BY <1>3, <2>1 DEF IInv, RowsOf, KnownNodes
<1>5. \A t \in Seeders : \A m \in Nodes :
          In(m, seeding'[t]) =>
              In(m, seeding[t]) \/ (m \in KnownNodes /\ configuration'[m] # Absent)
  BY <1>2, <1>4
<1>6. \A t \in Seeders : \A m \in Nodes :
          In(m, seeding[t]) => \E u \in Seeders : In(m, seeding'[u])
  BY <1>2 DEF In
<1>7. ASSUME directory = EmptyDirectory
      PROVE  /\ \A r \in Requests : ~Working(r)'
             /\ \A t \in Seeders : seeding'[t] \in {seeding[t], <<>>, Peers} \/ Peers = <<>>
  <2>1. n \notin Joiners
    BY <1>3, <1>7 DEF IInv, SeedInv
  <2> QED
    BY <1>2, <1>7, <2>1, SeedListIs DEF IInv, SeedInv
<1>8. SeedingsMove
  BY <1>5, <1>6, <1>7 DEF SeedingsMove, EmptyDirectory
<1> QED
  BY <1>2, <1>8, SeedListIs

LEMMA BeginSeedingInv ==
    ASSUME IInv, NEW n \in Nodes, BeginSeeding(n)
    PROVE  IInv'
<1>1. UNCHANGED <<leadershipVars, directory, configuration, view, request, torn, raced,
                  joiner, verdict, cut>>
      /\ UNCHANGED leadershipVars
  BY DEF BeginSeeding, vars, leadershipVars
<1>2. n \in Seeders /\ SameAddresses
  BY <1>1 DEF Seeders, SameAddresses
<1>3. /\ SeedingsMove
      /\ seeding' \in [Seeders -> Seq(Nodes)]
      /\ \A t \in Seeders : t # n => seeding'[t] = seeding[t]
  BY <1>1, <1>2, SeedingBegins DEF BeginSeeding, Working
<1>4. TypeInv'
  BY <1>1, <1>3, LeadershipStays DEF IInv, TypeInv
<1>5. \A r \in Requests : RequestOf(r)'
  BY <1>1, <1>2, <1>3, RequestKept DEF Seeders
<1>6. JoinInv'
  <2>1. PICK none \in SUBSET Requests : none = {}
    OBVIOUS
  <2> QED
    BY <1>1, <1>2, <2>1, JoinsKept
<1>7. \A i \in Joiners : JoinerOf(i)'
  BY <1>1 DEF IInv, JoinerOf
<1> QED
  BY <1>1, <1>2, <1>3, <1>4, <1>5, <1>6, <1>7, QuietKeeps

\* A request that no handler works on, before or after.
LEMMA ArrivalKeeps ==
    ASSUME IInv, SameAddresses, joiner' \in [Joiners -> JoinerStates],
           UNCHANGED <<leadershipVars, directory, configuration, view, torn, raced, verdict, cut>>,
           NEW r \in Requests, NEW h \in JoinHandlers \cup {NoRequest},
           request' = [request EXCEPT ![r] = h],
           ~Working(r), h.pc \notin {"write", "decide", "call", "rollback"},
           seeding' \in [Seeders -> Seq(Nodes)],
           \A t \in Seeders : t # r => seeding'[t] = seeding[t],
           SeedingsMove, RequestOf(r)', \A j \in Joiners : JoinerOf(j)'
    PROVE  IInv'
<1>1. /\ request' \in [Requests -> JoinHandlers \cup {NoRequest}]
      /\ request'[r] = h
      /\ \A q \in Requests : q # r => request'[q] = request[q]
  BY RequestChanges DEF IInv
<1>2. TypeInv'
  BY <1>1, LeadershipStays DEF IInv, TypeInv
<1>3. \A q \in Requests : RequestOf(q)'
  BY <1>1, RequestKept DEF Seeders
<1>4. JoinInv'
  <2>1. PICK W \in SUBSET Requests : W = {r}
    OBVIOUS
  <2>2. ~Working(r)' /\ HandlerOf(r)'
    BY <1>1 DEF Working, HandlerOf
  <2>3. \A w \in W : HandlerOf(w)' /\ ~Working(w) /\ ~Working(w)'
    BY <2>1, <2>2
  <2>4. \A q \in Requests \ W : request'[q] = request[q]
    BY <1>1, <2>1
  <2> QED
    BY <2>3, <2>4, JoinsKept
<1> QED
  BY <1>2, <1>3, <1>4, QuietKeeps

\* Seedings go on as they are.
LEMMA SeedingsUndisturbed ==
    ASSUME IInv, UNCHANGED <<directory, configuration, seeding, cut>>,
           directory = EmptyDirectory => \A r \in Requests : ~Working(r)'
    PROVE  SeedingsMove /\ seeding' \in [Seeders -> Seq(Nodes)]
BY DEF SeedingsMove, EmptyDirectory, IInv, TypeInv

\* The client that waits for a handler that has moved on, or is answered.
LEMMA JoinersFollow ==
    ASSUME IInv, NEW r \in Requests, request[r].pc # "idle",
           NEW outcome \in Outcomes, Tell(r, outcome),
           \A q \in Requests : q # r => request'[q] = request[q],
           \/ request'[r] = NoRequest
           \/ request'[r].pc # "idle" /\ request'[r].member = request[r].member,
           request'[r] = NoRequest /\ outcome = "joined" =>
               configuration'[request[r].member] # Absent,
           \A m \in Nodes : configuration[m] # Absent => configuration'[m] # Absent
    PROVE  \A j \in Joiners : JoinerOf(j)'
<1>1. TypeInv
  BY DEF IInv
<1>2. ASSUME NEW j \in Joiners
      PROVE  \/ joiner'[j].pc \notin {"waiting", "joined"}
             \/ joiner'[j].pc = "joined" /\
                    (joiner[j].pc = "joined" \/ configuration'[j] # Absent)
             \/ /\ joiner'[j].pc = "waiting" /\ joiner[j].pc = "waiting"
                /\ joiner'[j].request = joiner[j].request
                /\ request'[joiner[j].request].pc # "idle"
                /\ request'[joiner[j].request].member = request[joiner[j].request].member
  <2>1. CASE /\ joiner[j].pc = "waiting" /\ joiner[j].request = r
             /\ request'[r] = NoRequest /\ joiner'[j].pc = outcome
    <3>1. request[r].member = j
      BY <2>1 DEF IInv, JoinerOf
    <3> QED
      BY <2>1, <3>1 DEF Outcomes
  <2>2. CASE joiner'[j] = joiner[j] /\ ~(joiner[j].request = r /\ request'[r] = NoRequest)
    <3>1. joiner[j].pc = "waiting" =>
              /\ joiner[j].request \in Requests
              /\ request[joiner[j].request].pc # "idle"
      BY <1>1 DEF TypeInv, JoinerStates, IInv, JoinerOf, Outcomes
    <3> QED
      BY <2>2, <3>1
  <2> QED
    BY <1>1, <2>1, <2>2, Told
<1> QED
  BY <1>2, JoinersKept

LEMMA AskInv ==
    ASSUME IInv, NEW j \in Joiners, NEW r \in Requests, Ask(j, r)
    PROVE  IInv'
<1>1. TypeInv /\ joiner \in [Joiners -> JoinerStates] /\ joiner[j].pc = "asking"
  BY DEF IInv, TypeInv, Ask
<1>2. joiner[j] \in [pc : Outcomes \cup {"running"}, request : {None},
                     addr : JoinAddresses, hasState : BOOLEAN]
  BY <1>1 DEF JoinerStates
<1> DEFINE s == [joiner[j] EXCEPT !.pc = "waiting", !.request = r]
           h == [NoRequest EXCEPT !.pc = "arrive", !.op = "join", !.member = j,
                                  !.row = SeedRow(j)]
<1>3. s \in JoinerStates /\ s.addr = joiner[j].addr /\ s.pc = "waiting" /\ s.request = r
  BY <1>2 DEF JoinerStates
<1>4. joiner' = [joiner EXCEPT ![j] = s]
  BY <1>1 DEF Ask
<1>5. /\ joiner' \in [Joiners -> JoinerStates] /\ SameAddresses
      /\ joiner'[j] = s /\ \A i \in Joiners : i # j => joiner'[i] = joiner[i]
  <2> HIDE DEF s
  <2> QED
    BY <1>1, <1>3, <1>4, JoinerChanges
<1>6. h \in [pc : {"arrive"}, op : {"join"}, member : {j}, row : {SeedRow(j)},
             previous : {NoRow}, call : {"none"}, at : {None}]
  BY DEF NoRequest
<1>7. h \in JoinHandlers
  <2>1. SeedRow(j) \in [status : {"active"}, role : Roles, addr : Addresses]
    BY <1>1, JoinersRow
  <2>2. NoRow \in Rows
    BY DEF Rows
  <2> HIDE DEF h
  <2> QED
    BY <1>6, <2>1, <2>2 DEF JoinHandlers
<1>8. request' = [request EXCEPT ![r] = h]
  BY DEF Ask
<1>9. request'[r] = h /\ \A q \in Requests : q # r => request'[q] = request[q]
  <2> HIDE DEF h
  <2> QED
    BY <1>1, <1>7, <1>8, RequestChanges
<1>10. h.pc = "arrive" /\ h.member = j /\ h.row = SeedRow(j) /\ h.previous = NoRow
  BY <1>6
<1> HIDE DEF s, h
<1>11. ~Working(r) /\ request[r].pc = "idle"
  BY DEF Ask, At, Working
<1>12. UNCHANGED <<leadershipVars, directory, configuration, view, torn, raced, verdict, cut>>
       /\ seeding' = seeding
  BY DEF Ask
<1>13. SeedingsMove /\ seeding' \in [Seeders -> Seq(Nodes)]
  <2>1. directory = EmptyDirectory => \A q \in Requests : ~Working(q)'
    BY <1>9, <1>10 DEF IInv, SeedInv, Working
  <2> QED
    BY <1>12, <2>1, SeedingsUndisturbed
<1>14. RequestOf(r)'
  <2>1. SeedRow(j)' = SeedRow(j) /\ NoRow \in OwnRows(j)'
    BY <1>5, NothingElseIsOwned DEF SameAddresses, OwnRows
  <2>2. seeding[r] = <<>>
    BY <1>11 DEF IInv, RequestOf
  <2>3. request'[r].pc = "arrive" /\ ~UnderWay(r)'
    BY <1>9, <1>10 DEF UnderWay
  <2> QED
    BY <1>9, <1>10, <1>12, <2>1, <2>2, <2>3 DEF RequestOf
<1>15. \A i \in Joiners : JoinerOf(i)'
  <2> SUFFICES ASSUME NEW i \in Joiners  PROVE JoinerOf(i)'
    OBVIOUS
  <2>1. CASE i = j
    BY <1>3, <1>5, <1>9, <1>10, <2>1 DEF JoinerOf
  <2>2. CASE i # j
    <3>1. joiner'[i] = joiner[i] /\ JoinerOf(i)
      BY <1>5, <2>2 DEF IInv
    <3>2. joiner[i].pc = "waiting" =>
              joiner[i].request \in Requests /\ joiner[i].request # r
      BY <1>1, <1>11, <3>1 DEF JoinerStates, JoinerOf, Outcomes
    <3> QED
      BY <1>9, <1>12, <3>1, <3>2 DEF JoinerOf
  <2> QED
    BY <2>1, <2>2
<1> QED
  BY <1>5, <1>7, <1>8, <1>10, <1>11, <1>12, <1>13, <1>14, <1>15, ArrivalKeeps

LEMMA NotHandledInv ==
    ASSUME IInv, NEW r \in Requests, NotHandled(r)
    PROVE  IInv'
<1>1. TypeInv /\ request[r].pc = "arrive"
  BY DEF IInv, NotHandled, Unavailable, At
<1>2. UNCHANGED <<leadershipVars, directory, configuration, view, torn, raced, verdict, cut>>
      /\ seeding' = seeding
  BY DEF NotHandled, Unavailable
<1>3. request' = [request EXCEPT ![r] = NoRequest]
  BY DEF NotHandled, Unavailable, Answer
<1>4. PICK outcome \in Outcomes : Tell(r, outcome)
  BY DEF NotHandled, Outcomes
<1>5. joiner' \in [Joiners -> JoinerStates] /\ SameAddresses
  BY <1>1, <1>4, Told
<1>6. PICK h \in JoinHandlers \cup {NoRequest} : h = NoRequest
  OBVIOUS
<1>7. request'[r] = NoRequest /\ \A q \in Requests : q # r => request'[q] = request[q]
  BY <1>1, <1>3, <1>6, RequestChanges
<1>8. ~Working(r) /\ NoRequest.pc = "idle"
  BY <1>1 DEF Working, NoRequest
<1>9. SeedingsMove /\ seeding' \in [Seeders -> Seq(Nodes)]
  <2>1. directory = EmptyDirectory => \A q \in Requests : ~Working(q)'
    BY <1>7, <1>8 DEF IInv, SeedInv, Working
  <2> QED
    BY <1>2, <2>1, SeedingsUndisturbed
<1>10. RequestOf(r)'
  <2>1. seeding[r] = <<>>
    BY <1>1 DEF IInv, RequestOf
  <2>2. request'[r].pc = "idle" /\ ~UnderWay(r)'
    BY <1>7, <1>8 DEF UnderWay
  <2> QED
    BY <1>2, <2>1, <2>2 DEF RequestOf
<1>11. \A i \in Joiners : JoinerOf(i)'
  <2>1. PICK o \in {"asking", "stopped"} : Tell(r, o)
    BY DEF NotHandled
  <2>2. o \in Outcomes /\ o # "joined"
    BY DEF Outcomes
  <2> QED
    BY <1>1, <1>2, <1>7, <2>1, <2>2, JoinersFollow
<1> QED
  BY <1>2, <1>3, <1>5, <1>6, <1>8, <1>9, <1>10, <1>11, ArrivalKeeps

LEMMA BeginSeedingFirstInv ==
    ASSUME IInv, NEW r \in Requests, NEW n \in Nodes, BeginSeedingFirst(r, n)
    PROVE  IInv'
<1>1. TypeInv /\ request[r].pc = "arrive" /\ isLeader[n]
  BY DEF IInv, BeginSeedingFirst, At
<1>2. UNCHANGED <<leadershipVars, directory, configuration, view, torn, raced, joiner,
                  verdict, cut>>
  BY DEF BeginSeedingFirst
<1>3. request[r] \in JoinHandlers
  BY <1>1 DEF TypeInv, NoRequest
<1> DEFINE h == [request[r] EXCEPT !.pc = "seed", !.at = n]
<1>4. h \in JoinHandlers /\ h.pc = "seed" /\ h.at = n /\ h.member = request[r].member
      /\ h.row = request[r].row /\ h.previous = request[r].previous
  BY <1>3 DEF JoinHandlers
<1>5. request' = [request EXCEPT ![r] = h]
  BY <1>1 DEF BeginSeedingFirst, TypeInv
<1> HIDE DEF h
<1>6. request'[r] = h /\ \A q \in Requests : q # r => request'[q] = request[q]
  BY <1>1, <1>4, <1>5, RequestChanges
<1>7. ~Working(r) /\ ~Working(r)'
  BY <1>1, <1>4, <1>6 DEF Working
<1>8. r \in Seeders /\ seeding[r] = <<>>
  BY <1>1 DEF Seeders, IInv, RequestOf
<1>9. /\ SeedingsMove
      /\ seeding' \in [Seeders -> Seq(Nodes)]
      /\ seeding'[r] # <<>> /\ \A t \in Seeders : t # r => seeding'[t] = seeding[t]
  <2>1. \A q \in Requests : Working(q)' => Working(q)
    BY <1>6, <1>7 DEF Working
  <2>2. seeding' = [seeding EXCEPT ![r] = SeedList(n)]
    BY DEF BeginSeedingFirst
  <2> QED
    BY <1>1, <1>2, <1>8, <2>1, <2>2, SeedingBegins
<1>10. SameAddresses /\ joiner' \in [Joiners -> JoinerStates]
  BY <1>1, <1>2 DEF SameAddresses, TypeInv
<1>11. RequestOf(r)'
  <2>1. RequestOf(r) /\ request[r].pc # "idle"
    BY <1>1 DEF IInv
  <2>2. PICK m : m = request[r].member
    OBVIOUS
  <2>3. SeedRow(m)' = SeedRow(m) /\ OwnRows(m)' = OwnRows(m)
    BY <1>10, NothingElseIsOwned DEF SameAddresses
  <2>4. request'[r].pc = "seed" /\ request'[r].at = n
    BY <1>4, <1>6
  <2> QED
    BY <1>4, <1>6, <1>9, <2>1, <2>2, <2>3, <2>4 DEF RequestOf
<1>12. \A i \in Joiners : JoinerOf(i)'
  <2>1. \A q \in Requests : /\ request'[q].pc = "idle" <=> request[q].pc = "idle"
                            /\ request'[q].member = request[q].member
    BY <1>1, <1>4, <1>6
  <2>2. \A i \in Joiners : joiner[i].pc = "waiting" => joiner[i].request \in Requests
    BY <1>1 DEF TypeInv, JoinerStates, Outcomes
  <2> QED
    BY <1>2, <2>1, <2>2 DEF IInv, JoinerOf
<1> QED
  BY <1>2, <1>4, <1>5, <1>7, <1>9, <1>10, <1>11, <1>12, ArrivalKeeps

-----------------------------------------------------------------------------
(* A handler begins                                                        *)

LEMMA HandleJoinInv ==
    ASSUME IInv, NEW r \in Requests, NEW n \in Nodes, HandleJoin(r, n)
    PROVE  IInv'
<1>1. TypeInv /\ request[r].pc = "arrive" /\ isLeader[n] /\ ~Unseeded(n)
  BY DEF IInv, HandleJoin, BeginJoin, At
<1>2. UNCHANGED <<leadershipVars, directory, configuration, view, seeding, verdict, cut>>
  BY DEF HandleJoin, BeginJoin
<1>3. request[r] \in JoinHandlers
  BY <1>1 DEF TypeInv, NoRequest
<1>4. PICK m \in Joiners : m = request[r].member
  BY <1>3 DEF JoinHandlers
<1>5. m \in Nodes /\ m \in KnownNodes
  BY DEF KnownNodes
<1>6. Tell(r, "stopped") /\ "stopped" \in Outcomes
  BY DEF HandleJoin, Outcomes
<1>7. joiner' \in [Joiners -> JoinerStates] /\ SameAddresses
  BY <1>1, <1>6, Told
<1>8. RequestOf(r) /\ seeding[r] = <<>>
  BY <1>1 DEF IInv, RequestOf
<1>9. SeedRow(m)' = SeedRow(m) /\ OwnRows(m)' = OwnRows(m)
  BY <1>7, NothingElseIsOwned DEF SameAddresses
<1>10. ~Working(r)
  BY <1>1 DEF Working
<1>11. CASE Conflicts(view[n], m, request[r].row.addr)
  <2>1. request' = [request EXCEPT ![r] = NoRequest] /\ UNCHANGED <<torn, raced>>
    BY <1>4, <1>11 DEF HandleJoin, BeginJoin, Answer
  <2>2. PICK h \in JoinHandlers \cup {NoRequest} : h = NoRequest
    OBVIOUS
  <2>3. request'[r] = NoRequest /\ \A q \in Requests : q # r => request'[q] = request[q]
    BY <1>1, <2>1, <2>2, RequestChanges
  <2>4. NoRequest.pc = "idle"
    BY DEF NoRequest
  <2>5. SeedingsMove /\ seeding' \in [Seeders -> Seq(Nodes)]
    <3>1. directory = EmptyDirectory => \A q \in Requests : ~Working(q)'
      BY <2>3, <2>4 DEF IInv, SeedInv, Working
    <3> QED
      BY <1>2, <3>1, SeedingsUndisturbed
  <2>6. RequestOf(r)'
    <3>1. request'[r].pc = "idle" /\ ~UnderWay(r)'
      BY <2>3, <2>4 DEF UnderWay
    <3> QED
      BY <1>2, <1>8, <3>1 DEF RequestOf
  <2>7. \A i \in Joiners : JoinerOf(i)'
    BY <1>1, <1>2, <1>6, <2>3, JoinersFollow
  <2> QED
    BY <1>2, <1>7, <1>10, <2>1, <2>2, <2>4, <2>5, <2>6, <2>7, ArrivalKeeps
<1>12. CASE ~Conflicts(view[n], m, request[r].row.addr)
  <2> DEFINE h == [request[r] EXCEPT !.pc = "write", !.at = n, !.previous = view[n][m]]
  <2>1. request' = [request EXCEPT ![r] = h] /\ NotesRace(r, n)
    BY <1>1, <1>4, <1>12 DEF HandleJoin, BeginJoin, TypeInv
  <2>2. view[n][m] \in Rows /\ view[n][m] \in OwnRows(m)
    BY <1>1, <1>5 DEF TypeInv, IInv, RowsOf
  <2>3. /\ h \in JoinHandlers /\ h.pc = "write" /\ h.at = n /\ h.member = m
        /\ h.row = request[r].row /\ h.previous = view[n][m] /\ h.call = request[r].call
    BY <1>3, <1>4, <2>2 DEF JoinHandlers
  <2> HIDE DEF h
  <2>4. /\ request' \in [Requests -> JoinHandlers \cup {NoRequest}]
        /\ request'[r] = h
        /\ \A q \in Requests : q # r => request'[q] = request[q]
    BY <1>1, <2>1, <2>3, RequestChanges
  <2>5. /\ raced' \subseteq Nodes /\ torn' \subseteq Nodes
        /\ \A j \in Joiners : j # m => /\ j \in torn' <=> j \in torn
                                       /\ j \in raced' <=> j \in raced
        /\ m \notin raced' =>
               /\ \A q \in Requests \ {r} : UnderWay(q) => request[q].member # m
               /\ view[n][m] = directory[m]
               /\ m \notin torn' => m \notin torn /\ m \notin raced
    <3> DEFINE alone == /\ \A q \in Requests \ {r} : ~(UnderWay(q) /\ request[q].member = m)
                        /\ view[n][m] = directory[m]
    <3>1. torn \subseteq Nodes /\ raced \subseteq Nodes
      BY <1>1 DEF TypeInv
    <3>2. CASE alone
      <4>1. raced' = raced \ {m} /\ torn' = torn \cup (raced \cap {m})
        BY <1>4, <2>1, <3>2 DEF NotesRace
      <4> QED
        BY <3>1, <3>2, <4>1
    <3>3. CASE ~alone
      <4>1. raced' = raced \cup {m} /\ torn' = torn
        BY <1>4, <2>1, <3>3 DEF NotesRace
      <4> QED
        BY <1>5, <3>1, <4>1
    <3> QED
      BY <3>2, <3>3
  <2>6. TypeInv'
    BY <1>1, <1>2, <1>7, <2>4, <2>5, LeadershipStays DEF TypeInv
  <2>7. directory # EmptyDirectory
    <3>1. PICK o \in Nodes : view[n][o] # NoRow
      BY <1>1 DEF Unseeded, EmptyDirectory, TypeInv
    <3>2. directory[o] # NoRow
      BY <3>1 DEF IInv, RowsOf
    <3> QED
      BY <3>2 DEF EmptyDirectory
  <2>8. SeedingsMove
    BY <1>2, <2>7, SeedingsUndisturbed
  <2>9. \A q \in Requests : RequestOf(q)'
    <3>1. RequestOf(r)'
      <4>1. request'[r].pc = "write" /\ request'[r].at = n /\ request'[r].member = m
            /\ request'[r].row = request[r].row /\ request'[r].previous = view[n][m]
        BY <2>3, <2>4
      <4>2. request[r].row = SeedRow(m)
        BY <1>1, <1>4, <1>8 DEF RequestOf
      <4> QED
        BY <1>2, <1>8, <1>9, <2>2, <4>1, <4>2 DEF RequestOf
    <3> QED
      BY <1>2, <1>7, <2>4, <3>1, RequestKept
  <2>10. \A i \in Joiners : JoinerOf(i)'
    BY <1>1, <1>2, <1>4, <1>6, <2>3, <2>4, JoinersFollow
  <2>11. HandlerOf(r)'
    <3> SUFFICES ASSUME m \notin torn', m \notin raced'
                 PROVE  /\ directory[m] = view[n][m]
                        /\ configuration[m] = Absent <=> ~Active(view[n][m])
      BY <1>2, <2>3, <2>4 DEF HandlerOf
    <3>1. \A q \in Requests : Working(q) => request[q].member # m
      BY <1>10, <2>5 DEF Working, UnderWay
    <3>2. RestOf(m)
      BY <2>5 DEF IInv, JoinInv, Disturbed
    <3>3. Active(SeedRow(m))
      BY <1>1, <1>5, KnownRows
    <3> QED
      BY <2>5, <3>1, <3>2, <3>3 DEF RestOf
  <2>12. JoinInv'
    <3>1. PICK W \in SUBSET Requests : W = {r}
      OBVIOUS
    <3>2. \A w \in W : w = r /\ ~Working(w)
      BY <1>10, <3>1
    <3>3. \A q \in Requests : q # r /\ Working(q)' /\ request'[r].member = request'[q].member =>
              request'[r].member \in raced'
      BY <2>3, <2>4, <2>5 DEF Working, UnderWay
    <3>4. \A q \in Requests \ W : request'[q] = request[q]
      BY <2>4, <3>1
    <3>5. /\ \A w \in W : HandlerOf(w)'
          /\ \A w \in W, q \in Requests :
                 w # q /\ Working(w)' /\ Working(q)' /\ request'[w].member = request'[q].member =>
                     request'[w].member \in raced'
      BY <2>11, <3>2, <3>3
    <3>6. /\ \A q \in Requests \ W :
                 Working(q) /\ request[q].member \in raced => request[q].member \in raced'
          /\ \A j \in Joiners :
                 j \notin raced' /\ j \notin torn' => j \notin torn /\ j \notin raced
      <4>1. ASSUME NEW q \in Requests \ W, Working(q), request[q].member \in raced
            PROVE  request[q].member \in raced'
        <5>1. request[q].member \in Joiners
          BY <1>1, <4>1 DEF TypeInv, JoinHandlers, Working, NoRequest
        <5> QED
          BY <2>5, <3>1, <4>1, <5>1 DEF Working, UnderWay
      <4> QED
        BY <2>5, <4>1
    <3> QED
      BY <1>2, <1>7, <3>2, <3>4, <3>5, <3>6, JoinsKept
  <2> QED
    BY <1>2, <1>7, <2>6, <2>8, <2>9, <2>10, <2>12, QuietKeeps
<1> QED
  BY <1>11, <1>12

-----------------------------------------------------------------------------
(* Rows that are written                                                   *)

LEMMA RowWritten ==
    ASSUME IInv, NEW m \in KnownNodes, NEW row \in OwnRows(m) \ {NoRow}, PutMember(m, row),
           NEW n \in Nodes, Succeeds(n) \/ FailsCommitted(n), UNCHANGED configuration
    PROVE  /\ directory' \in [Nodes -> Rows] /\ directory' # EmptyDirectory
           /\ directory'[m] = row /\ \A o \in Nodes : o # m => directory'[o] = directory[o]
           /\ view' \in [Nodes -> [Nodes -> Rows]]
           /\ LeadershipTypeOK' /\ RowsMove
<1>1. TypeInv /\ m \in Nodes /\ row \in Rows
  BY KnownRows, OwnRowsAre DEF IInv
<1>2. /\ directory' \in [Nodes -> Rows]
      /\ directory'[m] = row /\ \A o \in Nodes : o # m => directory'[o] = directory[o]
  BY <1>1 DEF TypeInv, PutMember
<1>3. directory' # EmptyDirectory
  BY <1>1, <1>2 DEF EmptyDirectory
<1>4. PICK first : Replicates(first)
  BY DEF Succeeds, FailsCommitted
<1>5. view' \in [Nodes -> [Nodes -> Rows]] /\ \A o \in Nodes : view'[o] \in {view[o], directory'}
  BY <1>1, <1>2, <1>4 DEF TypeInv, Replicates
<1>6. UNCHANGED leadershipVars \/ Deposed(n)
  BY DEF Succeeds, FailsCommitted, Committed
<1>7. LeadershipTypeOK'
  BY <1>1, <1>6, LeadershipStays, LeadershipDeposed DEF TypeInv
<1>8. isLeader' = isLeader /\ raftLeader' \in {raftLeader, None}
  BY <1>6 DEF leadershipVars, Deposed
<1>9. RowsMove
  <2>1. \A o, p \in Nodes : view'[o][p] \in {view[o][p], directory'[p]}
    BY <1>5
  <2> QED
    BY <1>2, <1>8, <2>1 DEF RowsMove
<1> QED
  BY <1>2, <1>3, <1>5, <1>7, <1>9

LEMMA RowNotWritten ==
    ASSUME IInv, NEW n \in Nodes, Fails(n), UNCHANGED configuration
    PROVE  /\ UNCHANGED <<directory, view>>
           /\ LeadershipTypeOK' /\ RowsMove
<1>1. TypeInv
  BY DEF IInv
<1>2. UNCHANGED leadershipVars \/ Deposed(n)
  BY DEF Fails, Refused
<1>3. LeadershipTypeOK'
  BY <1>1, <1>2, LeadershipStays, LeadershipDeposed DEF TypeInv
<1>4. isLeader' = isLeader /\ raftLeader' \in {raftLeader, None}
  BY <1>2 DEF leadershipVars, Deposed
<1> QED
  BY <1>3, <1>4 DEF Fails, RowsMove

\* One Apply of a seeding.  The row of an undisturbed joiner is there already.
LEMMA SeedingStep ==
    ASSUME IInv, NEW s \in Seeders, seeding[s] # <<>>, NEW n \in Nodes,
           SeedingGoesOn(s, n) \/ SeedingFails(s, n), UNCHANGED configuration,
           \A r \in Requests : Working(r)' => Working(r)
    PROVE  /\ directory' \in [Nodes -> Rows] /\ view' \in [Nodes -> [Nodes -> Rows]]
           /\ LeadershipTypeOK' /\ RowsMove /\ SeedingsMove
           /\ seeding' \in [Seeders -> Seq(Nodes)] /\ cut' \in BOOLEAN
           /\ \A t \in Seeders : t # s => seeding'[t] = seeding[t]
           /\ \A j \in Joiners : directory'[j] \in {directory[j], SeedRow(j)}
           /\ \A j \in Joiners \ Disturbed : directory'[j] = directory[j]
<1>1. TypeInv /\ seeding \in [Seeders -> Seq(Nodes)] /\ seeding[s] \in Seq(Nodes)
  BY DEF IInv, TypeInv
<1>2. PICK m \in Nodes : m = Head(seeding[s])
  BY <1>1, HeadAndTail
<1>3. m \in KnownNodes /\ configuration[m] # Absent
  <2>1. PICK i \in DOMAIN seeding[s] : m = seeding[s][i]
    BY <1>1, <1>2, HeadAndTail
  <2> QED
    BY <2>1 DEF IInv, SeedingOf
<1>4. SeedRow(m) \in OwnRows(m) \ {NoRow}
  BY <1>1, <1>3, KnownRows DEF OwnRows
<1>5. m \in Joiners \ Disturbed => directory[m] = SeedRow(m)
  BY <1>3 DEF IInv, JoinInv, RestOf
<1>6. ASSUME NEW list \in {Tail(seeding[s]), <<>>}, seeding' = [seeding EXCEPT ![s] = list]
      PROVE  /\ seeding' \in [Seeders -> Seq(Nodes)] /\ seeding'[s] = list
             /\ \A t \in Seeders : t # s => seeding'[t] = seeding[t]
             /\ \A t \in Seeders : \A o \in Nodes : In(o, seeding'[t]) => In(o, seeding[t])
  <2>1. Tail(seeding[s]) \in Seq(Nodes) /\ <<>> \in Seq(Nodes)
    BY <1>1, HeadAndTail
  <2>2. \A o \in Nodes : In(o, list) => In(o, seeding[s])
    <3>1. CASE list = <<>>
      BY <3>1 DEF In
    <3>2. CASE list = Tail(seeding[s])
      <4>1. \A k \in DOMAIN list : \E i \in DOMAIN seeding[s] : list[k] = seeding[s][i]
        BY <1>1, <3>2, HeadAndTail
      <4> QED
        BY <4>1 DEF In
    <3> QED
      BY <3>1, <3>2
  <2>3. /\ seeding' \in [Seeders -> Seq(Nodes)] /\ seeding'[s] = list
        /\ \A t \in Seeders : t # s => seeding'[t] = seeding[t]
    BY <1>1, <1>6, <2>1
  <2> QED
    BY <2>2, <2>3
<1>7. CASE SeedingGoesOn(s, n)
  <2>1. PutMember(m, SeedRow(m)) /\ Succeeds(n) /\ cut' = cut
        /\ seeding' = [seeding EXCEPT ![s] = Tail(seeding[s])]
    BY <1>1, <1>2, <1>7 DEF SeedingGoesOn
  <2>2. /\ directory' \in [Nodes -> Rows] /\ directory' # EmptyDirectory
        /\ directory'[m] = SeedRow(m)
        /\ \A o \in Nodes : o # m => directory'[o] = directory[o]
        /\ view' \in [Nodes -> [Nodes -> Rows]]
        /\ LeadershipTypeOK' /\ RowsMove
    BY <1>3, <1>4, <2>1, RowWritten
  <2>3. /\ seeding' \in [Seeders -> Seq(Nodes)] /\ seeding'[s] = Tail(seeding[s])
        /\ \A t \in Seeders : t # s => seeding'[t] = seeding[t]
        /\ \A t \in Seeders : \A o \in Nodes : In(o, seeding'[t]) => In(o, seeding[t])
    BY <1>6, <2>1
  <2>4. \A o \in Nodes : In(o, seeding[s]) => o = m \/ In(o, seeding'[s])
    <3>1. \A i \in DOMAIN seeding[s] :
              seeding[s][i] = m \/ \E k \in DOMAIN seeding'[s] : seeding[s][i] = seeding'[s][k]
      BY <1>1, <1>2, <2>3, HeadAndTail
    <3> QED
      BY <3>1 DEF In
  <2>5. \A t \in Seeders : \A o \in Nodes :
            In(o, seeding[t]) => directory'[o] # NoRow \/ \E u \in Seeders : In(o, seeding'[u])
    <3>1. directory'[m] # NoRow
      BY <1>4, <2>2
    <3> QED
      BY <2>3, <2>4, <3>1
  <2>6. SeedingsMove
    BY <2>1, <2>2, <2>3, <2>5 DEF SeedingsMove
  <2>7. /\ \A j \in Joiners : directory'[j] \in {directory[j], SeedRow(j)}
        /\ \A j \in Joiners \ Disturbed : directory'[j] = directory[j]
    BY <1>5, <2>2
  <2> QED
    BY <1>1, <2>1, <2>2, <2>3, <2>6, <2>7 DEF TypeInv
<1>8. CASE SeedingFails(s, n)
  <2>1. seeding' = [seeding EXCEPT ![s] = <<>>] /\ cut' = TRUE
    BY <1>8 DEF SeedingFails
  <2>2. /\ seeding' \in [Seeders -> Seq(Nodes)] /\ seeding'[s] = <<>>
        /\ \A t \in Seeders : t # s => seeding'[t] = seeding[t]
        /\ \A t \in Seeders : \A o \in Nodes : In(o, seeding'[t]) => In(o, seeding[t])
    BY <1>6, <2>1
  <2>3. CASE PutMember(m, SeedRow(m)) /\ FailsCommitted(n)
    <3>1. /\ directory' \in [Nodes -> Rows] /\ directory' # EmptyDirectory
          /\ directory'[m] = SeedRow(m)
          /\ \A o \in Nodes : o # m => directory'[o] = directory[o]
          /\ view' \in [Nodes -> [Nodes -> Rows]]
          /\ LeadershipTypeOK' /\ RowsMove
      BY <1>3, <1>4, <2>3, RowWritten
    <3>2. SeedingsMove
      BY <2>1, <2>2, <3>1 DEF SeedingsMove
    <3>3. /\ \A j \in Joiners : directory'[j] \in {directory[j], SeedRow(j)}
          /\ \A j \in Joiners \ Disturbed : directory'[j] = directory[j]
      BY <1>5, <3>1
    <3> QED
      BY <2>1, <2>2, <3>1, <3>2, <3>3
  <2>4. CASE Fails(n)
    <3>1. UNCHANGED <<directory, view>> /\ LeadershipTypeOK' /\ RowsMove
      BY <2>4, RowNotWritten
    <3>2. SeedingsMove
      <4>1. directory = EmptyDirectory => \A r \in Requests : ~Working(r)'
        BY DEF IInv, SeedInv
      <4>2. EmptyDirectory' = EmptyDirectory
        BY DEF EmptyDirectory
      <4> QED
        BY <2>1, <2>2, <3>1, <4>1, <4>2 DEF SeedingsMove
    <3> QED
      BY <1>1, <2>1, <2>2, <3>1, <3>2 DEF TypeInv
  <2> QED
    BY <1>2, <1>8, <2>3, <2>4 DEF SeedingFails
<1> QED
  BY <1>7, <1>8

LEMMA SeedInTickInv ==
    ASSUME IInv, NEW n \in Nodes, SeedInTick(n)
    PROVE  IInv'
<1>1. UNCHANGED <<configuration, request, torn, raced, joiner, verdict>> /\ TypeInv
  BY DEF SeedInTick, IInv
<1>2. n \in Seeders /\ SameAddresses
  BY <1>1 DEF Seeders, SameAddresses
<1>3. \A r \in Requests : Working(r)' => Working(r)
  BY <1>1 DEF Working
<1>4. /\ directory' \in [Nodes -> Rows] /\ view' \in [Nodes -> [Nodes -> Rows]]
      /\ LeadershipTypeOK' /\ RowsMove /\ SeedingsMove
      /\ seeding' \in [Seeders -> Seq(Nodes)] /\ cut' \in BOOLEAN
      /\ \A t \in Seeders : t # n => seeding'[t] = seeding[t]
      /\ \A j \in Joiners : directory'[j] \in {directory[j], SeedRow(j)}
      /\ \A j \in Joiners \ Disturbed : directory'[j] = directory[j]
  BY <1>1, <1>2, <1>3, SeedingStep DEF SeedInTick
<1>5. TypeInv'
  BY <1>1, <1>4 DEF TypeInv
<1>6. \A r \in Requests : RequestOf(r)'
  BY <1>1, <1>2, <1>4, RequestKept DEF Seeders
<1>7. JoinInv'
  <2>1. PICK none \in SUBSET Requests : none = {}
    OBVIOUS
  <2> QED
    BY <1>1, <1>2, <1>4, <2>1, JoinsKept DEF Disturbed
<1>8. \A i \in Joiners : JoinerOf(i)'
  BY <1>1 DEF IInv, JoinerOf
<1>9. AddressInv'
  BY <1>1, AddressesKept
<1> QED
  BY <1>2, <1>4, <1>5, <1>6, <1>7, <1>8, <1>9, RowsKept, SeedingsKept DEF IInv

LEMMA SeedFirstInv ==
    ASSUME IInv, NEW r \in Requests, SeedFirst(r)
    PROVE  IInv'
<1>1. UNCHANGED <<configuration, torn, raced, verdict>> /\ TypeInv /\ request[r].pc = "seed"
  BY DEF SeedFirst, IInv, At
<1>2. request[r] \in JoinHandlers
  BY <1>1 DEF TypeInv, NoRequest
<1>3. PICK n \in Nodes : n = request[r].at
  BY <1>1 DEF IInv, RequestOf, UnderWay
<1>4. RequestOf(r) /\ r \in Seeders /\ seeding[r] # <<>>
  BY <1>1 DEF IInv, RequestOf, Seeders
<1>5. PICK h \in JoinHandlers \cup {NoRequest} :
          /\ request' = [request EXCEPT ![r] = h]
          /\ h.pc \notin {"write", "decide", "call", "rollback"}
          /\ \/ h = NoRequest /\ seeding' = [seeding EXCEPT ![r] = <<>>]
             \/ /\ h \in JoinHandlers
                /\ h.pc = IF seeding'[r] = <<>> THEN "arrive" ELSE "seed"
                /\ h.member = request[r].member /\ h.row = request[r].row
                /\ h.previous = request[r].previous /\ h.at = n
          /\ \/ joiner' = joiner /\ h # NoRequest
             \/ \E o \in {"asking", "stopped"} : Tell(r, o)
  <2>1. CASE SeedingGoesOn(r, n) /\ UNCHANGED joiner
             /\ IF seeding'[r] = <<>> THEN Goto(r, "arrive") ELSE UNCHANGED request
    <3> DEFINE h == [request[r] EXCEPT !.pc = IF seeding'[r] = <<>> THEN "arrive" ELSE "seed"]
    <3>1. /\ h \in JoinHandlers /\ h.pc = IF seeding'[r] = <<>> THEN "arrive" ELSE "seed"
          /\ h.member = request[r].member /\ h.row = request[r].row
          /\ h.previous = request[r].previous /\ h.at = n
      BY <1>2, <1>3 DEF JoinHandlers
    <3>2. request' = [request EXCEPT ![r] = h]
      <4>1. CASE seeding'[r] = <<>>
        BY <1>1, <2>1, <4>1 DEF Goto, TypeInv
      <4>2. CASE seeding'[r] # <<>>
        <5>1. h = request[r]
          BY <1>1, <1>2, <4>2 DEF JoinHandlers
        <5> QED
          BY <1>1, <2>1, <4>2, <5>1 DEF TypeInv
      <4> QED
        BY <4>1, <4>2
    <3>3. h # NoRequest
      BY <3>1 DEF NoRequest
    <3> HIDE DEF h
    <3> QED
      BY <2>1, <3>1, <3>2, <3>3
  <2>2. CASE SeedingFails(r, n) /\ Answer(r) /\ Tell(r, LeaderError(n))
    <3>1. LeaderError(n) \in {"asking", "stopped"}
      BY DEF LeaderError
    <3>2. NoRequest.pc = "idle"
      BY DEF NoRequest
    <3>3. request' = [request EXCEPT ![r] = NoRequest]
          /\ seeding' = [seeding EXCEPT ![r] = <<>>]
      BY <2>2 DEF Answer, SeedingFails
    <3> QED
      BY <2>2, <3>1, <3>2, <3>3
  <2> QED
    BY <1>3, <2>1, <2>2 DEF SeedFirst
<1>6. /\ request' \in [Requests -> JoinHandlers \cup {NoRequest}]
      /\ request'[r] = h
      /\ \A q \in Requests : q # r => request'[q] = request[q]
  BY <1>1, <1>5, RequestChanges
<1>7. ~Working(r) /\ ~Working(r)'
  BY <1>1, <1>5, <1>6 DEF Working
<1>8. joiner' \in [Joiners -> JoinerStates] /\ SameAddresses
  BY <1>1, <1>5, Told DEF SameAddresses, TypeInv, Outcomes
<1>9. /\ directory' \in [Nodes -> Rows] /\ view' \in [Nodes -> [Nodes -> Rows]]
      /\ LeadershipTypeOK' /\ RowsMove /\ SeedingsMove
      /\ seeding' \in [Seeders -> Seq(Nodes)] /\ cut' \in BOOLEAN
      /\ \A t \in Seeders : t # r => seeding'[t] = seeding[t]
      /\ \A j \in Joiners : directory'[j] \in {directory[j], SeedRow(j)}
      /\ \A j \in Joiners \ Disturbed : directory'[j] = directory[j]
  <2>1. \A q \in Requests : Working(q)' => Working(q)
    BY <1>6, <1>7 DEF Working
  <2>2. SeedingGoesOn(r, n) \/ SeedingFails(r, n)
    BY <1>3 DEF SeedFirst
  <2> QED
    BY <1>1, <1>4, <2>1, <2>2, SeedingStep
<1>10. TypeInv'
  BY <1>1, <1>6, <1>8, <1>9 DEF TypeInv
<1>11. RequestOf(r)'
  <2>1. CASE h = NoRequest /\ seeding' = [seeding EXCEPT ![r] = <<>>]
    <3>1. request'[r].pc = "idle" /\ ~UnderWay(r)' /\ seeding'[r] = <<>>
      BY <1>1, <1>4, <1>6, <2>1 DEF NoRequest, UnderWay, TypeInv
    <3> QED
      BY <3>1 DEF RequestOf
  <2>2. CASE /\ h \in JoinHandlers
             /\ h.pc = IF seeding'[r] = <<>> THEN "arrive" ELSE "seed"
             /\ h.member = request[r].member /\ h.row = request[r].row
             /\ h.previous = request[r].previous /\ h.at = n
    <3>1. PICK m : m = request[r].member
      OBVIOUS
    <3>2. SeedRow(m)' = SeedRow(m) /\ OwnRows(m)' = OwnRows(m)
      BY <1>8, NothingElseIsOwned DEF SameAddresses
    <3>3. request[r].row = SeedRow(m) /\ request[r].previous \in OwnRows(m)
      BY <1>1, <1>4, <3>1 DEF RequestOf
    <3>4. request'[r] = h /\ h.pc \in {"arrive", "seed"}
      BY <1>6, <2>2
    <3> QED
      BY <2>2, <3>1, <3>2, <3>3, <3>4 DEF RequestOf
  <2> QED
    BY <1>5, <2>1, <2>2
<1>12. \A q \in Requests : RequestOf(q)'
  BY <1>6, <1>8, <1>9, <1>11, RequestKept DEF Seeders
<1>13. \A i \in Joiners : JoinerOf(i)'
  <2>1. \/ request'[r] = NoRequest
        \/ request'[r].pc # "idle" /\ request'[r].member = request[r].member
    BY <1>5, <1>6
  <2>2. CASE joiner' = joiner /\ h # NoRequest
    <3>1. \A q \in Requests : /\ request'[q].pc = "idle" <=> request[q].pc = "idle"
                              /\ request'[q].member = request[q].member
      BY <1>1, <1>5, <1>6, <2>2
    <3>2. \A i \in Joiners : joiner[i].pc = "waiting" => joiner[i].request \in Requests
      BY <1>1 DEF TypeInv, JoinerStates, Outcomes
    <3> QED
      BY <1>1, <2>2, <3>1, <3>2 DEF IInv, JoinerOf
  <2>3. CASE \E o \in {"asking", "stopped"} : Tell(r, o)
    <3>1. PICK o \in {"asking", "stopped"} : Tell(r, o)
      BY <2>3
    <3>2. o \in Outcomes /\ o # "joined"
      BY DEF Outcomes
    <3> QED
      BY <1>1, <1>6, <2>1, <3>1, <3>2, JoinersFollow
  <2> QED
    BY <1>5, <2>2, <2>3
<1>14. JoinInv'
  <2>1. PICK W \in SUBSET Requests : W = {r}
    OBVIOUS
  <2>2. \A w \in W : HandlerOf(w)' /\ ~Working(w) /\ ~Working(w)'
    BY <1>7, <2>1 DEF HandlerOf
  <2>3. \A q \in Requests \ W : request'[q] = request[q]
    BY <1>6, <2>1
  <2>4. torn' = torn /\ raced' = raced /\ configuration' = configuration
    BY <1>1
  <2>5. \A j \in Joiners : j \notin torn /\ j \notin raced => directory'[j] = directory[j]
    BY <1>9 DEF Disturbed
  <2> QED
    BY <1>8, <1>9, <2>2, <2>3, <2>4, <2>5, JoinsKept
<1>15. AddressInv'
  BY <1>1, AddressesKept
<1> QED
  BY <1>8, <1>9, <1>10, <1>12, <1>13, <1>14, <1>15, RowsKept, SeedingsKept DEF IInv

-----------------------------------------------------------------------------
(* Handlers at work                                                        *)

\* A handler at work that goes on.
GoesOn(r, m, h) ==
    /\ h \in JoinHandlers /\ h.pc \in {"write", "decide", "call", "rollback"}
    /\ h.member = m /\ h.row = request[r].row
    /\ h.previous = request[r].previous /\ h.at = request[r].at
    /\ h.pc = "call" => h.call = IF h.row.role = "voter" THEN "AddVoter" ELSE "AddNonvoter"

\* What it writes, and what of it is torn.
OnlyMoves(m) ==
    /\ directory' \in [Nodes -> Rows] /\ configuration' \in [Nodes -> Servers]
    /\ view' \in [Nodes -> [Nodes -> Rows]] /\ LeadershipTypeOK'
    /\ \A o \in Nodes : o # m =>
           directory'[o] = directory[o] /\ configuration'[o] = configuration[o]
    /\ torn' \subseteq Nodes /\ \A o \in torn : o # m => o \in torn'
    /\ m \notin torn' \cup raced => RestOf(m)'

\* What the handler of an undisturbed member leaves behind when it is through.
LEMMA WorkerKeeps ==
    ASSUME IInv, NEW r \in Requests, Working(r), NEW m \in Joiners, m = request[r].member,
           NEW h, h = NoRequest \/ GoesOn(r, m, h), request' = [request EXCEPT ![r] = h],
           NEW outcome \in Outcomes, Tell(r, outcome),
           h = NoRequest /\ outcome = "joined" => configuration'[m] # Absent,
           OnlyMoves(m), verdict' \in [Requests -> {"asking", "stopped"}],
           UNCHANGED <<raced, seeding, cut>>,
           RowsMove, UNCHANGED configuration \/ Valid(configuration'), HandlerOf(r)'
    PROVE  IInv'
<1>1. TypeInv /\ request[r].pc # "idle" /\ request[r] \in JoinHandlers
  BY DEF IInv, TypeInv, Working, NoRequest
<1>2. /\ request' \in [Requests -> JoinHandlers \cup {NoRequest}]
      /\ request'[r] = h
      /\ \A q \in Requests : q # r => request'[q] = request[q]
  BY <1>1, RequestChanges DEF GoesOn
<1>3. joiner' \in [Joiners -> JoinerStates] /\ SameAddresses
  BY <1>1, Told
<1>4. TypeInv'
  BY <1>1, <1>2, <1>3 DEF TypeInv, OnlyMoves
<1>5. /\ \A o \in Nodes : RowsOf(o)'
      /\ \A o \in Nodes : configuration[o] # Absent => configuration'[o] # Absent
      /\ \A o \in Nodes : directory[o] # NoRow => directory'[o] # NoRow
  BY <1>3, RowsKept
<1>6. directory # EmptyDirectory /\ directory' # EmptyDirectory
  <2>1. directory # EmptyDirectory
    BY DEF IInv, SeedInv
  <2>2. PICK o \in Nodes : directory[o] # NoRow
    BY <1>1, <2>1 DEF TypeInv, EmptyDirectory
  <2> QED
    BY <1>5, <2>1, <2>2 DEF EmptyDirectory
<1>7. SeedingsMove
  BY <1>6 DEF SeedingsMove, IInv
<1>8. \A q \in Requests : RequestOf(q)'
  <2>1. RequestOf(r)'
    <3>1. RequestOf(r) /\ seeding[r] = <<>> /\ UnderWay(r)
      BY DEF IInv, RequestOf, Working, UnderWay
    <3>2. CASE h = NoRequest
      <4>1. request'[r].pc = "idle" /\ ~UnderWay(r)'
        BY <1>2, <3>2 DEF NoRequest, UnderWay
      <4> QED
        BY <3>1, <4>1 DEF RequestOf
    <3>3. CASE h # NoRequest
      <4>1. SeedRow(m)' = SeedRow(m) /\ OwnRows(m)' = OwnRows(m)
        BY <1>3, NothingElseIsOwned DEF SameAddresses
      <4>2. request[r].row = SeedRow(m) /\ request[r].previous \in OwnRows(m)
            /\ request[r].at \in Nodes
        BY <1>1, <3>1 DEF RequestOf
      <4> QED
        BY <1>2, <3>1, <3>3, <4>1, <4>2 DEF RequestOf, GoesOn
    <3> QED
      BY <3>2, <3>3
  <2> QED
    BY <1>2, <1>3, <2>1, RequestKept
<1>9. \A i \in Joiners : JoinerOf(i)'
  <2>1. \/ request'[r] = NoRequest
        \/ request'[r].pc # "idle" /\ request'[r].member = request[r].member
    BY <1>2 DEF GoesOn
  <2>2. request'[r] = NoRequest => h = NoRequest
    BY <1>2
  <2> QED
    BY <1>1, <1>2, <1>5, <2>1, <2>2, JoinersFollow
<1>10. JoinInv'
  <2>1. PICK W \in SUBSET Requests : W = {r}
    OBVIOUS
  <2>2. \A w \in W : HandlerOf(w)'
    BY <2>1
  <2>3. \A q \in Requests \ W : request'[q] = request[q]
    BY <1>2, <2>1
  <2>4. ASSUME NEW q \in Requests, q # r, Working(r)', Working(q)',
               request'[r].member = request'[q].member
        PROVE  request'[r].member \in raced'
    <3>1. request'[q] = request[q] /\ h # NoRequest
      BY <1>2, <2>4 DEF Working, NoRequest
    <3>2. Working(q) /\ request[q].member = request[r].member
      BY <1>2, <2>4, <3>1 DEF Working, GoesOn
    <3> QED
      BY <1>2, <2>4, <3>1, <3>2 DEF IInv, JoinInv, OneWorker
  <2>5. \A w \in W, q \in Requests :
            w # q /\ Working(w)' /\ Working(q)' /\ request'[w].member = request'[q].member =>
                request'[w].member \in raced'
    BY <2>1, <2>4
  <2>6. \A w \in W : \A j \in Joiners :
            j \notin torn' /\ j \notin raced' /\ Working(w) /\ request[w].member = j => RestOf(j)'
    BY <2>1 DEF OnlyMoves
  <2>7. \A j \in Joiners :
            (\A w \in W : Working(w) => request[w].member # j) =>
                /\ directory'[j] = directory[j] /\ configuration'[j] = configuration[j]
                /\ j \notin torn' => j \notin torn
    BY <2>1 DEF OnlyMoves
  <2> QED
    BY <1>3, <2>2, <2>3, <2>5, <2>6, <2>7, JoinsKept
<1>11. AddressInv'
  BY AddressesKept
<1> QED
  BY <1>4, <1>5, <1>7, <1>8, <1>9, <1>10, <1>11, SeedingsKept DEF IInv

\* What is known of the member of a handler at work.
LEMMA WorkersMember ==
    ASSUME IInv, NEW r \in Requests, Working(r)
    PROVE  /\ TypeInv /\ request[r] \in JoinHandlers
           /\ request[r].member \in Joiners /\ request[r].member \in KnownNodes
           /\ request[r].member \in Nodes /\ request[r].at \in Nodes
           /\ request[r].row = SeedRow(request[r].member)
           /\ request[r].previous \in OwnRows(request[r].member)
           /\ HandlerOf(r) /\ RowsOf(request[r].member)
<1>1. request[r] \in JoinHandlers /\ TypeInv /\ RequestOf(r) /\ HandlerOf(r)
  BY DEF IInv, TypeInv, Working, NoRequest, JoinInv
<1>2. request[r].member \in Joiners
  BY <1>1 DEF JoinHandlers
<1>3. UnderWay(r) /\ request[r].pc # "idle"
  BY DEF Working, UnderWay
<1>4. request[r].member \in Nodes /\ request[r].member \in KnownNodes
  BY <1>2 DEF KnownNodes
<1> QED
  BY <1>1, <1>2, <1>3, <1>4 DEF RequestOf, IInv

LEMMA WriteJoinInv ==
    ASSUME IInv, NEW r \in Requests, WriteJoin(r)
    PROVE  IInv'
<1>1. request[r].pc = "write" /\ Working(r)
  BY DEF WriteJoin, WriteRow, At, Working
<1>2. PICK m \in Joiners : m = request[r].member
  BY <1>1, WorkersMember
<1>3. /\ TypeInv /\ request[r] \in JoinHandlers /\ m \in KnownNodes /\ m \in Nodes
      /\ request[r].at \in Nodes /\ request[r].row = SeedRow(m)
      /\ request[r].previous \in OwnRows(m) /\ HandlerOf(r) /\ RowsOf(m)
  BY <1>1, <1>2, WorkersMember
<1>4. UNCHANGED <<configuration, raced, seeding, verdict, cut>>
  BY DEF WriteJoin, WriteRow
<1>5. PICK outcome \in {"asking", "stopped"} : Tell(r, outcome)
  BY DEF WriteJoin, LeaderError
<1>6. outcome \in Outcomes /\ outcome # "joined"
  BY DEF Outcomes
<1>7. SameAddresses /\ SeedRow(m)' = SeedRow(m)
  BY <1>3, <1>5, <1>6, Told, NothingElseIsOwned DEF SameAddresses
<1>8. SeedRow(m) \in OwnRows(m) \ {NoRow} /\ Active(SeedRow(m))
  BY <1>3, KnownRows DEF OwnRows
<1>9. request[r].op = "join"
  BY <1>3 DEF JoinHandlers
<1>10. configuration' \in [Nodes -> Servers] /\ verdict' \in [Requests -> {"asking", "stopped"}]
       /\ raced' = raced /\ torn \subseteq Nodes
  BY <1>3, <1>4 DEF TypeInv
<1>11. CASE PutMember(m, SeedRow(m)) /\ Succeeds(request[r].at) /\ Goto(r, "decide") /\ UNCHANGED torn
  <2> DEFINE h == [request[r] EXCEPT !.pc = "decide"]
  <2>1. /\ h \in JoinHandlers /\ h.pc = "decide" /\ h.member = m /\ h.row = request[r].row
        /\ h.previous = request[r].previous /\ h.at = request[r].at
    BY <1>2, <1>3 DEF JoinHandlers
  <2>2. request' = [request EXCEPT ![r] = h]
    BY <1>3, <1>11 DEF Goto, TypeInv
  <2> HIDE DEF h
  <2>3. /\ directory' \in [Nodes -> Rows]
        /\ directory'[m] = SeedRow(m) /\ \A o \in Nodes : o # m => directory'[o] = directory[o]
        /\ view' \in [Nodes -> [Nodes -> Rows]]
        /\ LeadershipTypeOK' /\ RowsMove
    BY <1>3, <1>4, <1>8, <1>11, RowWritten
  <2>4. request'[r] = h
    BY <1>3, <2>1, <2>2, RequestChanges
  <2>5. HandlerOf(r)'
    <3> SUFFICES ASSUME m \notin torn, m \notin raced
                 PROVE  Active(h.previous) => configuration[m] # Absent
      BY <1>4, <1>7, <1>11, <2>1, <2>3, <2>4 DEF HandlerOf
    <3> QED
      BY <1>1, <1>2, <1>3, <2>1 DEF HandlerOf
  <2>6. RestOf(m)'
    <3>1. Working(r)' /\ request'[r].member = m
      BY <2>1, <2>4 DEF Working
    <3> QED
      BY <1>7, <2>3, <3>1 DEF RestOf
  <2>7. GoesOn(r, m, h) /\ OnlyMoves(m)
    BY <1>4, <1>10, <1>11, <2>1, <2>3, <2>6 DEF GoesOn, OnlyMoves
  <2>8. h # NoRequest
    BY <2>1 DEF NoRequest
  <2> QED
    BY <1>1, <1>2, <1>4, <1>5, <1>6, <1>10, <2>2, <2>3, <2>5, <2>7, <2>8, WorkerKeeps
<1>12. CASE PutMember(m, SeedRow(m)) /\ FailsCommitted(request[r].at) /\ Answer(r) /\ Tears(r)
  <2>1. /\ directory' \in [Nodes -> Rows]
        /\ \A o \in Nodes : o # m => directory'[o] = directory[o]
        /\ view' \in [Nodes -> [Nodes -> Rows]]
        /\ LeadershipTypeOK' /\ RowsMove
    BY <1>3, <1>4, <1>8, <1>12, RowWritten
  <2>2. request' = [request EXCEPT ![r] = NoRequest]
    BY <1>12 DEF Answer
  <2>3. HandlerOf(r)'
    BY <1>3, <2>2 DEF HandlerOf, Working, NoRequest, TypeInv
  <2>4. torn' = torn \cup {m}
    BY <1>2, <1>12 DEF Tears
  <2>5. OnlyMoves(m)
    BY <1>3, <1>4, <1>10, <2>1, <2>4 DEF OnlyMoves
  <2> QED
    BY <1>1, <1>2, <1>4, <1>5, <1>6, <1>10, <2>1, <2>2, <2>3, <2>5, WorkerKeeps
<1>13. CASE Fails(request[r].at) /\ Answer(r)
            /\ IF request[r].call # "none" THEN Tears(r) ELSE UNCHANGED torn
  <2>1. UNCHANGED <<directory, view>> /\ LeadershipTypeOK' /\ RowsMove
    BY <1>3, <1>4, <1>13, RowNotWritten
  <2>2. request' = [request EXCEPT ![r] = NoRequest]
    BY <1>13 DEF Answer
  <2>3. HandlerOf(r)'
    BY <1>3, <2>2 DEF HandlerOf, Working, NoRequest, TypeInv
  <2>4. torn \subseteq torn' /\ torn' \subseteq torn \cup {m}
    BY <1>2, <1>13 DEF Tears
  <2>5. m \notin torn' \cup raced => RestOf(m)'
    <3> SUFFICES ASSUME m \notin torn, m \notin raced  PROVE RestOf(m)'
      BY <2>4
    <3>1. directory[m] = request[r].previous
          /\ (configuration[m] = Absent <=> ~Active(request[r].previous))
      BY <1>1, <1>2, <1>3 DEF HandlerOf
    <3>2. Active(directory[m]) => directory[m] = SeedRow(m)
      BY <1>3, <3>1, OwnRowsAre
    <3> QED
      BY <1>4, <1>7, <2>1, <3>1, <3>2 DEF RestOf
  <2>6. directory' \in [Nodes -> Rows] /\ view' \in [Nodes -> [Nodes -> Rows]]
    BY <1>3, <2>1 DEF TypeInv
  <2>7. OnlyMoves(m)
    BY <1>3, <1>4, <1>10, <2>1, <2>4, <2>5, <2>6 DEF OnlyMoves
  <2> QED
    BY <1>1, <1>2, <1>4, <1>5, <1>6, <1>10, <2>1, <2>2, <2>3, <2>7, WorkerKeeps
<1> QED
  BY <1>2, <1>3, <1>9, <1>11, <1>12, <1>13 DEF WriteJoin, WriteRow

LEMMA RollBackJoinInv ==
    ASSUME IInv, NEW r \in Requests, RollBackJoin(r)
    PROVE  IInv'
<1>1. request[r].pc = "rollback" /\ Working(r)
  BY DEF RollBackJoin, Rollback, At, Working
<1>2. PICK m \in Joiners : m = request[r].member
  BY <1>1, WorkersMember
<1>3. /\ TypeInv /\ request[r] \in JoinHandlers /\ m \in KnownNodes /\ m \in Nodes
      /\ request[r].at \in Nodes /\ request[r].row = SeedRow(m)
      /\ request[r].previous \in OwnRows(m) /\ HandlerOf(r) /\ RowsOf(m)
  BY <1>1, <1>2, WorkersMember
<1>4. UNCHANGED <<configuration, raced, seeding, cut>>
  BY DEF RollBackJoin, Rollback
<1>5. verdict[r] \in {"asking", "stopped"} /\ verdict' \in [Requests -> {"asking", "stopped"}]
  BY <1>3 DEF TypeInv, RollBackJoin
<1>6. Tell(r, verdict[r]) /\ verdict[r] \in Outcomes /\ verdict[r] # "joined"
  BY <1>5 DEF RollBackJoin, Outcomes
<1>7. SameAddresses /\ SeedRow(m)' = SeedRow(m)
  BY <1>3, <1>6, Told, NothingElseIsOwned DEF SameAddresses
<1>8. request' = [request EXCEPT ![r] = NoRequest]
  BY DEF RollBackJoin, Rollback, Answer
<1>9. HandlerOf(r)'
  BY <1>3, <1>8 DEF HandlerOf, Working, NoRequest, TypeInv
<1>10. configuration' \in [Nodes -> Servers] /\ torn \subseteq Nodes
  BY <1>3, <1>4 DEF TypeInv
<1>11. PICK row \in Rows :
           row = IF request[r].previous = NoRow THEN Gone(m) ELSE request[r].previous
  <2>1. Gone(m) \in Rows
    BY <1>3, KnownRows DEF Gone, Rows, NoRow, Active
  <2> QED
    BY <1>3, <2>1, OwnRowsAre
<1>12. /\ row \in OwnRows(m) \ {NoRow}
       /\ Active(row) => Active(request[r].previous)
  <2>1. Gone(m) # NoRow /\ ~Active(Gone(m))
    BY <1>3, KnownRows DEF Gone, Rows, NoRow, Active
  <2> QED
    BY <1>2, <1>3, <1>11, <2>1 DEF OwnRows
<1>13. CASE /\ PutMember(m, row)
            /\ Succeeds(request[r].at) \/ FailsCommitted(request[r].at)
            /\ UNCHANGED torn
  <2>1. /\ directory' \in [Nodes -> Rows]
        /\ directory'[m] = row /\ \A o \in Nodes : o # m => directory'[o] = directory[o]
        /\ view' \in [Nodes -> [Nodes -> Rows]]
        /\ LeadershipTypeOK' /\ RowsMove
    BY <1>3, <1>4, <1>12, <1>13, RowWritten
  <2>2. m \notin torn' \cup raced => RestOf(m)'
    <3> SUFFICES ASSUME m \notin torn, m \notin raced  PROVE RestOf(m)'
      BY <1>13
    <3>1. configuration[m] = Absent /\ ~Active(request[r].previous)
      BY <1>1, <1>2, <1>3 DEF HandlerOf
    <3> QED
      BY <1>4, <1>12, <2>1, <3>1 DEF RestOf
  <2>3. OnlyMoves(m)
    BY <1>4, <1>10, <1>13, <2>1, <2>2 DEF OnlyMoves
  <2> QED
    BY <1>1, <1>2, <1>4, <1>5, <1>6, <1>8, <1>9, <2>1, <2>3, WorkerKeeps
<1>14. CASE Fails(request[r].at) /\ Tears(r)
  <2>1. UNCHANGED <<directory, view>> /\ LeadershipTypeOK' /\ RowsMove
    BY <1>3, <1>4, <1>14, RowNotWritten
  <2>2. directory' \in [Nodes -> Rows] /\ view' \in [Nodes -> [Nodes -> Rows]]
    BY <1>3, <2>1 DEF TypeInv
  <2>3. torn' = torn \cup {m}
    BY <1>2, <1>14 DEF Tears
  <2>4. OnlyMoves(m)
    BY <1>3, <1>4, <1>10, <2>1, <2>2, <2>3 DEF OnlyMoves
  <2> QED
    BY <1>1, <1>2, <1>4, <1>5, <1>6, <1>8, <1>9, <2>1, <2>4, WorkerKeeps
<1>15. row = IF request[r].previous = NoRow THEN [request[r].row EXCEPT !.status = "removed"]
                                            ELSE request[r].previous
  BY <1>3, <1>11 DEF Gone
<1>16. \/ /\ PutMember(m, row)
          /\ Succeeds(request[r].at) \/ FailsCommitted(request[r].at)
          /\ UNCHANGED torn
       \/ Fails(request[r].at) /\ Tears(r)
  BY <1>2, <1>15 DEF RollBackJoin, Rollback
<1> QED
  BY <1>13, <1>14, <1>16

\* Raft is given the server of m, or not.
LEMMA ServerAdded ==
    ASSUME IInv, NEW m \in Joiners,
           configuration' \in {configuration, [configuration EXCEPT ![m] = OwnServer(m)]},
           UNCHANGED <<directory, view, isLeader, term>>, raftLeader' \in {raftLeader, None}
    PROVE  /\ LeadershipTypeOK' /\ RowsMove
           /\ directory' \in [Nodes -> Rows] /\ configuration' \in [Nodes -> Servers]
           /\ view' \in [Nodes -> [Nodes -> Rows]]
           /\ \A o \in Nodes : o # m =>
                  directory'[o] = directory[o] /\ configuration'[o] = configuration[o]
<1>1. TypeInv /\ m \in KnownNodes /\ m \in Nodes
  BY DEF IInv, KnownNodes
<1>2. OwnServer(m) \in Servers
  BY <1>1, KnownRows
<1>3. /\ configuration' \in [Nodes -> Servers]
      /\ configuration'[m] \in {configuration[m], OwnServer(m)}
      /\ \A o \in Nodes : o # m => configuration'[o] = configuration[o]
  <2>1. PICK server \in Servers : server = OwnServer(m)
    BY <1>2
  <2>2. configuration \in [Nodes -> Servers]
    BY <1>1 DEF TypeInv
  <2>3. CASE configuration' = configuration
    BY <2>2, <2>3
  <2>4. CASE configuration' = [configuration EXCEPT ![m] = server]
    BY <1>1, <2>1, <2>2, <2>4
  <2> QED
    BY <2>1, <2>3, <2>4
<1>4. LeadershipTypeOK'
  BY <1>1 DEF TypeInv, LeadershipTypeOK
<1>5. \A o \in Nodes : isLeader'[o] \/ raftLeader' = o => isLeader[o] \/ raftLeader = o
  OBVIOUS
<1>6. RowsMove
  BY <1>1, <1>3, <1>5 DEF RowsMove
<1> QED
  BY <1>1, <1>3, <1>4, <1>6 DEF TypeInv

\* A joiner asks raft for nothing else than its own server.
LEMMA CallsForItself ==
    ASSUME TypeInv, NEW m \in Joiners, RowsOf(m),
           NEW call, call = IF SeedRow(m).role = "voter" THEN "AddVoter" ELSE "AddNonvoter"
    PROVE  Changed(configuration, call, m, SeedRow(m).addr) =
               [configuration EXCEPT ![m] = OwnServer(m)]
<1>1. m \in KnownNodes /\ m \in Nodes /\ configuration[m] \in {Absent, OwnServer(m)}
  BY DEF KnownNodes, RowsOf
<1>2. /\ SeedRow(m).role = ConfiguredRole[m] /\ SeedRow(m).addr = joiner[m].addr
      /\ OwnServer(m) = [role |-> ConfiguredRole[m], addr |-> joiner[m].addr]
      /\ ConfiguredRole[m] \in {"voter", "nonvoter"}
  BY <1>1, JoinersRow DEF Roles
<1>3. CASE ConfiguredRole[m] = "voter"
  BY <1>2, <1>3 DEF Changed
<1>4. CASE ConfiguredRole[m] = "nonvoter"
  <2>1. configuration[m].role # "voter"
    BY <1>1, <1>2, <1>4 DEF Absent
  <2> QED
    BY <1>2, <1>4, <2>1 DEF Changed, TypeInv
<1> QED
  BY <1>2, <1>3, <1>4

LEMMA DecideInv ==
    ASSUME IInv, NEW r \in Requests, DecideAndCall(r), request[r].pc = "decide"
    PROVE  IInv'
<1>1. Working(r)
  BY DEF Working
<1>2. PICK m \in Joiners : m = request[r].member
  BY <1>1, WorkersMember
<1>3. /\ TypeInv /\ request[r] \in JoinHandlers /\ m \in KnownNodes /\ m \in Nodes
      /\ request[r].at \in Nodes /\ request[r].row = SeedRow(m)
      /\ request[r].previous \in OwnRows(m) /\ HandlerOf(r) /\ RowsOf(m)
  BY <1>1, <1>2, WorkersMember
<1>4. Decide(r)
  BY DEF DecideAndCall, Call, At
<1>5. UNCHANGED <<leadershipVars, directory, configuration, view, raced, seeding, cut>>
  BY <1>4 DEF DecideAndCall, Decide
<1>6. verdict' \in [Requests -> {"asking", "stopped"}]
  BY <1>3 DEF DecideAndCall, TypeInv
<1>7. Tell(r, "joined") /\ "joined" \in Outcomes
  BY DEF DecideAndCall, Outcomes
<1>8. SameAddresses /\ SeedRow(m)' = SeedRow(m)
  BY <1>3, <1>7, Told, NothingElseIsOwned DEF SameAddresses
<1>9. /\ SeedRow(m) = [status |-> "active", role |-> ConfiguredRole[m], addr |-> joiner[m].addr]
      /\ OwnServer(m) = [role |-> ConfiguredRole[m], addr |-> joiner[m].addr]
      /\ ConfiguredRole[m] \in {"voter", "nonvoter"}
  BY <1>3, JoinersRow DEF Roles
<1>10. configuration[m] \in {Absent, OwnServer(m)} /\ OwnServer(m) # Absent
  BY <1>3, KnownRows DEF RowsOf
<1>11. ~Objects("join", m, SeedRow(m), configuration[m])
  BY <1>9, <1>10 DEF Objects
<1>12. request[r].op = "join"
  BY <1>3 DEF JoinHandlers
<1>13. /\ LeadershipTypeOK' /\ RowsMove
       /\ directory' \in [Nodes -> Rows] /\ configuration' \in [Nodes -> Servers]
       /\ view' \in [Nodes -> [Nodes -> Rows]]
       /\ \A o \in Nodes : o # m =>
              directory'[o] = directory[o] /\ configuration'[o] = configuration[o]
  BY <1>5, ServerAdded DEF leadershipVars
<1>14. torn \subseteq Nodes
  BY <1>3 DEF TypeInv
<1>15. CASE configuration[m] = Absent
  <2> DEFINE call == IF SeedRow(m).role = "voter" THEN "AddVoter" ELSE "AddNonvoter"
             h == [request[r] EXCEPT !.pc = "call", !.call = call]
  <2>1. CallFor(SeedRow(m), configuration[m]) = call /\ call \in {"AddVoter", "AddNonvoter"}
    BY <1>9, <1>15 DEF CallFor, Absent
  <2> HIDE DEF call
  <2>2. request' = [request EXCEPT ![r].pc = "call", ![r].call = call] /\ torn' = torn
    BY <1>2, <1>3, <1>4, <1>11, <1>12, <2>1 DEF Decide
  <2>3. request' = [request EXCEPT ![r] = h]
    BY <1>3, <2>2 DEF TypeInv, JoinHandlers
  <2>4. /\ h \in JoinHandlers /\ h.pc = "call" /\ h.member = m /\ h.row = request[r].row
        /\ h.previous = request[r].previous /\ h.at = request[r].at /\ h.call = call
    BY <1>2, <1>3, <2>1 DEF JoinHandlers
  <2> HIDE DEF h
  <2>5. GoesOn(r, m, h)
    BY <1>3, <2>4 DEF GoesOn, call
  <2>6. request'[r] = h /\ h # NoRequest
    <3>1. h # NoRequest
      BY <2>4 DEF NoRequest
    <3> QED
      BY <1>3, <2>3, <2>4, <3>1, RequestChanges
  <2>7. HandlerOf(r)'
    <3>1. /\ request'[r].pc = "call" /\ request'[r].member = m
          /\ request'[r].previous = request[r].previous
      BY <2>4, <2>6
    <3>2. m \notin raced => /\ directory[m] = SeedRow(m)
                            /\ m \notin torn => ~Active(request[r].previous)
      BY <1>1, <1>2, <1>3, <1>15 DEF HandlerOf
    <3>3. /\ directory'[m] = directory[m] /\ SeedRow(m)' = SeedRow(m)
          /\ configuration'[m] = Absent /\ raced' = raced /\ torn' = torn
      BY <1>5, <1>8, <1>15, <2>2 DEF Absent
    <3> QED
      BY <3>1, <3>2, <3>3 DEF HandlerOf
  <2>8. RestOf(m)'
    <3>1. Working(r)' /\ request'[r].member = m
      BY <2>4, <2>6 DEF Working
    <3> QED
      BY <1>5, <1>15, <3>1 DEF RestOf
  <2>9. OnlyMoves(m)
    BY <1>5, <1>13, <1>14, <2>2, <2>8 DEF OnlyMoves
  <2> QED
    BY <1>1, <1>2, <1>5, <1>6, <1>7, <1>13, <2>3, <2>5, <2>6, <2>7, <2>9, WorkerKeeps
<1>16. CASE configuration[m] # Absent
  <2>1. CallFor(SeedRow(m), configuration[m]) = "none"
    BY <1>9, <1>10, <1>16 DEF CallFor
  <2>2. request' = [request EXCEPT ![r] = NoRequest] /\ torn' = torn \ {m}
    BY <1>2, <1>3, <1>4, <1>11, <1>12, <2>1 DEF Decide, AfterCall, Answer, Mends
  <2>3. HandlerOf(r)'
    BY <1>3, <2>2 DEF HandlerOf, Working, NoRequest, TypeInv
  <2>4. m \notin torn' \cup raced => RestOf(m)'
    <3> SUFFICES ASSUME m \notin raced  PROVE RestOf(m)'
      OBVIOUS
    <3>1. directory[m] = SeedRow(m)
      BY <1>1, <1>2, <1>3 DEF HandlerOf
    <3> QED
      BY <1>5, <1>8, <1>16, <3>1 DEF RestOf
  <2>5. OnlyMoves(m)
    BY <1>5, <1>13, <1>14, <2>2, <2>4 DEF OnlyMoves
  <2> QED
    BY <1>1, <1>2, <1>5, <1>6, <1>7, <1>13, <1>16, <2>2, <2>3, <2>5, WorkerKeeps
<1> QED
  BY <1>15, <1>16

LEMMA CallInv ==
    ASSUME IInv, NEW r \in Requests, DecideAndCall(r), request[r].pc = "call"
    PROVE  IInv'
<1>1. Working(r)
  BY DEF Working
<1>2. PICK m \in Joiners : m = request[r].member
  BY <1>1, WorkersMember
<1>3. /\ TypeInv /\ request[r] \in JoinHandlers /\ m \in KnownNodes /\ m \in Nodes
      /\ request[r].at \in Nodes /\ request[r].row = SeedRow(m)
      /\ request[r].previous \in OwnRows(m) /\ HandlerOf(r) /\ RowsOf(m)
  BY <1>1, <1>2, WorkersMember
<1>4. Call(r)
  BY DEF DecideAndCall, Decide, At
<1>5. UNCHANGED <<directory, view, raced, seeding, cut>>
  BY <1>4 DEF DecideAndCall, Call
<1>6. verdict' \in [Requests -> {"asking", "stopped"}]
  BY <1>3 DEF DecideAndCall, TypeInv
<1>7. Tell(r, "joined") /\ "joined" \in Outcomes
  BY DEF DecideAndCall, Outcomes
<1>8. SameAddresses /\ SeedRow(m)' = SeedRow(m)
  BY <1>3, <1>7, Told, NothingElseIsOwned DEF SameAddresses
<1>9. OwnServer(m) # Absent /\ torn \subseteq Nodes
  BY <1>3, KnownRows DEF TypeInv
<1>10. /\ request[r].call = IF SeedRow(m).role = "voter" THEN "AddVoter" ELSE "AddNonvoter"
       /\ request[r].call # "RemoveServer"
  BY <1>3 DEF IInv, RequestOf
<1>11. PICK conf : conf = [configuration EXCEPT ![m] = OwnServer(m)]
  OBVIOUS
<1>12. Changed(configuration, request[r].call, m, request[r].row.addr) = conf
  BY <1>3, <1>10, <1>11, CallsForItself
<1>13. m \notin raced =>
           /\ directory[m] = SeedRow(m) /\ configuration[m] = Absent
           /\ m \notin torn => ~Active(request[r].previous)
  BY <1>1, <1>2, <1>3 DEF HandlerOf
<1>14. request[r].op = "join"
  BY <1>3 DEF JoinHandlers
<1> DEFINE h == [request[r] EXCEPT !.pc = "rollback"]
<1>15. GoesOn(r, m, h) /\ h.pc = "rollback" /\ h # NoRequest
  BY <1>2, <1>3 DEF JoinHandlers, GoesOn, NoRequest
<1>16. AfterError(r) => request' = [request EXCEPT ![r] = h]
  BY <1>3, <1>14 DEF AfterError, Goto, TypeInv
<1> HIDE DEF h
<1>17. CASE CallSucceeds(request[r].at, conf) /\ AfterCall(r)
  <2>1. /\ configuration' = conf /\ Valid(configuration')
        /\ UNCHANGED <<isLeader, term>> /\ raftLeader' \in {raftLeader, None}
    BY <1>17 DEF CallSucceeds
  <2>2. /\ LeadershipTypeOK' /\ RowsMove
        /\ directory' \in [Nodes -> Rows] /\ configuration' \in [Nodes -> Servers]
        /\ view' \in [Nodes -> [Nodes -> Rows]]
        /\ \A o \in Nodes : o # m =>
               directory'[o] = directory[o] /\ configuration'[o] = configuration[o]
    BY <1>5, <1>11, <2>1, ServerAdded
  <2>3. configuration'[m] # Absent
    BY <1>3, <1>9, <1>11, <2>1 DEF TypeInv
  <2>4. request' = [request EXCEPT ![r] = NoRequest] /\ torn' = torn \ {m}
    BY <1>2, <1>14, <1>17 DEF AfterCall, Answer, Mends
  <2>5. HandlerOf(r)'
    BY <1>3, <2>4 DEF HandlerOf, Working, NoRequest, TypeInv
  <2>6. m \notin torn' \cup raced => RestOf(m)'
    BY <1>5, <1>8, <1>13, <2>3 DEF RestOf
  <2>7. OnlyMoves(m)
    BY <1>9, <2>2, <2>4, <2>6 DEF OnlyMoves
  <2> QED
    BY <1>1, <1>2, <1>5, <1>6, <1>7, <2>1, <2>2, <2>3, <2>4, <2>5, <2>7, WorkerKeeps
<1>18. CASE CallFails /\ AfterError(r) /\ UNCHANGED torn
  <2>1. UNCHANGED <<configuration, raftLeader, isLeader, term>>
    BY <1>18 DEF CallFails, leadershipVars
  <2>2. /\ LeadershipTypeOK' /\ RowsMove
        /\ directory' \in [Nodes -> Rows] /\ configuration' \in [Nodes -> Servers]
        /\ view' \in [Nodes -> [Nodes -> Rows]]
        /\ \A o \in Nodes : o # m =>
               directory'[o] = directory[o] /\ configuration'[o] = configuration[o]
    BY <1>5, <2>1, ServerAdded
  <2>3. request' = [request EXCEPT ![r] = h] /\ request'[r] = h
    BY <1>3, <1>15, <1>16, <1>18, RequestChanges DEF GoesOn
  <2>4. HandlerOf(r)'
    <3>1. h.member = m /\ h.previous = request[r].previous
      BY <1>15 DEF GoesOn
    <3> QED
      BY <1>5, <1>13, <1>15, <1>18, <2>1, <2>3, <3>1 DEF HandlerOf
  <2>5. m \notin torn' \cup raced => RestOf(m)'
    <3>1. Working(r)' /\ request'[r].member = m
      BY <1>15, <2>3 DEF Working, GoesOn
    <3> QED
      BY <1>13, <1>18, <2>1, <3>1 DEF RestOf
  <2>6. OnlyMoves(m)
    BY <1>9, <1>18, <2>2, <2>5 DEF OnlyMoves
  <2> QED
    BY <1>1, <1>2, <1>5, <1>6, <1>7, <1>15, <2>1, <2>2, <2>3, <2>4, <2>6, WorkerKeeps
<1>19. CASE CallIsLost(request[r].at, conf) /\ AfterError(r) /\ Tears(r)
  <2>1. /\ configuration' \in {configuration, conf}
        /\ UNCHANGED configuration \/ Valid(configuration')
        /\ UNCHANGED <<isLeader, term>> /\ raftLeader' \in {raftLeader, None}
    BY <1>19 DEF CallIsLost
  <2>2. /\ LeadershipTypeOK' /\ RowsMove
        /\ directory' \in [Nodes -> Rows] /\ configuration' \in [Nodes -> Servers]
        /\ view' \in [Nodes -> [Nodes -> Rows]]
        /\ \A o \in Nodes : o # m =>
               directory'[o] = directory[o] /\ configuration'[o] = configuration[o]
    BY <1>5, <1>11, <2>1, ServerAdded
  <2>3. request' = [request EXCEPT ![r] = h] /\ request'[r] = h
    BY <1>3, <1>15, <1>16, <1>19, RequestChanges DEF GoesOn
  <2>4. torn' = torn \cup {m}
    BY <1>2, <1>19 DEF Tears
  <2>5. HandlerOf(r)'
    <3>1. h.member = m
      BY <1>15 DEF GoesOn
    <3> QED
      BY <1>15, <2>3, <2>4, <3>1 DEF HandlerOf
  <2>6. OnlyMoves(m)
    BY <1>3, <1>9, <2>2, <2>4 DEF OnlyMoves
  <2> QED
    BY <1>1, <1>2, <1>5, <1>6, <1>7, <1>15, <2>1, <2>2, <2>3, <2>5, <2>6, WorkerKeeps
<1> QED
  BY <1>2, <1>4, <1>10, <1>12, <1>17, <1>18, <1>19 DEF Call, CallIsAbandoned

LEMMA DecideAndCallInv ==
    ASSUME IInv, NEW r \in Requests, DecideAndCall(r)
    PROVE  IInv'
BY DecideInv, CallInv DEF DecideAndCall, Decide, Call, At

-----------------------------------------------------------------------------
(* The surroundings                                                        *)

\* Leadership and replicas alone move.
LEMMA SurroundingsKeep ==
    ASSUME IInv, LeadershipTypeOK', view' \in [Nodes -> [Nodes -> Rows]], RowsMove,
           UNCHANGED <<directory, configuration, request, torn, raced, startVars>>
    PROVE  IInv'
<1>1. TypeInv /\ UNCHANGED <<seeding, joiner, verdict, cut>>
  BY DEF IInv, startVars
<1>2. TypeInv' /\ SameAddresses
  BY <1>1 DEF TypeInv, SameAddresses
<1>3. SeedingsMove
  <2>1. directory = EmptyDirectory => \A r \in Requests : ~Working(r)'
    BY DEF IInv, SeedInv, Working
  <2> QED
    BY <1>1, <2>1, SeedingsUndisturbed
<1>4. \A r \in Requests : RequestOf(r)'
  BY <1>1, <1>2, RequestKept
<1>5. \A j \in Joiners : JoinerOf(j)'
  BY <1>1 DEF IInv, JoinerOf
<1>6. JoinInv'
  <2>1. PICK none \in SUBSET Requests : none = {}
    OBVIOUS
  <2> QED
    BY <1>2, <2>1, JoinsKept
<1>7. AddressInv'
  BY AddressesKept
<1> QED
  BY <1>2, <1>3, <1>4, <1>5, <1>6, <1>7, RowsKept, SeedingsKept DEF IInv

LEMMA SurroundingsInv ==
    ASSUME IInv, NEW n \in Nodes, ElectNode(n) \/ Hear(n) \/ ReplicaCatchesUp(n)
    PROVE  IInv'
<1>1. TypeInv
  BY DEF IInv
<1>2. CASE ElectNode(n)
  <2>1. /\ Elect(n) /\ n \in Voters(configuration)
        /\ UNCHANGED <<directory, configuration, view, request, torn, raced, startVars>>
    BY <1>2 DEF ElectNode, ElectLeader
  <2>2. configuration[n] # Absent
    BY <2>1 DEF Voters, Absent
  <2>3. LeadershipTypeOK'
    BY <1>1, <2>1, LeadershipElected DEF TypeInv
  <2>4. RowsMove
    BY <2>1, <2>2 DEF RowsMove, Elect
  <2> QED
    BY <1>1, <2>1, <2>3, <2>4, SurroundingsKeep DEF TypeInv
<1>3. CASE Hear(n)
  <2>1. /\ WatchLeadership(n)
        /\ UNCHANGED <<directory, configuration, view, request, torn, raced, startVars>>
    BY <1>3 DEF Hear, HearLeadership
  <2>2. LeadershipTypeOK'
    BY <1>1, <2>1, LeadershipHeard DEF TypeInv
  <2>3. raftLeader' = raftLeader /\ \A m \in Nodes : isLeader'[m] => isLeader[m] \/ raftLeader = m
    BY <1>1, <2>1 DEF WatchLeadership, TypeInv, LeadershipTypeOK
  <2>4. RowsMove
    BY <2>1, <2>3 DEF RowsMove
  <2> QED
    BY <1>1, <2>1, <2>2, <2>4, SurroundingsKeep DEF TypeInv
<1>4. CASE ReplicaCatchesUp(n)
  <2>1. /\ view' = [view EXCEPT ![n] = directory]
        /\ UNCHANGED <<leadershipVars, directory, configuration, request, torn, raced, startVars>>
    BY <1>4 DEF ReplicaCatchesUp, CatchUp
  <2>2. /\ view' \in [Nodes -> [Nodes -> Rows]]
        /\ \A m \in Nodes : view'[m] \in {view[m], directory'}
    BY <1>1, <2>1 DEF TypeInv
  <2>3. LeadershipTypeOK'
    BY <1>1, <2>1, LeadershipStays DEF TypeInv
  <2>4. RowsMove
    BY <2>1, <2>2 DEF RowsMove, leadershipVars
  <2> QED
    BY <2>1, <2>2, <2>3, <2>4, SurroundingsKeep
<1> QED
  BY <1>2, <1>3, <1>4

LEMMA CrashNodeInv ==
    ASSUME IInv, NEW n \in Nodes, CrashNode(n)
    PROVE  IInv'
<1> DEFINE here == {r \in Requests : request[r].at = n}
           lost == {s \in here \cup {n} : seeding[s] # <<>>}
<1>1. /\ Restart(n)
      /\ request' = [r \in Requests |-> IF r \in here THEN NoRequest ELSE request[r]]
      /\ torn' = torn \cup {request[r].member : r \in {q \in here : UnderWay(q)}}
      /\ seeding' = [s \in Seeders |-> IF s \in lost THEN <<>> ELSE seeding[s]]
      /\ cut' = (cut \/ lost # {})
      /\ joiner' = [j \in Joiners |->
             IF joiner[j].request \in here
             THEN [joiner[j] EXCEPT !.pc = "asking", !.request = None]
             ELSE joiner[j]]
      /\ UNCHANGED <<directory, configuration, view, raced, verdict>>
  BY DEF CrashNode
<1>2. TypeInv
  BY DEF IInv
<1>3. \A r \in Requests : request'[r] = IF r \in here THEN NoRequest ELSE request[r]
  BY <1>1
<1>4. request' \in [Requests -> JoinHandlers \cup {NoRequest}]
  BY <1>1, <1>2 DEF TypeInv
<1>5. ASSUME NEW r \in here, UnderWay(r)  PROVE request[r].member \in Joiners
  BY <1>2, <1>5 DEF TypeInv, JoinHandlers, NoRequest, UnderWay
<1>6. torn' \subseteq Nodes /\ torn \subseteq torn'
  <2>1. torn \subseteq Nodes
    BY <1>2 DEF TypeInv
  <2>2. {request[r].member : r \in {q \in here : UnderWay(q)}} \subseteq Nodes
    BY <1>5
  <2> QED
    BY <1>1, <2>1, <2>2
<1>7. /\ seeding' \in [Seeders -> Seq(Nodes)]
      /\ \A s \in Seeders : seeding'[s] = IF s \in lost THEN <<>> ELSE seeding[s]
  <2>1. <<>> \in Seq(Nodes)
    OBVIOUS
  <2> QED
    BY <1>1, <1>2, <2>1 DEF TypeInv
<1>8. /\ joiner' \in [Joiners -> JoinerStates] /\ SameAddresses
      /\ \A j \in Joiners :
             \/ joiner'[j] = joiner[j] /\ joiner[j].request \notin here
             \/ joiner'[j].pc = "asking"
  <2>1. ASSUME NEW j \in Joiners
        PROVE  /\ joiner'[j] \in JoinerStates /\ joiner'[j].addr = joiner[j].addr
               /\ \/ joiner'[j] = joiner[j] /\ joiner[j].request \notin here
                  \/ joiner'[j].pc = "asking"
    <3>1. joiner[j] \in JoinerStates
      BY <1>2 DEF TypeInv
    <3>2. CASE joiner[j].request \in here
      <4> DEFINE s == [joiner[j] EXCEPT !.pc = "asking", !.request = None]
      <4>1. joiner[j] \in [pc : {"waiting"}, request : Requests, addr : JoinAddresses,
                           hasState : BOOLEAN]
        BY <3>1, <3>2 DEF JoinerStates
      <4>2. s \in JoinerStates /\ s.addr = joiner[j].addr /\ s.pc = "asking"
        BY <4>1 DEF JoinerStates, Outcomes
      <4>3. joiner'[j] = s
        BY <1>1, <3>2
      <4> HIDE DEF s
      <4> QED
        BY <4>2, <4>3
    <3>3. CASE joiner[j].request \notin here
      BY <1>1, <3>1, <3>3
    <3> QED
      BY <3>2, <3>3
  <2> QED
    BY <1>1, <2>1 DEF SameAddresses
<1>9. LeadershipTypeOK' /\ cut' \in BOOLEAN
  BY <1>1, <1>2, LeadershipRestarted DEF TypeInv
<1>10. TypeInv'
  BY <1>1, <1>2, <1>4, <1>6, <1>7, <1>8, <1>9 DEF TypeInv
<1>11. RowsMove
  <2>1. /\ raftLeader' \in {raftLeader, None}
        /\ \A m \in Nodes : isLeader'[m] => isLeader[m]
    BY <1>1, <1>2 DEF Restart, TypeInv, LeadershipTypeOK
  <2> QED
    BY <1>1, <2>1 DEF RowsMove
<1>12. \A r \in Requests : Working(r)' => Working(r) /\ r \notin here
  BY <1>3 DEF Working, NoRequest
<1>13. SeedingsMove
  <2>1. \A s \in Seeders : \A m \in Nodes : In(m, seeding'[s]) => In(m, seeding[s])
    BY <1>7 DEF In
  <2>2. ~cut' => \A s \in Seeders : seeding'[s] = seeding[s]
    BY <1>1, <1>7
  <2>3. directory = EmptyDirectory => \A r \in Requests : ~Working(r)'
    BY <1>12 DEF IInv, SeedInv
  <2>4. EmptyDirectory' = EmptyDirectory
    BY DEF EmptyDirectory
  <2>5. \A s \in Seeders : seeding'[s] \in {seeding[s], <<>>}
    BY <1>7
  <2> QED
    BY <1>1, <2>1, <2>2, <2>3, <2>4, <2>5 DEF SeedingsMove
<1>14. ASSUME NEW q \in Requests  PROVE RequestOf(q)'
  <2>1. CASE q \in here
    <3>1. request'[q].pc = "idle" /\ ~UnderWay(q)'
      BY <1>3, <2>1 DEF NoRequest, UnderWay
    <3>2. seeding'[q] = <<>>
      BY <1>7, <2>1 DEF Seeders
    <3> QED
      BY <3>1, <3>2 DEF RequestOf
  <2>2. CASE q \notin here
    <3>1. q \notin lost /\ q \in Seeders
      BY <2>2 DEF Seeders
    <3>2. request'[q] = request[q] /\ seeding'[q] = seeding[q]
      BY <1>3, <1>7, <2>2, <3>1
    <3> QED
      BY <1>8, <3>2, RequestKept
  <2> QED
    BY <2>1, <2>2
<1>15. \A j \in Joiners : JoinerOf(j)'
  <2>1. \A j \in Joiners : joiner[j].pc = "waiting" => joiner[j].request \in Requests
    BY <1>2 DEF TypeInv, JoinerStates, Outcomes
  <2>2. ASSUME NEW j \in Joiners
        PROVE  \/ joiner'[j].pc \notin {"waiting", "joined"}
               \/ joiner'[j].pc = "joined" /\
                      (joiner[j].pc = "joined" \/ configuration'[j] # Absent)
               \/ /\ joiner'[j].pc = "waiting" /\ joiner[j].pc = "waiting"
                  /\ joiner'[j].request = joiner[j].request
                  /\ request'[joiner[j].request].pc # "idle"
                  /\ request'[joiner[j].request].member = request[joiner[j].request].member
    <3>1. CASE joiner'[j].pc = "asking"
      BY <3>1
    <3>2. CASE joiner'[j] = joiner[j] /\ joiner[j].request \notin here
      <4>1. JoinerOf(j)
        BY DEF IInv
      <4>2. joiner[j].pc = "waiting" => request'[joiner[j].request] = request[joiner[j].request]
        BY <1>3, <2>1, <3>2
      <4> QED
        BY <3>2, <4>1, <4>2 DEF JoinerOf
    <3> QED
      BY <1>8, <3>1, <3>2
  <2> QED
    BY <1>1, <2>2, JoinersKept
<1>16. JoinInv'
  <2>1. PICK W \in SUBSET Requests : W = here
    OBVIOUS
  <2>2. \A w \in W : ~Working(w)' /\ HandlerOf(w)'
    <3>1. \A w \in W : ~Working(w)'
      BY <1>12, <2>1
    <3> QED
      BY <3>1 DEF HandlerOf
  <2>3. \A q \in Requests \ W : request'[q] = request[q]
    BY <1>3, <2>1
  <2>4. \A w \in W : Working(w) => request[w].member \in torn'
    BY <1>1, <2>1 DEF Working, UnderWay
  <2>5. \A w \in W : \A j \in Joiners :
            j \notin torn' /\ j \notin raced' /\ Working(w) /\ request[w].member = j => RestOf(j)'
    BY <2>4
  <2>6. /\ \A j \in Joiners :
               /\ directory'[j] = directory[j] /\ configuration'[j] = configuration[j]
               /\ j \notin torn' => j \notin torn
        /\ \A w \in W, q \in Requests :
               w # q /\ Working(w)' /\ Working(q)' /\ request'[w].member = request'[q].member =>
                   request'[w].member \in raced'
    BY <1>1, <1>6, <2>2
  <2>7. raced' = raced
    BY <1>1
  <2> QED
    BY <1>8, <2>2, <2>3, <2>5, <2>6, <2>7, JoinsKept
<1>17. AddressInv'
  BY <1>1, AddressesKept
<1> QED
  BY <1>8, <1>10, <1>11, <1>13, <1>14, <1>15, <1>16, <1>17, RowsKept, SeedingsKept DEF IInv

-----------------------------------------------------------------------------
(* The invariant and the theorems                                          *)

LEMMA StartsInv ==
    ASSUME StartInit
    PROVE  IInv
<1>1. /\ LeadershipInit
      /\ directory = EmptyDirectory /\ view = [n \in Nodes |-> EmptyDirectory]
      /\ configuration = [m \in Nodes |->
             IF m \in Founders THEN [role |-> "voter", addr |-> HomeAddress[m]] ELSE Absent]
      /\ request = [r \in Requests |-> NoRequest]
      /\ torn = {} /\ raced = {} /\ cut = FALSE
      /\ seeding = [s \in Seeders |-> <<>>]
      /\ joiner \in [Joiners -> [pc : {"asking"}, request : {None},
                                 addr : JoinAddresses, hasState : {FALSE}]]
      /\ verdict = [r \in Requests |-> "asking"]
  BY DEF StartInit
<1>2. \A j \in Joiners : joiner[j] \in JoinerStates /\ joiner[j].pc = "asking"
  BY <1>1 DEF JoinerStates, Outcomes
<1>3. joiner \in [Joiners -> JoinerStates]
  BY <1>1, <1>2
<1>4. NoRow \in Rows /\ ~Active(NoRow) /\ Absent \in Servers
  BY DEF NoRow, Rows, Active, Absent, Servers
<1>5. configuration \in [Nodes -> Servers]
  <2>1. \A m \in Founders : [role |-> "voter", addr |-> HomeAddress[m]] \in Servers
    BY DEF Servers, Roles
  <2> QED
    BY <1>1, <1>4, <2>1
<1>6. \A r \in Requests : request[r] = NoRequest /\ request[r].pc = "idle"
  BY <1>1 DEF NoRequest
<1>7. \A r \in Requests : ~Working(r) /\ ~UnderWay(r)
  BY <1>6 DEF Working, UnderWay
<1>8. \A s \in Seeders : seeding[s] = <<>>
  BY <1>1
<1>9. TypeInv
  <2>1. seeding \in [Seeders -> Seq(Nodes)]
    <3>1. <<>> \in Seq(Nodes)
      OBVIOUS
    <3> QED
      BY <1>1, <3>1
  <2>2. directory \in [Nodes -> Rows] /\ view \in [Nodes -> [Nodes -> Rows]]
    BY <1>1, <1>4 DEF EmptyDirectory
  <2>3. LeadershipTypeOK
    BY <1>1, LeadershipStarts
  <2> QED
    BY <1>1, <1>3, <1>5, <2>1, <2>2, <2>3 DEF TypeInv
<1>10. ASSUME NEW m \in Nodes  PROVE RowsOf(m)
  <2>1. directory[m] = NoRow /\ \A n \in Nodes : view[n][m] = NoRow
    BY <1>1 DEF EmptyDirectory
  <2>2. m \in Founders => configuration[m] = OwnServer(m) /\ OwnServer(m) # Absent
    BY <1>1 DEF OwnServer, Absent
  <2>3. m \notin Founders => configuration[m] = Absent
    BY <1>1
  <2>4. ~isLeader[m] /\ raftLeader # m
    BY <1>1 DEF LeadershipInit
  <2> QED
    BY <2>1, <2>2, <2>3, <2>4 DEF RowsOf, OwnRows, KnownNodes
<1>11. \A r \in Requests : RequestOf(r)
  BY <1>6, <1>7, <1>8 DEF RequestOf, Seeders
<1>12. \A j \in Joiners : JoinerOf(j)
  BY <1>2 DEF JoinerOf
<1>13. \A s \in Seeders : SeedingOf(s)
  BY <1>8 DEF SeedingOf
<1>14. \A j \in Joiners : configuration[j] = Absent /\ directory[j] = NoRow
  BY <1>1 DEF EmptyDirectory
<1>15. SeedInv
  BY <1>1, <1>7, <1>8, <1>14 DEF SeedInv
<1>16. JoinInv
  BY <1>4, <1>7, <1>14 DEF JoinInv, HandlerOf, OneWorker, RestOf
<1>17. AddressInv
  BY <1>1 DEF AddressInv, Absent
<1> QED
  BY <1>9, <1>10, <1>11, <1>12, <1>13, <1>15, <1>16, <1>17 DEF IInv

LEMMA StepsInv ==
    ASSUME IInv, [StartNext]_allVars
    PROVE  IInv'
<1>1. CASE UNCHANGED allVars
  <2>1. /\ UNCHANGED <<leadershipVars, directory, configuration, view, request, torn, raced>>
        /\ UNCHANGED <<startVars, leadershipVars>>
    BY <1>1 DEF allVars, vars
  <2>2. LeadershipTypeOK' /\ view' \in [Nodes -> [Nodes -> Rows]]
    BY <2>1, LeadershipStays DEF IInv, TypeInv
  <2>3. RowsMove
    BY <2>1 DEF RowsMove, leadershipVars
  <2> QED
    BY <2>1, <2>2, <2>3, SurroundingsKeep
<1>2. ASSUME NEW n \in Nodes,
             \/ BeginSeeding(n) \/ SeedInTick(n) \/ CrashNode(n)
             \/ ElectNode(n) \/ Hear(n) \/ ReplicaCatchesUp(n)
      PROVE  IInv'
  BY <1>2, BeginSeedingInv, SeedInTickInv, CrashNodeInv, SurroundingsInv
<1>3. ASSUME NEW r \in Requests,
             BeginRequest(r) \/ (\E n \in Nodes : HandleJoin(r, n)) \/ HandleStep(r)
      PROVE  IInv'
  BY <1>3, NotHandledInv, BeginSeedingFirstInv, HandleJoinInv, SeedFirstInv,
     DecideAndCallInv, WriteJoinInv, RollBackJoinInv
     DEF BeginRequest, HandleStep
<1>4. ASSUME NEW j \in Joiners,
             (\E r \in Requests : Ask(j, r)) \/ TimeOut(j) \/ StoreRaftState(j) \/ Die(j) \/ Start(j)
      PROVE  IInv'
  BY <1>4, AskInv, ClientInv
<1> QED
  BY <1>1, <1>2, <1>3, <1>4 DEF StartNext

LEMMA Inductive == StartSpec => []IInv
BY StartsInv, StepsInv, PTL DEF StartSpec

\* Every variable keeps its type: in particular a handler that seeds is at a
\* node and has a peer to write, and no client waits for a request that is not.
THEOREM StartTypes == StartSpec => []StartTypeOK
<1>1. ASSUME IInv  PROVE StartTypeOK
  <2>1. TypeInv
    BY <1>1 DEF IInv
  <2>2. ASSUME NEW r \in Requests
        PROVE  \/ request[r] \in RequestStates
               \/ At(r, "seed") /\ request[r].at \in Nodes /\ seeding[r] # <<>>
    <3>1. CASE request[r] = NoRequest
      BY <3>1 DEF RequestStates
    <3>2. CASE request[r].pc = "seed"
      BY <1>1, <3>2 DEF IInv, RequestOf, UnderWay, At
    <3>3. CASE request[r] \in JoinHandlers /\ request[r].pc # "seed"
      BY <3>3 DEF JoinHandlers, RequestStates, Calls
    <3> QED
      BY <2>1, <3>1, <3>2, <3>3 DEF TypeInv
  <2>3. verdict \in [Requests -> Outcomes]
    BY <2>1 DEF TypeInv, Outcomes
  <2> QED
    BY <2>1, <2>2, <2>3 DEF TypeInv, StartTypeOK
<1> QED
  BY <1>1, Inductive, PTL

\* When every seeding is over and none was cut off, the directory has all peers
\* or nobody: EnsureMemberDirectorySeeded counts rows and does not start again.
THEOREM PeersSeededInFull == StartSpec => []SeededInFull
<1>1. ASSUME IInv  PROVE SeededInFull
  BY <1>1 DEF IInv, SeedInv, SeededInFull
<1> QED
  BY <1>1, Inductive, PTL

\* A node that AutoJoin was told to have joined has its row and its server,
\* with one role and one address, unless a handler of its join was disturbed.
THEOREM JoinersAreMembers == StartSpec => []JoinedIsMember
<1>1. ASSUME IInv  PROVE JoinedIsMember
  <2> SUFFICES ASSUME NEW j \in Joiners \ Disturbed, joiner[j].pc = "joined"
               PROVE  Active(directory[j]) /\ Agree(j)
    BY DEF JoinedIsMember
  <2>1. TypeInv /\ j \in KnownNodes /\ RowsOf(j) /\ JoinerOf(j) /\ RestOf(j)
    BY <1>1 DEF IInv, KnownNodes, JoinInv
  <2>2. configuration[j] = OwnServer(j) /\ directory[j] = SeedRow(j)
    BY <2>1 DEF RowsOf, JoinerOf, RestOf
  <2>3. /\ SeedRow(j) = [status |-> "active", role |-> ConfiguredRole[j],
                         addr |-> joiner[j].addr]
        /\ OwnServer(j) = [role |-> ConfiguredRole[j], addr |-> joiner[j].addr]
    BY <2>1, JoinersRow
  <2> QED
    BY <2>2, <2>3 DEF Agree, Active
<1> QED
  BY <1>1, Inductive, PTL

\* However many nodes join at once, no two active members have one address when
\* no join is being handled: those that pass JoinMember's check are told apart
\* by raft, and the row of the one it refuses is rolled back.
THEOREM JoinersToldApart == StartSpec => []AddressesDistinct
<1>1. ASSUME IInv  PROVE AddressesDistinct
  <2> SUFFICES ASSUME AtRest, NEW m \in Nodes \ (torn \cup raced),
                      NEW n \in Nodes \ (torn \cup raced),
                      m # n, Active(directory[m]), Active(directory[n])
               PROVE  directory[m].addr # directory[n].addr
    BY DEF AddressesDistinct
  <2>1. ASSUME NEW o \in Nodes \ (torn \cup raced), Active(directory[o])
        PROVE  configuration[o] # Absent /\ configuration[o].addr = directory[o].addr
    <3>1. RowsOf(o) /\ TypeInv
      BY <1>1 DEF IInv
    <3>2. o \in KnownNodes
      BY <2>1, <3>1 DEF RowsOf, NoRow, Active
    <3>3. configuration[o] # Absent
      <4>1. CASE o \in Founders
        BY <3>1, <4>1 DEF RowsOf
      <4>2. CASE o \in Joiners
        <5>1. RestOf(o)
          BY <1>1, <4>2 DEF IInv, JoinInv, Disturbed
        <5>2. \A r \in Requests : ~Working(r)
          BY DEF AtRest, UnderWay, Working
        <5> QED
          BY <2>1, <5>1, <5>2 DEF RestOf
      <4> QED
        BY <3>2, <4>1, <4>2 DEF KnownNodes
    <3>4. directory[o] = SeedRow(o) /\ configuration[o] = OwnServer(o)
      BY <2>1, <3>1, <3>2, <3>3, OwnRowsAre DEF RowsOf
    <3> QED
      BY <3>1, <3>2, <3>3, <3>4, KnownRows
  <2> QED
    BY <1>1, <2>1 DEF IInv, AddressInv
<1> QED
  BY <1>1, Inductive, PTL

=============================================================================
