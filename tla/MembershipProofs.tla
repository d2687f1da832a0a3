-------------------------- MODULE MembershipProofs --------------------------
(***************************************************************************)
(* Theorems about Membership, for every set of nodes, addresses, commands  *)
(* and founders, any number of requests at the same time and every bound.  *)
(*                                                                         *)
(* A member that no two handlers share has one handler at most, and what   *)
(* that handler has read or written of the row and of raft still holds: so *)
(* its success makes the two agree, whatever they were before.  That they  *)
(* agree when it fails takes that they agreed when it began, which they    *)
(* did unless the member was left half way.                                *)
(***************************************************************************)
EXTENDS Membership, LeadershipProofs

\* Raft says of m what the row says.
Agrees(m, row) ==
    configuration[m] = IF Active(row) THEN [role |-> row.role, addr |-> row.addr]
                                      ELSE Absent

LocalsOf(r) ==
    LET q == request[r]
    IN  /\ q.op = "join" => q.row.status = "active" /\ q.row.addr \in Addresses
        /\ UnderWay(r) =>
               /\ q.at \in Nodes /\ q.row.addr \in Addresses
               /\ q.row.status = IF q.op = "remove" THEN "removed" ELSE "active"
               /\ q.pc = "call" => q.call # "none"
               /\ q.pc = "rollback" => q.op = "join"

Undisturbed(m) == m \notin torn /\ m \notin raced

\* The call that a handler is about to make takes raft to what its row says.
Suits(q) ==
    /\ q.op = "remove" => q.call = "RemoveServer"
    /\ q.op # "remove" =>
           /\ q.call = CallFor(q.row, configuration[q.member])
           /\ configuration[q.member] # Absent =>
                  configuration[q.member].addr = q.row.addr

\* A join writes the row and then calls raft, the others do it the other way.
\* What is known of a member that was left half way comes first.
HandlerOf(r) ==
    LET q == request[r]
    IN  UnderWay(r) /\ q.member \notin raced =>
            /\ q.op = "join" /\ q.pc # "write" => directory[q.member] = q.row
            /\ q.op # "join" /\ q.pc = "write" => Agrees(q.member, q.row)
            /\ q.pc = "call" => Suits(q)
            /\ q.member \notin torn =>
                   /\ q.op = "join" => /\ Agrees(q.member, q.previous)
                                       /\ q.pc = "write" => directory[q.member] = q.previous
                   /\ q.op # "join" => \/ q.pc = "write" /\ q.call # "none"
                                       \/ Agrees(q.member, directory[q.member])

\* Only a row that is active is changed.
ChangedOf(r) ==
    LET q == request[r]
    IN  UnderWay(r) /\ q.op # "join" /\ q.member \notin raced => Active(directory[q.member])

OneHandler ==
    \A q, r \in Requests :
        UnderWay(q) /\ UnderWay(r) /\ request[q].member = request[r].member =>
            q = r \/ request[r].member \in raced

RestInv ==
    \A m \in Nodes :
        Undisturbed(m) /\ (\A r \in Requests : UnderWay(r) => request[r].member # m) =>
            Agrees(m, directory[m])

AddressInv ==
    \A m, n \in Nodes :
        m # n /\ configuration[m] # Absent => configuration[m].addr # configuration[n].addr

IInv ==
    /\ TypeOK
    /\ \A r \in Requests : LocalsOf(r) /\ HandlerOf(r) /\ ChangedOf(r)
    /\ OneHandler /\ RestInv /\ AddressInv

-----------------------------------------------------------------------------
USE NodesAssumption, MaxTermAssumption, CommandsAssumption, AddressesAssumption
  DEF NodesAssumption, MaxTermAssumption, CommandsAssumption, AddressesAssumption

(* Types                                                                   *)

Views == [Nodes -> [Nodes -> Rows]]

HandlerRows == [status : {"active", "removed"}, role : Roles, addr : Addresses \cup {None}]

Handlers ==
    [pc : {"arrive", "decide", "call", "write", "rollback"},
     op : {"join", "role", "remove"}, member : Nodes, previous : Rows,
     row : HandlerRows, call : Calls, at : Nodes \cup {None}]

LEMMA RequestTypes ==
    ASSUME TypeOK, NEW r \in Requests
    PROVE  /\ request[r] = NoRequest \/ request[r] \in Handlers
           /\ request[r].pc # "idle" => request[r] \in Handlers
           /\ UnderWay(r) => request[r] \in Handlers
           /\ request[r].at \in Nodes => request[r] \in Handlers
<1>1. request[r] = NoRequest \/ request[r] \in Handlers
  BY DEF TypeOK, RequestStates, Handlers, HandlerRows
<1> QED
  BY <1>1 DEF NoRequest, UnderWay

\* What a handler is made into is a handler, and nothing else changes.
LEMMA HandlerChanges ==
    ASSUME TypeOK, NEW r \in Requests, NEW h \in Handlers \cup {NoRequest},
           request' = [request EXCEPT ![r] = h]
    PROVE  /\ request' \in [Requests -> RequestStates]
           /\ request'[r] = h
           /\ \A q \in Requests : q # r => request'[q] = request[q]
BY DEF TypeOK, RequestStates, Handlers, HandlerRows

LEMMA Answered ==
    ASSUME TypeOK, NEW r \in Requests, Answer(r)
    PROVE  /\ request' \in [Requests -> RequestStates]
           /\ request'[r] = NoRequest
           /\ \A q \in Requests : q # r => request'[q] = request[q]
           /\ ~UnderWay(r)' /\ LocalsOf(r)' /\ HandlerOf(r)' /\ ChangedOf(r)'
<1>1. /\ request' \in [Requests -> RequestStates]
      /\ request'[r] = NoRequest
      /\ \A q \in Requests : q # r => request'[q] = request[q]
  BY HandlerChanges DEF Answer
<1>2. ~UnderWay(r)'
  BY <1>1 DEF UnderWay, NoRequest
<1>3. request'[r].op # "join"
  BY <1>1 DEF NoRequest
<1> QED
  BY <1>1, <1>2, <1>3 DEF LocalsOf, HandlerOf, ChangedOf

LEMMA Went ==
    ASSUME TypeOK, NEW r \in Requests, request[r] \in Handlers,
           NEW step \in {"arrive", "decide", "call", "write", "rollback"}, Goto(r, step)
    PROVE  /\ request' \in [Requests -> RequestStates]
           /\ \A q \in Requests : q # r => request'[q] = request[q]
           /\ request'[r].pc = step /\ request'[r].op = request[r].op
           /\ request'[r].member = request[r].member /\ request'[r].row = request[r].row
           /\ request'[r].previous = request[r].previous
           /\ request'[r].call = request[r].call /\ request'[r].at = request[r].at
<1> DEFINE h == [request[r] EXCEPT !.pc = step]
<1>1. h \in Handlers
  BY DEF Handlers
<1>2. request' = [request EXCEPT ![r] = h]
  BY DEF Goto
<1>3. request'[r] = h
  BY <1>1, <1>2, HandlerChanges
<1> QED
  BY <1>1, <1>2, <1>3, HandlerChanges DEF Handlers

LEMMA ReplicatesTypes ==
    ASSUME TypeOK, directory' \in [Nodes -> Rows], NEW first, Replicates(first)
    PROVE  view' \in Views
BY DEF Replicates, TypeOK, Views

\* The outcomes of an Apply.
LEMMA Applied ==
    ASSUME TypeOK, directory' \in [Nodes -> Rows], NEW n \in Nodes,
           Succeeds(n) \/ FailsCommitted(n)
    PROVE  LeadershipTypeOK' /\ view' \in Views
<1>1. LeadershipTypeOK
  BY DEF TypeOK
<1>2. CASE Succeeds(n)
  BY <1>1, <1>2, LeadershipStays, ReplicatesTypes DEF Succeeds, Committed
<1>3. CASE FailsCommitted(n)
  BY <1>1, <1>3, LeadershipDeposed, ReplicatesTypes DEF FailsCommitted
<1> QED
  BY <1>2, <1>3

LEMMA NotApplied ==
    ASSUME TypeOK, NEW n \in Nodes, Fails(n)
    PROVE  LeadershipTypeOK' /\ view' \in Views /\ UNCHANGED <<directory, view>>
<1>1. LeadershipTypeOK
  BY DEF TypeOK
<1>2. LeadershipTypeOK'
  BY <1>1, LeadershipStays, LeadershipDeposed DEF Fails, Refused
<1> QED
  BY <1>2 DEF Fails, TypeOK, Views

\* The outcomes of a call to raft.
LEMMA ChangedTypes ==
    ASSUME TypeOK, NEW call \in Calls \ {"none"}, NEW m \in Nodes, NEW addr \in Addresses
    PROVE  /\ Changed(configuration, call, m, addr) \in [Nodes -> Servers]
           /\ \A n \in Nodes : n # m =>
                  Changed(configuration, call, m, addr)[n] = configuration[n]
<1>1. configuration \in [Nodes -> Servers]
  BY DEF TypeOK
<1>2. \A role \in Roles : [role |-> role, addr |-> addr] \in Servers
  BY DEF Servers
<1>3. CASE call = "AddVoter"
  BY <1>1, <1>2, <1>3 DEF Changed, Roles
<1>4. CASE call = "AddNonvoter"
  <2>1. (IF configuration[m].role = "voter" THEN "voter" ELSE "nonvoter") \in Roles
    BY DEF Roles
  <2>2. Changed(configuration, call, m, addr) =
            [configuration EXCEPT ![m] =
                [role |-> IF configuration[m].role = "voter" THEN "voter" ELSE "nonvoter",
                 addr |-> addr]]
    BY <1>1, <1>4 DEF Changed
  <2> QED
    BY <1>1, <1>2, <2>1, <2>2
<1>5. CASE call = "DemoteVoter"
  <2>1. CASE configuration[m] = Absent
    BY <1>1, <1>5, <2>1 DEF Changed
  <2>2. CASE configuration[m] # Absent
    <3>1. configuration[m] \in [role : Roles, addr : Addresses]
      BY <1>1, <2>2 DEF Servers
    <3>2. [configuration[m] EXCEPT !.role = "nonvoter"] \in Servers
      BY <3>1 DEF Servers, Roles
    <3> QED
      BY <1>1, <1>5, <2>2, <3>2 DEF Changed
  <2> QED
    BY <2>1, <2>2
<1>6. CASE call = "RemoveServer"
  BY <1>1, <1>6 DEF Changed, Servers
<1> QED
  BY <1>3, <1>4, <1>5, <1>6 DEF Calls

-----------------------------------------------------------------------------
(* A step of one handler, and what is said of the others                   *)

LEMMA HandlerKeeps ==
    ASSUME IInv, TypeOK', NEW r \in Requests, NEW m \in Nodes,
           UnderWay(r) \/ UnderWay(r)' => request[r].member = m,
           \A q \in Requests : q # r => request'[q] = request[q],
           UnderWay(r) => raced' = raced,
           \A n \in Nodes : n # m \/ ~(UnderWay(r) \/ UnderWay(r)') =>
               (n \in torn' <=> n \in torn) /\ (n \in raced' <=> n \in raced),
           \A n \in Nodes : n # m \/ ~UnderWay(r) =>
               directory'[n] = directory[n] /\ configuration'[n] = configuration[n],
           UnderWay(r)' => request'[r].member = m,
           UnderWay(r)' /\ ~UnderWay(r) =>
               \A q \in Requests :
                   q # r /\ UnderWay(q) /\ request[q].member = m => m \in raced',
           LocalsOf(r)', HandlerOf(r)', ChangedOf(r)',
           UnderWay(r) /\ ~UnderWay(r)' /\ Undisturbed(m)' => Agrees(m, directory[m])',
           AddressInv'
    PROVE  IInv'
<1>1. ASSUME NEW q \in Requests, q # r
      PROVE  LocalsOf(q)' /\ HandlerOf(q)' /\ ChangedOf(q)'
  <2>1. request'[q] = request[q] /\ LocalsOf(q) /\ HandlerOf(q) /\ ChangedOf(q)
    BY <1>1 DEF IInv
  <2>2. LocalsOf(q)'
    BY <2>1 DEF LocalsOf, UnderWay
  <2>3. ASSUME UnderWay(q), request[q].member \notin raced'
        PROVE  /\ request[q].member \in Nodes
               /\ directory'[request[q].member] = directory[request[q].member]
               /\ configuration'[request[q].member] = configuration[request[q].member]
               /\ request[q].member \notin raced
               /\ request[q].member \in torn' <=> request[q].member \in torn
    <3>1. request[q].member \in Nodes
      BY <2>3, RequestTypes DEF IInv, Handlers
    <3>2. UnderWay(r) \/ UnderWay(r)' => request[q].member # m
      BY <1>1, <2>3 DEF IInv, OneHandler
    <3> QED
      BY <2>3, <3>1, <3>2
  <2>4. HandlerOf(q)'
    <3> SUFFICES ASSUME UnderWay(q), request[q].member \notin raced'
                 PROVE  HandlerOf(q)'
      BY <2>1 DEF HandlerOf, UnderWay
    <3> QED
      BY <2>1, <2>3 DEF HandlerOf, Agrees, Suits
  <2>5. ChangedOf(q)'
    BY <2>1, <2>3 DEF ChangedOf, UnderWay
  <2> QED
    BY <2>2, <2>4, <2>5
<1>2. OneHandler'
  <2> SUFFICES ASSUME NEW p \in Requests, NEW q \in Requests, UnderWay(p)', UnderWay(q)',
                      request'[p].member = request'[q].member, p # q
               PROVE  request'[q].member \in raced'
    BY DEF OneHandler
  <2>1. CASE p # r /\ q # r
    <3>1. PICK k \in Nodes : k = request[q].member
      BY <2>1, RequestTypes DEF IInv, Handlers, UnderWay
    <3>2. UnderWay(q) /\ k \in raced /\ request'[q].member = k
      BY <2>1, <3>1 DEF IInv, OneHandler, UnderWay
    <3> QED
      BY <2>1, <3>2
  <2>2. CASE p = r \/ q = r
    <3>1. PICK s \in Requests : s # r /\ {p, q} = {r, s}
      BY <2>2
    <3>2. UnderWay(s) /\ request[s].member = m /\ UnderWay(r)' /\ request'[q].member = m
      BY <3>1 DEF UnderWay
    <3>3. CASE UnderWay(r)
      BY <3>1, <3>2, <3>3 DEF IInv, OneHandler
    <3>4. CASE ~UnderWay(r)
      BY <3>1, <3>2, <3>4
    <3> QED
      BY <3>3, <3>4
  <2> QED
    BY <2>1, <2>2
<1>3. RestInv'
  <2> SUFFICES ASSUME NEW n \in Nodes, Undisturbed(n)',
                      \A q \in Requests : UnderWay(q)' => request'[q].member # n
               PROVE  Agrees(n, directory[n])'
    BY DEF RestInv
  <2>1. CASE n = m /\ UnderWay(r)
    BY <2>1
  <2>2. CASE n # m \/ ~UnderWay(r)
    <3>1. directory'[n] = directory[n] /\ configuration'[n] = configuration[n]
      BY <2>2
    <3>2. Undisturbed(n)
      BY <2>2 DEF Undisturbed
    <3>3. \A q \in Requests : UnderWay(q) => request[q].member # n
      BY <2>2 DEF UnderWay
    <3>4. Agrees(n, directory[n])
      BY <3>2, <3>3 DEF IInv, RestInv
    <3> QED
      BY <3>1, <3>4 DEF Agrees
  <2> QED
    BY <2>1, <2>2
<1> QED
  BY <1>1, <1>2, <1>3 DEF IInv

-----------------------------------------------------------------------------
(* Requests that arrive                                                    *)

\* A step that touches neither the directory nor raft, by a request that no
\* handler has taken up or that goes back to being none.
LEMMA ArrivalKeeps ==
    ASSUME IInv, LeadershipTypeOK', NEW r \in Requests,
           UNCHANGED <<directory, configuration, view, torn, raced>>,
           ~UnderWay(r), ~UnderWay(r)', LocalsOf(r)',
           request' \in [Requests -> RequestStates],
           \A q \in Requests : q # r => request'[q] = request[q]
    PROVE  IInv'
<1>1. TypeOK'
  BY DEF IInv, TypeOK
<1>2. PICK m \in Nodes : TRUE
  BY FoundersAssumption DEF FoundersAssumption
<1>3. HandlerOf(r)' /\ ChangedOf(r)'
  BY DEF HandlerOf, ChangedOf
<1>4. AddressInv'
  BY DEF IInv, AddressInv
<1> QED
  BY <1>1, <1>2, <1>3, <1>4, HandlerKeeps

LEMMA ReceiveInv ==
    ASSUME IInv, NEW r \in Requests, Receive(r)
    PROVE  IInv'
<1>1. TypeOK /\ LeadershipTypeOK
  BY DEF IInv, TypeOK
<1>2. PICK c \in Commands :
          request' = [request EXCEPT ![r] =
              [NoRequest EXCEPT
                  !.pc = "arrive", !.op = c.op, !.member = c.member,
                  !.row = [status |-> "active", role |-> c.role, addr |-> c.addr]]]
  BY DEF Receive
<1>3. c.op \in {"join", "role", "remove"} /\ c.member \in Nodes /\ c.role \in Roles
      /\ c.addr \in Addresses \cup {None}
      /\ (c.op = "join" => c.addr \in Addresses)
  BY DEF CommandStates
<1> DEFINE row == [status |-> "active", role |-> c.role, addr |-> c.addr]
           h == [NoRequest EXCEPT !.pc = "arrive", !.op = c.op, !.member = c.member,
                                  !.row = row]
<1>4. h \in Handlers
  <2>1. row \in HandlerRows
    BY <1>3 DEF HandlerRows
  <2> HIDE DEF row
  <2>2. NoRequest \in [pc : {"idle"}, op : {"none"}, member : {None}, row : {NoRow},
                       previous : {NoRow}, call : {"none"}, at : {None}]
    BY DEF NoRequest
  <2>3. h \in [pc : {"arrive"}, op : {c.op}, member : {c.member}, row : {row},
               previous : {NoRow}, call : {"none"}, at : {None}]
    <3> HIDE DEF NoRequest
    <3> QED
      BY <2>2
  <2> QED
    BY <1>3, <2>1, <2>3 DEF Handlers, Rows, Calls
<1>9. request' = [request EXCEPT ![r] = h]
  BY <1>2
<1>5. /\ request' \in [Requests -> RequestStates]
      /\ request'[r] = h
      /\ \A q \in Requests : q # r => request'[q] = request[q]
  BY <1>1, <1>4, <1>9, HandlerChanges
<1>6. ~UnderWay(r) /\ ~UnderWay(r)' /\ LocalsOf(r)'
  <2>1. /\ request'[r].pc = "arrive" /\ request'[r].op = c.op
        /\ request'[r].row.status = "active" /\ request'[r].row.addr = c.addr
    BY <1>5
  <2> QED
    BY <1>3, <2>1 DEF UnderWay, Receive, At, LocalsOf
<1>7. LeadershipTypeOK' /\ UNCHANGED <<directory, configuration, view, torn, raced>>
  BY <1>1, LeadershipStays DEF Receive
<1> QED
  BY <1>5, <1>6, <1>7, ArrivalKeeps

\* The request is answered where it has arrived.
LEMMA TurnedAway ==
    ASSUME IInv, NEW r \in Requests, At(r, "arrive"), Answer(r), LeadershipTypeOK',
           UNCHANGED <<directory, configuration, view, torn, raced>>
    PROVE  IInv'
<1>1. TypeOK /\ ~UnderWay(r)
  BY DEF IInv, At, UnderWay
<1> QED
  BY <1>1, Answered, ArrivalKeeps

LEMMA UnavailableInv ==
    ASSUME IInv, NEW r \in Requests, Unavailable(r)
    PROVE  IInv'
<1>1. LeadershipTypeOK
  BY DEF IInv, TypeOK
<1> QED
  BY <1>1, LeadershipStays, TurnedAway DEF Unavailable

LEMMA RemoveSelfInv ==
    ASSUME IInv, NEW r \in Requests, NEW n \in Nodes, RemoveSelf(r, n)
    PROVE  IInv'
<1>1. LeadershipTypeOK
  BY DEF IInv, TypeOK
<1>2. LeadershipTypeOK'
  <2>1. CASE UNCHANGED leadershipVars
    BY <1>1, <2>1, LeadershipStays
  <2>2. CASE ~UNCHANGED leadershipVars
    BY <1>1, <2>2 DEF RemoveSelf, LeadershipTypeOK, LeadershipMayMove, Voters
  <2> QED
    BY <2>1, <2>2
<1>3. CASE Answer(r)
  BY <1>2, <1>3, TurnedAway DEF RemoveSelf
<1>4. CASE ~Answer(r)
  <2>1. request' = request /\ ~UnderWay(r)
    BY <1>4 DEF RemoveSelf, At, UnderWay
  <2>2. ~UnderWay(r)' /\ LocalsOf(r)' /\ request' \in [Requests -> RequestStates]
    BY <2>1 DEF UnderWay, IInv, TypeOK, LocalsOf
  <2> QED
    BY <1>2, <2>1, <2>2, ArrivalKeeps DEF RemoveSelf
<1> QED
  BY <1>3, <1>4

-----------------------------------------------------------------------------
(* Handlers that begin                                                     *)

\* A handler that begins alone has read the row as it is.
LEMMA RaceNoted ==
    ASSUME IInv, NEW r \in Requests, NEW n \in Nodes, NEW m \in Nodes,
           request[r].member = m, ~UnderWay(r), NotesRace(r, n)
    PROVE  /\ raced' \subseteq Nodes /\ torn' \subseteq Nodes
           /\ \A k \in Nodes \ {m} : (k \in torn' <=> k \in torn) /\ (k \in raced' <=> k \in raced)
           /\ m \notin raced' => view[n][m] = directory[m]
           /\ \A q \in Requests : q # r /\ UnderWay(q) /\ request[q].member = m => m \in raced'
           /\ Undisturbed(m)' => Agrees(m, directory[m])
<1>1. raced \subseteq Nodes /\ torn \subseteq Nodes
  BY DEF IInv, TypeOK
<1> DEFINE alone == /\ \A q \in Requests \ {r} : ~(UnderWay(q) /\ request[q].member = m)
                    /\ view[n][m] = directory[m]
<1>2. CASE alone
  <2>1. raced' = raced \ {m} /\ torn' = torn \cup (raced \cap {m})
    BY <1>2 DEF NotesRace
  <2>2. Undisturbed(m)' => Undisturbed(m)
    BY <2>1 DEF Undisturbed
  <2>3. Undisturbed(m) => Agrees(m, directory[m])
    BY <1>2 DEF IInv, RestInv
  <2> QED
    BY <1>1, <1>2, <2>1, <2>2, <2>3
<1>3. CASE ~alone
  <2>1. raced' = raced \cup {m} /\ torn' = torn
    BY <1>3 DEF NotesRace
  <2> QED
    BY <1>1, <2>1 DEF Undisturbed
<1> QED
  BY <1>2, <1>3

LEMMA BeginJoinInv ==
    ASSUME IInv, NEW r \in Requests, NEW n \in Nodes, BeginJoin(r, n)
    PROVE  IInv'
<1>1. TypeOK /\ LeadershipTypeOK /\ LocalsOf(r)
  BY DEF IInv, TypeOK
<1>2. /\ request[r].pc = "arrive" /\ request[r].op = "join" /\ ~UnderWay(r)
      /\ UNCHANGED <<leadershipVars, directory, configuration, view>>
  BY DEF BeginJoin, At, UnderWay
<1>7. request[r] \in Handlers
  BY <1>1, <1>2, RequestTypes
<1>3. PICK m \in Nodes : m = request[r].member
  BY <1>7 DEF Handlers
<1>4. LeadershipTypeOK'
  BY <1>1, <1>2, LeadershipStays
<1>5. CASE Answer(r) /\ UNCHANGED <<torn, raced>>
  BY <1>2, <1>4, <1>5, TurnedAway DEF At
<1>6. CASE /\ request' = [request EXCEPT ![r].pc = "write", ![r].at = n,
                                         ![r].previous = view[n][m]]
           /\ NotesRace(r, n)
  <2> DEFINE h == [request[r] EXCEPT !.pc = "write", !.at = n, !.previous = view[n][m]]
  <2>1. view[n][m] \in Rows
    BY <1>1, <1>3 DEF TypeOK
  <2>2. h \in Handlers
    BY <1>3, <1>7, <2>1 DEF Handlers
  <2>3. request' = [request EXCEPT ![r] = h]
    BY <1>3, <1>6
  <2>4. /\ request' \in [Requests -> RequestStates] /\ request'[r] = h
        /\ \A q \in Requests : q # r => request'[q] = request[q]
    BY <1>1, <2>2, <2>3, HandlerChanges
  <2>5. /\ request'[r].pc = "write" /\ request'[r].at = n /\ request'[r].op = "join"
        /\ request'[r].previous = view[n][m] /\ request'[r].member = m
        /\ request'[r].row = request[r].row /\ UnderWay(r)'
    BY <1>2, <1>3, <1>7, <2>4 DEF Handlers, UnderWay
  <2>6. /\ raced' \subseteq Nodes /\ torn' \subseteq Nodes
        /\ \A k \in Nodes \ {m} : (k \in torn' <=> k \in torn) /\ (k \in raced' <=> k \in raced)
        /\ m \notin raced' => view[n][m] = directory[m]
        /\ \A q \in Requests : q # r /\ UnderWay(q) /\ request[q].member = m => m \in raced'
        /\ Undisturbed(m)' => Agrees(m, directory[m])
    BY <1>2, <1>3, <1>6, RaceNoted
  <2>7. TypeOK'
    BY <1>1, <1>2, <1>4, <2>4, <2>6 DEF TypeOK
  <2>8. LocalsOf(r)'
    BY <1>1, <1>2, <2>5 DEF LocalsOf
  <2>9. HandlerOf(r)' /\ ChangedOf(r)'
    <3>1. PICK read \in Rows : read = view[n][m]
      BY <2>1
    <3>2. Undisturbed(m)' => m \notin raced' /\ Agrees(m, directory[m])
      BY <2>6 DEF Undisturbed
    <3>3. m \notin torn' /\ m \notin raced' => Agrees(m, read)' /\ directory'[m] = read
      BY <1>2, <2>6, <3>1, <3>2 DEF Agrees, Undisturbed
    <3>4. /\ request'[r].pc = "write" /\ request'[r].op = "join"
          /\ request'[r].previous = read /\ request'[r].member = m
      BY <2>5, <3>1
    <3> QED
      BY <3>3, <3>4 DEF HandlerOf, ChangedOf, Agrees
  <2>10. AddressInv'
    BY <1>2 DEF IInv, AddressInv
  <2> QED
    BY <1>2, <1>3, <2>4, <2>5, <2>6, <2>7, <2>8, <2>9, <2>10, HandlerKeeps
<1> QED
  BY <1>3, <1>5, <1>6 DEF BeginJoin

LEMMA BeginChangeInv ==
    ASSUME IInv, NEW r \in Requests, NEW n \in Nodes, BeginChange(r, n)
    PROVE  IInv'
<1>1. TypeOK /\ LeadershipTypeOK /\ LocalsOf(r)
  BY DEF IInv, TypeOK
<1>2. /\ request[r].pc = "arrive" /\ request[r].op \in {"role", "remove"} /\ ~UnderWay(r)
      /\ UNCHANGED <<leadershipVars, directory, configuration, view>>
  BY DEF BeginChange, At, UnderWay
<1>7. request[r] \in Handlers
  BY <1>1, <1>2, RequestTypes
<1>3. PICK m \in Nodes : m = request[r].member
  BY <1>7 DEF Handlers
<1> DEFINE row == view[n][m]
           changed == IF request[r].op = "role" THEN [row EXCEPT !.role = request[r].row.role]
                                                ELSE [row EXCEPT !.status = "removed"]
<1>4. LeadershipTypeOK'
  BY <1>1, <1>2, LeadershipStays
<1>5. CASE Answer(r) /\ UNCHANGED <<torn, raced>>
  BY <1>2, <1>4, <1>5, TurnedAway DEF At
<1>6. CASE /\ Active(row)
           /\ request' = [request EXCEPT ![r].pc = "decide", ![r].at = n, ![r].row = changed]
           /\ NotesRace(r, n)
  <2> DEFINE h == [request[r] EXCEPT !.pc = "decide", !.at = n, !.row = changed]
  <2>1. row \in [status : {"active", "removed"}, role : Roles, addr : Addresses]
    BY <1>1, <1>3, <1>6 DEF TypeOK, Rows, NoRow, Active
  <2>2. /\ changed \in HandlerRows /\ changed.addr \in Addresses
        /\ changed.status = IF request[r].op = "remove" THEN "removed" ELSE "active"
    <3>1. request[r].row.role \in Roles
      BY <1>7 DEF Handlers, HandlerRows
    <3> QED
      BY <1>2, <1>6, <2>1, <3>1 DEF HandlerRows, Active
  <2>3. h \in Handlers
    BY <1>7, <2>2 DEF Handlers
  <2>4. request' = [request EXCEPT ![r] = h]
    BY <1>3, <1>6
  <2>5. /\ request' \in [Requests -> RequestStates] /\ request'[r] = h
        /\ \A q \in Requests : q # r => request'[q] = request[q]
    BY <1>1, <2>3, <2>4, HandlerChanges
  <2>6. /\ request'[r].pc = "decide" /\ request'[r].at = n
        /\ request'[r].op = request[r].op
        /\ request'[r].row = changed /\ request'[r].member = m /\ UnderWay(r)'
    BY <1>3, <1>7, <2>5 DEF Handlers, UnderWay
  <2>7. /\ raced' \subseteq Nodes /\ torn' \subseteq Nodes
        /\ \A k \in Nodes \ {m} : (k \in torn' <=> k \in torn) /\ (k \in raced' <=> k \in raced)
        /\ m \notin raced' => view[n][m] = directory[m]
        /\ \A q \in Requests : q # r /\ UnderWay(q) /\ request[q].member = m => m \in raced'
        /\ Undisturbed(m)' => Agrees(m, directory[m])
    BY <1>2, <1>3, <1>6, RaceNoted
  <2>8. TypeOK'
    BY <1>1, <1>2, <1>4, <2>5, <2>7 DEF TypeOK
  <2>9. LocalsOf(r)'
    BY <1>2, <2>2, <2>6 DEF LocalsOf
  <2>10. HandlerOf(r)' /\ ChangedOf(r)'
    <3>2. m \notin torn' /\ m \notin raced' => Agrees(m, directory[m])'
      <4>1. UNCHANGED <<directory, configuration>>
        BY <1>2
      <4> QED
        BY <2>7, <4>1 DEF Agrees, Undisturbed
    <3>3. m \notin raced' => Active(directory'[m])
      BY <1>2, <1>6, <2>7
    <3> QED
      BY <1>2, <2>6, <3>2, <3>3 DEF HandlerOf, ChangedOf
  <2>11. AddressInv'
    BY <1>2 DEF IInv, AddressInv
  <2> QED
    BY <1>2, <1>3, <2>5, <2>6, <2>7, <2>8, <2>9, <2>10, <2>11, HandlerKeeps
<1> QED
  BY <1>3, <1>5, <1>6 DEF BeginChange

-----------------------------------------------------------------------------
(* Handlers at work                                                        *)

FullRows == [status : {"active", "removed"}, role : Roles, addr : Addresses]

LEMMA AtWork ==
    ASSUME IInv, NEW r \in Requests, UnderWay(r)
    PROVE  /\ TypeOK /\ LeadershipTypeOK
           /\ request[r] \in Handlers /\ request[r].member \in Nodes
           /\ request[r].row \in FullRows /\ request[r].at \in Nodes
           /\ request[r].previous \in Rows
<1>1. TypeOK /\ LeadershipTypeOK /\ LocalsOf(r)
  BY DEF IInv, TypeOK
<1>2. request[r] \in Handlers
  BY <1>1, RequestTypes
<1>3. request[r].row \in HandlerRows
  BY <1>2 DEF Handlers
<1>4. request[r].row \in FullRows
  BY <1>1, <1>3 DEF LocalsOf, HandlerRows, FullRows
<1> QED
  BY <1>1, <1>2, <1>4 DEF LocalsOf, Handlers

\* A handler gives up where raft is as it was found.
LEMMA GivesUp ==
    ASSUME IInv, NEW r \in Requests, request[r].pc \in {"decide", "call"}, AfterError(r),
           LeadershipTypeOK', UNCHANGED <<directory, view, raced>>,
           configuration' \in [Nodes -> Servers], torn' \subseteq Nodes,
           \/ UNCHANGED <<configuration, torn>>
           \/ Tears(r) /\ \A n \in Nodes \ {request[r].member} :
                              configuration'[n] = configuration[n],
           AddressInv'
    PROVE  IInv'
<1>1. UnderWay(r)
  BY DEF UnderWay
<1>2. /\ TypeOK /\ request[r] \in Handlers /\ request[r].row \in FullRows
      /\ LocalsOf(r) /\ HandlerOf(r)
  BY <1>1, AtWork DEF IInv
<1>3. PICK m \in Nodes : m = request[r].member
  BY <1>1, AtWork
<1>4. /\ torn \subseteq torn' /\ (m \notin torn' => UNCHANGED <<configuration, torn>>)
      /\ \A n \in Nodes : n # m => (n \in torn' <=> n \in torn)
  BY <1>3 DEF Tears
<1>5. \A n \in Nodes : n # m => configuration'[n] = configuration[n]
  BY <1>3
<1>6. CASE request[r].op = "join"
  <2>1. Goto(r, "rollback")
    BY <1>6 DEF AfterError
  <2>2. /\ request' \in [Requests -> RequestStates]
        /\ \A q \in Requests : q # r => request'[q] = request[q]
        /\ request'[r].pc = "rollback" /\ request'[r].op = "join"
        /\ request'[r].member = m /\ request'[r].row = request[r].row
        /\ request'[r].previous = request[r].previous /\ request'[r].at = request[r].at
    BY <1>2, <1>3, <1>6, <2>1, Went
  <2>3. TypeOK'
    BY <1>2, <2>2 DEF TypeOK
  <2>4. LocalsOf(r)' /\ ChangedOf(r)' /\ UnderWay(r)'
    BY <1>1, <1>2, <1>6, <2>2 DEF LocalsOf, ChangedOf, UnderWay
  <2>5. HandlerOf(r)'
    <3>1. m \notin raced => directory'[m] = request'[r].row
      BY <1>1, <1>2, <1>3, <1>6, <2>2 DEF HandlerOf
    <3>2. m \notin torn' /\ m \notin raced => Agrees(m, request[r].previous)'
      BY <1>1, <1>2, <1>3, <1>4, <1>6, <2>2 DEF HandlerOf, Agrees
    <3> QED
      BY <2>2, <3>1, <3>2 DEF HandlerOf
  <2> QED
    BY <1>1, <1>3, <1>4, <1>5, <2>2, <2>3, <2>4, <2>5, HandlerKeeps
<1>7. CASE request[r].op # "join"
  <2>1. Answer(r)
    BY <1>7 DEF AfterError
  <2>2. /\ request' \in [Requests -> RequestStates]
        /\ request'[r] = NoRequest
        /\ \A q \in Requests : q # r => request'[q] = request[q]
        /\ ~UnderWay(r)' /\ LocalsOf(r)' /\ HandlerOf(r)' /\ ChangedOf(r)'
    BY <1>2, <2>1, Answered
  <2>3. TypeOK'
    BY <1>2, <2>2 DEF TypeOK
  <2>4. Undisturbed(m)' => Agrees(m, directory[m])'
    <3>1. Undisturbed(m)' => Undisturbed(m) /\ UNCHANGED <<configuration, directory>>
      BY <1>4 DEF Undisturbed
    <3>2. Undisturbed(m) => Agrees(m, directory[m])
      BY <1>1, <1>2, <1>3, <1>7 DEF HandlerOf, Undisturbed
    <3> QED
      BY <3>1, <3>2 DEF Agrees
  <2> QED
    BY <1>1, <1>3, <1>4, <1>5, <2>2, <2>3, <2>4, HandlerKeeps
<1> QED
  BY <1>6, <1>7

\* A handler goes on when raft says what its row says.
LEMMA GoesOn ==
    ASSUME IInv, NEW r \in Requests, request[r].pc \in {"decide", "call"}, AfterCall(r),
           LeadershipTypeOK', UNCHANGED <<directory, view, raced>>,
           configuration' \in [Nodes -> Servers],
           \A n \in Nodes \ {request[r].member} : configuration'[n] = configuration[n],
           NEW m \in Nodes, m = request[r].member,
           NEW row, row = request[r].row,
           m \notin raced => Agrees(m, row)',
           UNCHANGED configuration \/ request[r].pc = "call",
           AddressInv'
    PROVE  IInv'
<1>1. UnderWay(r)
  BY DEF UnderWay
<1>2. /\ TypeOK /\ request[r] \in Handlers /\ request[r].row \in FullRows
      /\ LocalsOf(r) /\ HandlerOf(r) /\ ChangedOf(r)
  BY <1>1, AtWork DEF IInv
<1>3. torn \subseteq Nodes
  BY <1>2 DEF TypeOK
<1>6. CASE request[r].op = "join"
  <2>1. Answer(r) /\ torn' = torn \ {m}
    BY <1>6 DEF AfterCall, Mends
  <2>2. /\ request' \in [Requests -> RequestStates]
        /\ request'[r] = NoRequest
        /\ \A q \in Requests : q # r => request'[q] = request[q]
        /\ ~UnderWay(r)' /\ LocalsOf(r)' /\ HandlerOf(r)' /\ ChangedOf(r)'
    BY <1>2, <2>1, Answered
  <2>3. TypeOK'
    BY <1>2, <1>3, <2>1, <2>2 DEF TypeOK
  <2>4. Undisturbed(m)' => Agrees(m, directory[m])'
    <3>1. m \notin raced => directory'[m] = row
      BY <1>1, <1>2, <1>6 DEF HandlerOf
    <3> QED
      BY <3>1 DEF Agrees, Undisturbed
  <2> QED
    BY <1>1, <2>1, <2>2, <2>3, <2>4, HandlerKeeps
<1>7. CASE request[r].op # "join"
  <2>1. Goto(r, "write") /\ torn' = torn
    BY <1>7 DEF AfterCall
  <2>2. /\ request' \in [Requests -> RequestStates]
        /\ \A q \in Requests : q # r => request'[q] = request[q]
        /\ request'[r].pc = "write" /\ request'[r].op = request[r].op
        /\ request'[r].member = m /\ request'[r].row = row
        /\ request'[r].call = request[r].call /\ request'[r].at = request[r].at
    BY <1>2, <2>1, Went
  <2>3. TypeOK'
    BY <1>2, <2>1, <2>2 DEF TypeOK
  <2>4. LocalsOf(r)' /\ ChangedOf(r)' /\ UnderWay(r)'
    BY <1>1, <1>2, <1>7, <2>2 DEF LocalsOf, ChangedOf, UnderWay
  <2>5. HandlerOf(r)'
    <3>1. m \notin raced /\ m \notin torn => \/ request'[r].call # "none"
                                            \/ Agrees(m, directory[m])'
      <4>1. CASE UNCHANGED configuration
        BY <1>1, <1>2, <1>7, <4>1 DEF HandlerOf, Agrees
      <4>2. CASE request[r].pc = "call"
        BY <1>1, <1>2, <2>2, <4>2 DEF LocalsOf
      <4> QED
        BY <4>1, <4>2
    <3> QED
      BY <1>7, <2>1, <2>2, <3>1 DEF HandlerOf, Agrees
  <2> QED
    BY <1>1, <2>1, <2>2, <2>3, <2>4, <2>5, HandlerKeeps
<1> QED
  BY <1>6, <1>7

LEMMA DecideInv ==
    ASSUME IInv, NEW r \in Requests, Decide(r)
    PROVE  IInv'
<1> DEFINE q == request[r]
           call == IF q.op = "remove" THEN CallForRemoval(configuration[q.member])
                                      ELSE CallFor(q.row, configuration[q.member])
<1>1. /\ request[r].pc = "decide" /\ UnderWay(r)
      /\ UNCHANGED <<leadershipVars, directory, configuration, view, raced>>
  BY DEF Decide, At, UnderWay
<1>2. /\ TypeOK /\ LeadershipTypeOK /\ request[r] \in Handlers
      /\ request[r].row \in FullRows
      /\ LocalsOf(r) /\ HandlerOf(r) /\ ChangedOf(r)
  BY <1>1, AtWork DEF IInv
<1>3. PICK m \in Nodes : m = request[r].member
  BY <1>1, AtWork
<1>4. /\ LeadershipTypeOK' /\ AddressInv'
      /\ configuration' \in [Nodes -> Servers] /\ torn \subseteq Nodes
  BY <1>1, <1>2, LeadershipStays DEF TypeOK, IInv, AddressInv
<1>5. CASE AfterError(r) /\ UNCHANGED torn
  BY <1>1, <1>4, <1>5, GivesUp
<1>6. ASSUME ~Objects(q.op, q.member, q.row, configuration[q.member])
      PROVE  q.op # "remove" /\ configuration[m] # Absent =>
                 configuration[m].addr = q.row.addr
  BY <1>2, <1>3, <1>6 DEF Objects, Handlers
<1>7. CASE /\ ~Objects(q.op, q.member, q.row, configuration[q.member])
           /\ call = "none" /\ AfterCall(r)
  <2>1. PICK row \in FullRows : row = request[r].row
    BY <1>2
  <2>2. configuration[m] \in Servers
    BY <1>2 DEF TypeOK
  <2>3. Agrees(m, row)
    <3>1. CASE q.op = "remove"
      BY <1>1, <1>2, <1>3, <1>7, <2>1, <3>1
         DEF CallForRemoval, LocalsOf, Agrees, Active
    <3>2. CASE q.op # "remove"
      <4>1. configuration[m].role = row.role
        BY <1>3, <1>7, <2>1, <3>2 DEF CallFor
      <4>2. configuration[m] # Absent
        BY <2>1, <4>1 DEF FullRows, Roles, Absent
      <4>3. configuration[m] = [role |-> row.role, addr |-> row.addr]
        BY <1>6, <1>7, <2>1, <2>2, <3>2, <4>1, <4>2 DEF Servers
      <4>4. Active(row)
        BY <1>1, <1>2, <2>1, <3>2 DEF LocalsOf, Active
      <4> QED
        BY <4>3, <4>4 DEF Agrees
    <3> QED
      BY <3>1, <3>2
  <2>4. Agrees(m, row)'
    BY <1>1, <2>3 DEF Agrees
  <2> QED
    BY <1>1, <1>3, <1>4, <1>7, <2>1, <2>4, GoesOn
<1>8. CASE /\ ~Objects(q.op, q.member, q.row, configuration[q.member])
           /\ call # "none"
           /\ request' = [request EXCEPT ![r].pc = "call", ![r].call = call]
           /\ UNCHANGED torn
  <2>1. PICK c \in Calls \ {"none"} : c = call
    BY <1>8 DEF CallForRemoval, CallFor, Calls
  <2> DEFINE h == [request[r] EXCEPT !.pc = "call", !.call = c]
  <2>2. h \in Handlers
    BY <1>2 DEF Handlers
  <2>3. request' = [request EXCEPT ![r] = h]
    BY <1>8, <2>1
  <2>4. /\ request' \in [Requests -> RequestStates] /\ request'[r] = h
        /\ \A p \in Requests : p # r => request'[p] = request[p]
    BY <1>2, <2>2, <2>3, HandlerChanges
  <2>5. /\ request'[r].pc = "call" /\ request'[r].call = c
        /\ request'[r].op = request[r].op /\ request'[r].member = m
        /\ request'[r].row = request[r].row /\ request'[r].at = request[r].at
        /\ request'[r].previous = request[r].previous
    BY <1>2, <1>3, <2>4 DEF Handlers
  <2>6. TypeOK'
    BY <1>1, <1>2, <1>4, <1>8, <2>4 DEF TypeOK
  <2>7. LocalsOf(r)' /\ ChangedOf(r)' /\ UnderWay(r)'
    BY <1>1, <1>2, <1>3, <2>1, <2>5 DEF LocalsOf, ChangedOf, UnderWay
  <2>8. HandlerOf(r)'
    <3>1. Suits(request[r])'
      <4>1. request[r].op = "remove" => c = "RemoveServer"
        BY <2>1 DEF CallForRemoval
      <4>2. request[r].op # "remove" =>
                /\ c = CallFor(request[r].row, configuration[m])
                /\ configuration[m] # Absent => configuration[m].addr = request[r].row.addr
        BY <1>3, <1>6, <1>8, <2>1
      <4> QED
        BY <1>1, <2>5, <4>1, <4>2 DEF Suits
    <3>2. m \notin raced =>
              /\ request[r].op = "join" => directory[m] = request[r].row
              /\ m \notin torn => IF request[r].op = "join" THEN Agrees(m, request[r].previous)
                                                            ELSE Agrees(m, directory[m])
      BY <1>1, <1>2, <1>3 DEF HandlerOf
    <3> QED
      BY <1>1, <1>8, <2>5, <3>1, <3>2 DEF HandlerOf, Agrees
  <2> QED
    BY <1>1, <1>3, <1>4, <1>8, <2>4, <2>5, <2>6, <2>7, <2>8, HandlerKeeps
<1> QED
  BY <1>5, <1>7, <1>8 DEF Decide

\* A call that suits takes raft to what the row says.
LEMMA SuitsMakes ==
    ASSUME IInv, NEW r \in Requests, request[r].pc = "call", Suits(request[r]),
           NEW m \in Nodes, m = request[r].member,
           NEW row \in FullRows, row = request[r].row
    PROVE  Changed(configuration, request[r].call, m, row.addr)[m] =
               IF Active(row) THEN [role |-> row.role, addr |-> row.addr] ELSE Absent
<1>1. UnderWay(r)
  BY DEF UnderWay
<1>2. TypeOK /\ LocalsOf(r) /\ configuration \in [Nodes -> Servers]
  BY DEF IInv, TypeOK
<1>3. Active(row) <=> request[r].op # "remove"
  BY <1>1, <1>2 DEF LocalsOf, Active
<1>4. CASE request[r].op = "remove"
  BY <1>2, <1>3, <1>4 DEF Suits, Changed
<1>5. CASE request[r].op # "remove"
  <2>1. /\ request[r].call = CallFor(row, configuration[m]) /\ request[r].call # "none"
        /\ (configuration[m] # Absent => configuration[m].addr = row.addr)
    BY <1>1, <1>2, <1>5 DEF Suits, LocalsOf
  <2>2. configuration[m].role # row.role
    BY <2>1 DEF CallFor
  <2>3. CASE row.role = "voter"
    <3>1. request[r].call = "AddVoter"
      BY <2>1, <2>2, <2>3 DEF CallFor
    <3> QED
      BY <1>2, <1>3, <1>5, <2>3, <3>1 DEF Changed
  <2>4. CASE row.role # "voter" /\ configuration[m].role = "voter"
    <3>1. request[r].call = "DemoteVoter"
      BY <2>1, <2>2, <2>4 DEF CallFor
    <3>2. configuration[m] # Absent
      BY <2>4 DEF Absent
    <3>3. configuration[m] \in [role : Roles, addr : Addresses]
      BY <1>2, <3>2 DEF Servers
    <3>4. [configuration[m] EXCEPT !.role = "nonvoter"] = [role |-> row.role, addr |-> row.addr]
      BY <2>1, <2>4, <3>2, <3>3 DEF FullRows, Roles
    <3>5. Changed(configuration, request[r].call, m, row.addr) =
              [configuration EXCEPT ![m] = [configuration[m] EXCEPT !.role = "nonvoter"]]
      BY <1>2, <3>1, <3>2 DEF Changed
    <3> QED
      BY <1>2, <1>3, <1>5, <3>4, <3>5
  <2>5. CASE row.role # "voter" /\ configuration[m].role # "voter"
    <3>1. request[r].call = "AddNonvoter"
      BY <2>1, <2>2, <2>5 DEF CallFor
    <3>2. row.role = "nonvoter"
      BY <2>5 DEF FullRows, Roles
    <3> QED
      BY <1>2, <1>3, <1>5, <2>5, <3>1, <3>2 DEF Changed
  <2> QED
    BY <2>3, <2>4, <2>5
<1> QED
  BY <1>4, <1>5

\* A valid configuration has no address twice.
LEMMA CallInv ==
    ASSUME IInv, NEW r \in Requests, Call(r)
    PROVE  IInv'
<1>1. /\ request[r].pc = "call" /\ UnderWay(r)
      /\ UNCHANGED <<directory, view, raced>>
  BY DEF Call, At, UnderWay
<1>2. /\ TypeOK /\ LeadershipTypeOK /\ request[r] \in Handlers
      /\ request[r].at \in Nodes
      /\ LocalsOf(r) /\ HandlerOf(r)
  BY <1>1, AtWork DEF IInv
<1>3. PICK m \in Nodes : m = request[r].member
  BY <1>1, AtWork
<1>4. PICK row \in FullRows : row = request[r].row
  BY <1>1, AtWork
<1>5. PICK call \in Calls \ {"none"} : call = request[r].call
  BY <1>1, <1>2 DEF LocalsOf, Handlers
<1>6. PICK conf \in [Nodes -> Servers] :
          /\ conf = Changed(configuration, call, m, row.addr)
          /\ \A n \in Nodes : n # m => conf[n] = configuration[n]
  BY <1>2, <1>4, ChangedTypes DEF FullRows
<1>7. torn \subseteq Nodes /\ configuration \in [Nodes -> Servers] /\ AddressInv
  BY DEF IInv, TypeOK
<1>8. Valid(conf) /\ configuration' = conf => AddressInv'
  BY DEF Valid, AddressInv
<1>9. UNCHANGED configuration => AddressInv'
  BY <1>7 DEF AddressInv
<1>10. CASE CallSucceeds(request[r].at, conf) /\ AfterCall(r)
  <2>1. LeadershipTypeOK' /\ configuration' = conf /\ AddressInv'
    BY <1>2, <1>8, <1>10 DEF CallSucceeds, LeadershipTypeOK
  <2>2. m \notin raced => Agrees(m, row)'
    <3>1. m \notin raced => Suits(request[r])
      BY <1>1, <1>2, <1>3 DEF HandlerOf
    <3>2. m \notin raced =>
              conf[m] = IF Active(row) THEN [role |-> row.role, addr |-> row.addr] ELSE Absent
      BY <1>1, <1>3, <1>4, <1>5, <1>6, <3>1, SuitsMakes
    <3> QED
      BY <2>1, <3>2 DEF Agrees
  <2> QED
    BY <1>1, <1>3, <1>4, <1>6, <1>10, <2>1, <2>2, GoesOn
<1>11. CASE CallFails /\ AfterError(r) /\ UNCHANGED torn
  <2>1. LeadershipTypeOK' /\ AddressInv' /\ UNCHANGED configuration
    BY <1>2, <1>9, <1>11, LeadershipStays DEF CallFails
  <2> QED
    BY <1>1, <1>7, <1>11, <2>1, GivesUp
<1>12. CASE /\ \/ CallIsLost(request[r].at, conf)
               \/ CallIsAbandoned(call, request[r].at, conf)
            /\ AfterError(r)
            /\ Tears(r)
  <2>1. LeadershipTypeOK' /\ Valid(conf) /\ configuration' \in {configuration, conf}
    BY <1>2, <1>12 DEF CallIsLost, CallIsAbandoned, CallSucceeds, LeadershipTypeOK
  <2>2. /\ AddressInv' /\ configuration' \in [Nodes -> Servers]
        /\ \A n \in Nodes \ {m} : configuration'[n] = configuration[n]
    BY <1>6, <1>7, <1>8, <1>9, <2>1
  <2>3. torn' \subseteq Nodes
    BY <1>3, <1>7, <1>12 DEF Tears
  <2> QED
    BY <1>1, <1>3, <1>12, <2>1, <2>2, <2>3, GivesUp
<1> QED
  BY <1>3, <1>4, <1>5, <1>6, <1>10, <1>11, <1>12 DEF Call

\* A handler is through with a row that is written or not.
LEMMA WritesLast ==
    ASSUME IInv, NEW r \in Requests, UnderWay(r), Answer(r),
           LeadershipTypeOK', view' \in Views,
           torn' \in {torn, torn \cup {request[r].member}, torn \ {request[r].member}},
           UNCHANGED <<configuration, raced>>,
           NEW m \in Nodes, m = request[r].member,
           NEW row \in Rows, directory' \in {directory, [directory EXCEPT ![m] = row]},
           Undisturbed(m)' => Agrees(m, directory'[m])
    PROVE  IInv'
<1>1. TypeOK
  BY DEF IInv
<1>2. /\ request' \in [Requests -> RequestStates]
      /\ request'[r] = NoRequest
      /\ \A q \in Requests : q # r => request'[q] = request[q]
      /\ ~UnderWay(r)' /\ LocalsOf(r)' /\ HandlerOf(r)' /\ ChangedOf(r)'
  BY <1>1, Answered
<1>3. /\ directory' \in [Nodes -> Rows]
      /\ \A n \in Nodes : n # m => directory'[n] = directory[n]
  BY <1>1 DEF TypeOK
<1>4. TypeOK'
  BY <1>1, <1>2, <1>3 DEF TypeOK, Views
<1>5. Undisturbed(m)' => Agrees(m, directory[m])'
  BY DEF Undisturbed, Agrees
<1>6. AddressInv'
  BY DEF IInv, AddressInv
<1> QED
  BY <1>2, <1>3, <1>4, <1>5, <1>6, HandlerKeeps

LEMMA WriteRowInv ==
    ASSUME IInv, NEW r \in Requests, WriteRow(r)
    PROVE  IInv'
<1>1. /\ request[r].pc = "write" /\ UnderWay(r)
      /\ UNCHANGED <<configuration, raced>>
  BY DEF WriteRow, At, UnderWay
<1>2. /\ TypeOK /\ LeadershipTypeOK /\ request[r] \in Handlers
      /\ request[r].at \in Nodes
      /\ LocalsOf(r) /\ HandlerOf(r)
  BY <1>1, AtWork DEF IInv
<1>3. PICK m \in Nodes : m = request[r].member
  BY <1>1, AtWork
<1>4. PICK row \in FullRows : row = request[r].row
  BY <1>1, AtWork
<1>5. /\ row \in Rows
      /\ [directory EXCEPT ![m] = row] \in [Nodes -> Rows]
      /\ [directory EXCEPT ![m] = row][m] = row
  BY <1>2, <1>4 DEF FullRows, Rows, TypeOK
<1>6. PutMember(m, row) => directory' = [directory EXCEPT ![m] = row]
  BY DEF PutMember
<1>7. /\ torn \subseteq Nodes
      /\ Tears(r) => torn' = torn \cup {request[r].member}
      /\ Mends(r) => torn' = torn \ {request[r].member}
  BY <1>2 DEF TypeOK, Tears, Mends
<1>8. m \notin raced =>
          /\ request[r].op # "join" => Agrees(m, row)
          /\ m \notin torn =>
                 IF request[r].op = "join"
                 THEN Agrees(m, request[r].previous) /\ directory[m] = request[r].previous
                 ELSE request[r].call # "none" \/ Agrees(m, directory[m])
  BY <1>1, <1>2, <1>3, <1>4 DEF HandlerOf
<1>9. CASE /\ PutMember(m, row) /\ Succeeds(request[r].at)
           /\ request[r].op = "join" /\ Goto(r, "decide") /\ UNCHANGED torn
  <2>1. /\ request' \in [Requests -> RequestStates]
        /\ \A q \in Requests : q # r => request'[q] = request[q]
        /\ request'[r].pc = "decide" /\ request'[r].op = "join"
        /\ request'[r].member = m /\ request'[r].row = row
        /\ request'[r].previous = request[r].previous
        /\ request'[r].call = request[r].call /\ request'[r].at = request[r].at
    BY <1>2, <1>3, <1>4, <1>9, Went
  <2>2. /\ directory' = [directory EXCEPT ![m] = row] /\ directory' \in [Nodes -> Rows]
        /\ \A n \in Nodes : n # m => directory'[n] = directory[n]
    BY <1>2, <1>5, <1>6, <1>9 DEF TypeOK
  <2>3. LeadershipTypeOK' /\ view' \in Views
    BY <1>2, <1>9, <2>2, Applied
  <2>4. TypeOK'
    BY <1>1, <1>2, <1>9, <2>1, <2>2, <2>3 DEF TypeOK, Views
  <2>5. LocalsOf(r)' /\ ChangedOf(r)' /\ UnderWay(r)'
    BY <1>1, <1>2, <1>4, <1>9, <2>1 DEF LocalsOf, ChangedOf, UnderWay
  <2>6. HandlerOf(r)'
    <3>1. /\ directory'[m] = row
          /\ m \notin raced /\ m \notin torn => Agrees(m, request[r].previous)
      BY <1>5, <1>8, <1>9, <2>2
    <3> QED
      BY <1>1, <1>9, <2>1, <3>1 DEF HandlerOf, Agrees
  <2>7. AddressInv'
    BY <1>1 DEF IInv, AddressInv
  <2> QED
    BY <1>1, <1>3, <1>9, <2>1, <2>2, <2>4, <2>5, <2>6, <2>7, HandlerKeeps
<1>10. CASE /\ PutMember(m, row) /\ Answer(r)
            /\ \/ Succeeds(request[r].at) /\ request[r].op # "join" /\ Mends(r)
               \/ /\ FailsCommitted(request[r].at)
                  /\ IF request[r].op = "join" THEN Tears(r) ELSE UNCHANGED torn
  <2>1. directory' = [directory EXCEPT ![m] = row] /\ directory' \in [Nodes -> Rows]
    BY <1>5, <1>6, <1>10
  <2>2. LeadershipTypeOK' /\ view' \in Views
    BY <1>2, <1>10, <2>1, Applied
  <2>3. Undisturbed(m)' => Agrees(m, directory'[m])
    BY <1>1, <1>3, <1>5, <1>6, <1>7, <1>8, <1>10 DEF Undisturbed
  <2> QED
    BY <1>1, <1>3, <1>5, <1>7, <1>10, <2>1, <2>2, <2>3, WritesLast
<1>11. CASE /\ Fails(request[r].at) /\ Answer(r)
            /\ IF request[r].call # "none" THEN Tears(r) ELSE UNCHANGED torn
  <2>1. LeadershipTypeOK' /\ view' \in Views /\ directory' = directory
    BY <1>2, <1>11, NotApplied
  <2>2. Undisturbed(m)' => Agrees(m, directory'[m])
    BY <1>1, <1>3, <1>7, <1>8, <1>11, <2>1 DEF Undisturbed
  <2> QED
    BY <1>1, <1>3, <1>5, <1>7, <1>11, <2>1, <2>2, WritesLast
<1> QED
  BY <1>3, <1>4, <1>9, <1>10, <1>11 DEF WriteRow

LEMMA RollbackInv ==
    ASSUME IInv, NEW r \in Requests, Rollback(r)
    PROVE  IInv'
<1>1. /\ request[r].pc = "rollback" /\ UnderWay(r)
      /\ UNCHANGED <<configuration, raced>> /\ Answer(r)
  BY DEF Rollback, At, UnderWay
<1>2. /\ TypeOK /\ LeadershipTypeOK /\ request[r].row \in FullRows
      /\ request[r].at \in Nodes /\ request[r].previous \in Rows
      /\ LocalsOf(r) /\ HandlerOf(r)
  BY <1>1, AtWork DEF IInv
<1>3. PICK m \in Nodes : m = request[r].member
  BY <1>1, AtWork
<1>4. [request[r].row EXCEPT !.status = "removed"] \in FullRows
  BY <1>2 DEF FullRows
<1>5. PICK row \in Rows :
          row = IF request[r].previous = NoRow
                THEN [request[r].row EXCEPT !.status = "removed"]
                ELSE request[r].previous
  BY <1>2, <1>4 DEF FullRows, Rows
<1>6. Undisturbed(m) => Agrees(m, row)
  <2>1. Undisturbed(m) => Agrees(m, request[r].previous)
    BY <1>1, <1>2, <1>3 DEF HandlerOf, LocalsOf, Undisturbed
  <2>2. CASE request[r].previous = NoRow
    <3>1. ~Active(row) /\ ~Active(NoRow)
      BY <1>2, <1>5, <2>2 DEF Active, NoRow, FullRows
    <3> QED
      BY <2>1, <2>2, <3>1 DEF Agrees
  <2>3. CASE request[r].previous # NoRow
    BY <1>5, <2>1, <2>3
  <2> QED
    BY <2>2, <2>3
<1>7. torn \subseteq Nodes /\ (Tears(r) => torn' = torn \cup {request[r].member})
  BY <1>2 DEF TypeOK, Tears
<1>8. CASE /\ PutMember(m, row) /\ UNCHANGED torn
           /\ Succeeds(request[r].at) \/ FailsCommitted(request[r].at)
  <2>1. /\ directory' = [directory EXCEPT ![m] = row] /\ directory' \in [Nodes -> Rows]
        /\ directory'[m] = row
    BY <1>2, <1>8 DEF PutMember, TypeOK
  <2>2. LeadershipTypeOK' /\ view' \in Views
    BY <1>2, <1>8, <2>1, Applied
  <2>3. Undisturbed(m)' => Agrees(m, directory'[m])
    BY <1>1, <1>6, <1>8, <2>1 DEF Undisturbed
  <2> QED
    BY <1>1, <1>3, <1>8, <2>1, <2>2, <2>3, WritesLast
<1>9. CASE Fails(request[r].at) /\ Tears(r)
  <2>1. LeadershipTypeOK' /\ view' \in Views /\ directory' = directory
    BY <1>2, <1>9, NotApplied
  <2>2. ~Undisturbed(m)'
    BY <1>3, <1>7, <1>9 DEF Undisturbed
  <2> QED
    BY <1>1, <1>3, <1>7, <1>9, <2>1, <2>2, WritesLast
<1> QED
  BY <1>3, <1>5, <1>8, <1>9 DEF Rollback

-----------------------------------------------------------------------------
(* The surroundings                                                        *)

\* Requests are dropped, and what they were about is noted.
LEMMA DroppedInv ==
    ASSUME IInv, LeadershipTypeOK', view' \in Views,
           UNCHANGED <<directory, configuration, raced>>,
           NEW dropped \in SUBSET Requests,
           \A r \in dropped : request[r] \in Handlers,
           request' = [r \in Requests |-> IF r \in dropped THEN NoRequest ELSE request[r]],
           torn' = torn \cup {request[r].member : r \in dropped}
    PROVE  IInv'
<1>1. TypeOK
  BY DEF IInv
<1>2. TypeOK'
  <2>1. request' \in [Requests -> RequestStates]
    BY <1>1 DEF TypeOK, RequestStates
  <2>2. \A r \in dropped : request[r].member \in Nodes
    BY DEF Handlers
  <2> QED
    BY <1>1, <2>1, <2>2 DEF TypeOK, Views
<1>3. \A m \in Nodes : Undisturbed(m)' => Undisturbed(m) /\ \A r \in dropped : request[r].member # m
  BY DEF Undisturbed
<1>4. \A r \in Requests : IF r \in dropped THEN request'[r] = NoRequest /\ ~UnderWay(r)'
                                           ELSE request'[r] = request[r]
  BY DEF UnderWay, NoRequest
<1>5. ASSUME NEW r \in Requests
      PROVE  LocalsOf(r)' /\ HandlerOf(r)' /\ ChangedOf(r)'
  <2>1. CASE r \in dropped
    <3>1. ~UnderWay(r)' /\ request'[r].op # "join"
      BY <1>4, <2>1 DEF NoRequest
    <3> QED
      BY <3>1 DEF LocalsOf, HandlerOf, ChangedOf
  <2>2. CASE r \notin dropped
    <3>1. request'[r] = request[r] /\ LocalsOf(r) /\ HandlerOf(r) /\ ChangedOf(r)
      BY <1>4, <2>2 DEF IInv
    <3>2. LocalsOf(r)' /\ ChangedOf(r)'
      BY <3>1 DEF LocalsOf, ChangedOf, UnderWay
    <3>3. HandlerOf(r)'
      <4>1. torn \subseteq torn'
        OBVIOUS
      <4> QED
        BY <3>1, <4>1 DEF HandlerOf, Agrees, Suits, UnderWay
    <3> QED
      BY <3>2, <3>3
  <2> QED
    BY <2>1, <2>2
<1>6. OneHandler'
  <2> SUFFICES ASSUME NEW p \in Requests, NEW q \in Requests, UnderWay(p)', UnderWay(q)',
                      request'[p].member = request'[q].member
               PROVE  p = q \/ request'[q].member \in raced'
    BY DEF OneHandler
  <2>1. request'[p] = request[p] /\ request'[q] = request[q]
    BY <1>4
  <2> QED
    BY <2>1 DEF IInv, OneHandler, UnderWay
<1>7. RestInv'
  <2> SUFFICES ASSUME NEW m \in Nodes, Undisturbed(m)',
                      \A r \in Requests : UnderWay(r)' => request'[r].member # m
               PROVE  Agrees(m, directory[m])'
    BY DEF RestInv
  <2>1. \A r \in Requests : UnderWay(r) => request[r].member # m
    BY <1>3, <1>4 DEF UnderWay
  <2>2. Agrees(m, directory[m])
    BY <1>3, <2>1 DEF IInv, RestInv
  <2> QED
    BY <2>2 DEF Agrees
<1>8. AddressInv'
  BY DEF IInv, AddressInv
<1> QED
  BY <1>2, <1>5, <1>6, <1>7, <1>8 DEF IInv

\* Nothing is dropped.
LEMMA NoneDropped ==
    ASSUME IInv, LeadershipTypeOK', view' \in Views,
           UNCHANGED <<directory, configuration, request, torn, raced>>
    PROVE  IInv'
<1>1. PICK none \in SUBSET Requests : none = {}
  OBVIOUS
<1>2. request' = [r \in Requests |-> IF r \in none THEN NoRequest ELSE request[r]]
  BY <1>1 DEF IInv, TypeOK
<1>3. torn' = torn \cup {request[r].member : r \in none}
  BY <1>1
<1>4. \A r \in none : request[r] \in Handlers
  BY <1>1
<1> QED
  BY <1>2, <1>3, <1>4, DroppedInv

LEMMA CrashInv ==
    ASSUME IInv, NEW n \in Nodes, Crash(n)
    PROVE  IInv'
<1> DEFINE here == {r \in Requests : request[r].at = n}
<1>1. TypeOK /\ LeadershipTypeOK
  BY DEF IInv, TypeOK
<1>2. LeadershipTypeOK' /\ view' \in Views
  BY <1>1, LeadershipRestarted DEF Crash, TypeOK, Views
<1>3. \A r \in here : request[r] \in Handlers
  BY <1>1, RequestTypes
<1> QED
  BY <1>2, <1>3, DroppedInv DEF Crash

LEMMA SurroundingsInv ==
    ASSUME IInv, NEW n \in Nodes,
           CatchUp(n) \/ Crash(n) \/ ElectLeader(n) \/ HearLeadership(n)
    PROVE  IInv'
<1>1. TypeOK /\ LeadershipTypeOK
  BY DEF IInv, TypeOK
<1>2. CASE CatchUp(n)
  <2>1. LeadershipTypeOK' /\ view' \in Views
    BY <1>1, <1>2, LeadershipStays DEF CatchUp, TypeOK, Views
  <2> QED
    BY <1>2, <2>1, NoneDropped DEF CatchUp
<1>3. CASE Crash(n)
  BY <1>3, CrashInv
<1>4. CASE ElectLeader(n)
  <2>1. LeadershipTypeOK' /\ view' \in Views
    BY <1>1, <1>4, LeadershipElected DEF ElectLeader, TypeOK, Views
  <2> QED
    BY <1>4, <2>1, NoneDropped DEF ElectLeader
<1>5. CASE HearLeadership(n)
  <2>1. LeadershipTypeOK' /\ view' \in Views
    BY <1>1, <1>5, LeadershipHeard DEF HearLeadership, TypeOK, Views
  <2> QED
    BY <1>5, <2>1, NoneDropped DEF HearLeadership
<1> QED
  BY <1>2, <1>3, <1>4, <1>5

-----------------------------------------------------------------------------
(* The invariant                                                           *)

LEMMA InvInit ==
    ASSUME Init
    PROVE  IInv
<1> USE FoundersAssumption DEF FoundersAssumption
<1>1. TypeOK
  <2>1. LeadershipTypeOK
    BY LeadershipStarts DEF Init
  <2>2. /\ directory \in [Nodes -> Rows] /\ configuration \in [Nodes -> Servers]
        /\ view \in [Nodes -> [Nodes -> Rows]]
    BY DEF Init, Rows, Servers, Roles
  <2>3. request \in [Requests -> RequestStates]
    BY DEF Init, RequestStates
  <2> QED
    BY <2>1, <2>2, <2>3 DEF Init, TypeOK
<1>2. \A r \in Requests : ~UnderWay(r) /\ request[r].op # "join"
  BY DEF Init, UnderWay, NoRequest
<1>3. \A r \in Requests : LocalsOf(r) /\ HandlerOf(r) /\ ChangedOf(r)
  BY <1>2 DEF LocalsOf, HandlerOf, ChangedOf
<1>4. \A m \in Nodes : Agrees(m, directory[m])
  BY DEF Init, Agrees, Active, NoRow
<1>5. AddressInv
  <2> SUFFICES ASSUME NEW m \in Nodes, NEW n \in Nodes, m # n, configuration[m] # Absent
               PROVE  configuration[m].addr # configuration[n].addr
    BY DEF AddressInv
  <2>1. m \in Founders /\ configuration[m].addr = HomeAddress[m]
    BY DEF Init
  <2>2. CASE n \in Founders
    BY <2>1, <2>2 DEF Init
  <2>3. CASE n \notin Founders
    <3>1. configuration[n].addr = None
      BY <2>3 DEF Init, Absent
    <3> QED
      BY <2>1, <3>1
  <2> QED
    BY <2>2, <2>3
<1> QED
  BY <1>1, <1>2, <1>3, <1>4, <1>5 DEF IInv, OneHandler, RestInv

LEMMA InvNext ==
    ASSUME IInv, [Next]_vars
    PROVE  IInv'
<1>1. CASE UNCHANGED vars
  <2>1. /\ LeadershipTypeOK' /\ view' \in Views
        /\ UNCHANGED <<directory, configuration, request, torn, raced>>
    BY <1>1, LeadershipStays DEF vars, IInv, TypeOK, Views
  <2> QED
    BY <2>1, NoneDropped
<1>2. ASSUME NEW r \in Requests, Handle(r)
      PROVE  IInv'
  BY <1>2, ReceiveInv, UnavailableInv, BeginJoinInv, BeginChangeInv, RemoveSelfInv,
     DecideInv, CallInv, WriteRowInv, RollbackInv
     DEF Handle
<1> QED
  BY <1>1, <1>2, SurroundingsInv DEF Next

LEMMA Invariance == Spec => []IInv
BY InvInit, InvNext, PTL DEF Spec

-----------------------------------------------------------------------------
(* Theorems                                                                *)

\* The members, their servers and the handlers are what they are taken for.
THEOREM MemberTypes == Spec => []TypeOK
<1>1. IInv => TypeOK
  BY DEF IInv
<1> QED
  BY <1>1, Invariance, PTL

\* When no request is being handled, the directory and raft say the same of
\* every member for which the last request was handled alone and succeeded, or
\* failed without having been interrupted between its two writes: what is left
\* by interrupted or overlapping handlers of JoinMember, UpdateMemberRole and
\* RemoveMember is mended by the next one that succeeds on its own.
THEOREM DirectoryMatchesRaft == Spec => []AgreeUndisturbed
<1>1. ASSUME IInv
      PROVE  AgreeUndisturbed
  <2>1. AtRest => \A m \in Nodes \ (torn \cup raced) : Agrees(m, directory[m])
    BY <1>1 DEF IInv, RestInv, AtRest, Undisturbed
  <2> QED
    BY <2>1 DEF AgreeUndisturbed, Agrees, Agree
<1> QED
  BY <1>1, Invariance, PTL

\* Two active members never have one address, with the same exception, since
\* raft refuses the second of two joins that both passed normalizeJoinCandidate.
THEOREM AddressesToldApart == Spec => []AddressesDistinct
<1>1. ASSUME IInv
      PROVE  AddressesDistinct
  <2> SUFFICES ASSUME AtRest, NEW m \in Nodes \ (torn \cup raced),
                      NEW n \in Nodes \ (torn \cup raced),
                      m # n, Active(directory[m]), Active(directory[n])
               PROVE  directory[m].addr # directory[n].addr
    BY DEF AddressesDistinct
  <2>1. Agrees(m, directory[m]) /\ Agrees(n, directory[n])
    BY <1>1 DEF IInv, RestInv, AtRest, Undisturbed
  <2>2. directory[m] \in FullRows
    BY <1>1 DEF IInv, TypeOK, Rows, NoRow, Active, FullRows
  <2>3. configuration[m] # Absent
    BY <2>1, <2>2 DEF Agrees, Absent, FullRows, Roles
  <2>4. /\ configuration[m].addr = directory[m].addr
        /\ configuration[n].addr = directory[n].addr
    BY <2>1 DEF Agrees
  <2> QED
    BY <1>1, <2>3, <2>4 DEF IInv, AddressInv
<1> QED
  BY <1>1, Invariance, PTL

\* A removed member is active again only through a join that writes its row, and
\* in raft again only after that, unless its last handlers overlapped: no change
\* of role, no rollback and no call brings it back.
THEOREM RemovedStaysRemoved == Spec => RemovedComesBackByJoin
<1> DEFINE Back == \A m \in Nodes \ raced :
               LET JoinIs(steps) == \E r \in Requests :
                       /\ request[r].op = "join" /\ request[r].member = m
                       /\ request[r].pc \in steps
               IN  directory[m].status = "removed" =>
                       /\ Active(directory'[m]) => JoinIs({"write"})
                       /\ configuration[m] = Absent => configuration'[m] = Absent
<1>1. ASSUME IInv, [Next]_vars
      PROVE  Back
  <2> SUFFICES ASSUME NEW m \in Nodes, directory[m].status = "removed", m \notin raced
               PROVE  /\ Active(directory'[m]) =>
                             \E r \in Requests : /\ request[r].op = "join" /\ request[r].member = m
                                                 /\ request[r].pc = "write"
                      /\ configuration[m] = Absent => configuration'[m] = Absent
    OBVIOUS
  <2>1. ~Active(directory[m])
    BY DEF Active
  <2>2. ASSUME Active(directory'[m])
        PROVE  \E r \in Requests : /\ request[r].op = "join" /\ request[r].member = m
                                   /\ request[r].pc = "write"
    <3>1. PICK r \in Requests : WriteRow(r) \/ Rollback(r)
      BY <1>1, <2>1, <2>2 DEF Next, vars, Handle, Receive, Unavailable, BeginJoin, BeginChange,
                              RemoveSelf, Decide, Call, CatchUp, Crash, ElectLeader, HearLeadership
    <3>2. UnderWay(r) /\ request[r].pc \in {"write", "rollback"}
      BY <3>1 DEF WriteRow, Rollback, At, UnderWay
    <3>3. request[r].member = m
      BY <1>1, <2>1, <2>2, <3>1 DEF WriteRow, Rollback, PutMember, Fails, IInv, TypeOK
    <3>4. request[r].op = "join"
      BY <1>1, <2>1, <3>2, <3>3 DEF IInv, ChangedOf
    <3>5. request[r].pc # "rollback"
      <4> SUFFICES ASSUME request[r].pc = "rollback"
                   PROVE  FALSE
        OBVIOUS
      <4>1. directory[m] = request[r].row /\ request[r].row.status = "active"
        BY <1>1, <3>2, <3>3, <3>4 DEF IInv, HandlerOf, LocalsOf
      <4> QED
        BY <2>1, <4>1 DEF Active
    <3> QED
      BY <3>2, <3>3, <3>4, <3>5
  <2>3. ASSUME configuration[m] = Absent, configuration'[m] # Absent
        PROVE  FALSE
    <3>1. PICK r \in Requests : Call(r)
      BY <1>1, <2>3 DEF Next, vars, Handle, Receive, Unavailable, BeginJoin, BeginChange,
                        RemoveSelf, Decide, WriteRow, Rollback, CatchUp, Crash, ElectLeader,
                        HearLeadership
    <3>2. UnderWay(r) /\ request[r].pc = "call"
      BY <3>1 DEF Call, At, UnderWay
    <3>3. PICK k \in Nodes : k = request[r].member
      BY <1>1, <3>2, AtWork
    <3>4. PICK row \in FullRows : row = request[r].row
      BY <1>1, <3>2, AtWork
    <3>5. PICK call \in Calls \ {"none"} : call = request[r].call
      BY <1>1, <3>2, AtWork DEF IInv, LocalsOf, Handlers
    <3>6. configuration' \in {configuration, Changed(configuration, call, k, row.addr)}
      BY <3>1, <3>3, <3>4, <3>5
         DEF Call, CallSucceeds, CallFails, CallIsLost, CallIsAbandoned
    <3>7. k = m
      BY <1>1, <2>3, <3>4, <3>6, ChangedTypes DEF IInv, FullRows
    <3>8. request[r].op = "remove" /\ Suits(request[r])
      BY <1>1, <2>1, <3>2, <3>3, <3>4, <3>7
         DEF IInv, ChangedOf, HandlerOf, LocalsOf, Active
    <3>9. call = "RemoveServer"
      BY <3>5, <3>8 DEF Suits
    <3> QED
      BY <1>1, <2>3, <3>6, <3>7, <3>9 DEF Changed, IInv, TypeOK
  <2> QED
    BY <2>2, <2>3
<1> QED
  BY <1>1, Invariance, PTL DEF Spec, RemovedComesBackByJoin

=============================================================================
