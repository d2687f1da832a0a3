------------------------- MODULE IngressSyncProofs -------------------------
(***************************************************************************)
(* Theorems about IngressSync, for every set of nodes and candidates, every*)
(* order among them, every schedule of attempts and every bound.           *)
(*                                                                         *)
(* Within a term raft has one leader, and only a leader writes.  So what   *)
(* the leader has read since its evaluation is true until it writes, and   *)
(* what it has announced stays announced until it moves the record, as     *)
(* long as no tick goes on writing in a term that is not its own.          *)
(***************************************************************************)
EXTENDS IngressSync, LeadershipProofs

\* A tick that has announced its target, and one that began in this term.
Late(n) == tick[n].pc \in {"update", "giveUp", "confirm"}
InTerm(n) == tick[n].term = term

LocalsOf(n) ==
    /\ tick[n].term <= term
    /\ tick[n].pc \in {"announce", "update", "giveUp", "confirm"} => tick[n].target \in Nodes
    /\ tick[n].pc \in {"idle", "assess", "read", "announce"} => tick[n].failures = 0
    /\ tick[n].pc = "update" => tick[n].failures < Attempts

\* A leader in its own term knows that it leads, has a replica that is up to
\* date when it reads, and chooses by what the rows still are.
ViewOf(n) ==
    ~At(n, "idle") /\ InTerm(n) /\ raftLeader = n =>
        /\ isLeader[n]
        /\ At(n, "read") => view[n] = Rows
        /\ At(n, "announce") => IsTarget(tick[n].target, n, condition, ingress.active)

\* What it has announced is in the row, and the record follows.
LateOf(n) ==
    Late(n) /\ InTerm(n) =>
        /\ raftLeader \in {n, None}
        /\ ingress = [active |-> tick[n].target, dns |-> "pending"]
        /\ At(n, "confirm") /\ DNSEnabled => record = tick[n].target

LateAlone ==
    \A m, n \in Nodes : Late(m) /\ InTerm(m) /\ Late(n) /\ InTerm(n) => m = n

SyncedInv == DNSEnabled /\ ingress.dns = "synced" => record = ingress.active

IInv ==
    /\ TypeOK
    /\ \A n \in Nodes : LocalsOf(n) /\ ViewOf(n)
    /\ straddled \/ (LateAlone /\ SyncedInv /\ \A n \in Nodes : LateOf(n))

-----------------------------------------------------------------------------
USE NodesAssumption, MaxTermAssumption, CandidatesAssumption, AttemptsAssumption
  DEF NodesAssumption, MaxTermAssumption, CandidatesAssumption, AttemptsAssumption

(* The outcomes of an Apply                                                *)

Views == [Nodes -> [condition : Conditions, ingress : IngressStates]]

LEMMA ReplicatesTypes ==
    ASSUME TypeOK, condition' \in Conditions, ingress' \in IngressStates,
           NEW first \in SUBSET Nodes, Replicates(first)
    PROVE  view' \in Views /\ \A n \in first : view'[n] = Rows'
<1>1. Rows' \in [condition : Conditions, ingress : IngressStates]
  BY DEF Rows
<1>2. PICK behind \in SUBSET (Nodes \ first) :
          view' = [n \in Nodes |-> IF n \in behind THEN view[n] ELSE Rows']
  BY DEF Replicates
<1>3. view \in Views
  BY DEF TypeOK, Views
<1>4. \A n \in Nodes : (IF n \in behind THEN view[n] ELSE Rows')
                           \in [condition : Conditions, ingress : IngressStates]
  BY <1>1, <1>3 DEF Views
<1>5. view' \in Views
  BY <1>2, <1>4 DEF Views
<1> QED
  BY <1>2, <1>5

LEMMA Straddles ==
    ASSUME TypeOK, NEW n \in Nodes, NotesTerm(n)
    PROVE  /\ straddled' \in BOOLEAN
           /\ straddled' <=> straddled \/ ~InTerm(n)
<1>1. straddled' = (straddled \/ ~InTerm(n))
  BY DEF NotesTerm, InTerm
<1> QED
  BY <1>1, Zenon

LEMMA Success ==
    ASSUME TypeOK, condition' \in Conditions, ingress' \in IngressStates,
           NEW n \in Nodes, Succeeds(n)
    PROVE  /\ LeadershipTypeOK' /\ view' \in Views /\ straddled' \in BOOLEAN
           /\ straddled' <=> straddled \/ ~InTerm(n)
           /\ raftLeader = n /\ UNCHANGED <<raftLeader, term, isLeader>>
           /\ view'[n] = Rows'
<1>1. Committed(n) /\ Replicates({n}) /\ NotesTerm(n)
  BY DEF Succeeds
<1>2. LeadershipTypeOK' /\ raftLeader = n /\ UNCHANGED <<raftLeader, term, isLeader>>
  BY <1>1, LeadershipStays DEF Committed, Accepts, TypeOK, leadershipVars
<1> QED
  BY <1>1, <1>2, ReplicatesTypes, Straddles

LEMMA FailureCommitted ==
    ASSUME TypeOK, condition' \in Conditions, ingress' \in IngressStates,
           NEW n \in Nodes, FailsCommitted(n)
    PROVE  /\ LeadershipTypeOK' /\ view' \in Views /\ straddled' \in BOOLEAN
           /\ straddled' <=> straddled \/ ~InTerm(n)
           /\ raftLeader = n /\ raftLeader' = None /\ UNCHANGED <<term, isLeader>>
<1>1. Deposed(n) /\ Replicates({}) /\ NotesTerm(n)
  BY DEF FailsCommitted
<1>2. LeadershipTypeOK' /\ raftLeader = n /\ raftLeader' = None /\ UNCHANGED <<term, isLeader>>
  BY <1>1, LeadershipDeposed DEF Deposed, Accepts, TypeOK
<1> QED
  BY <1>1, <1>2, ReplicatesTypes, Straddles

LEMMA Failure ==
    ASSUME TypeOK, NEW n \in Nodes, Fails(n)
    PROVE  /\ LeadershipTypeOK' /\ UNCHANGED <<condition, ingress, view, straddled>>
           /\ UNCHANGED <<term, isLeader>>
           /\ \/ raftLeader' = raftLeader /\ ~(isLeader[n] /\ raftLeader = n)
              \/ raftLeader' = None
<1>1. UNCHANGED <<condition, ingress, view, straddled>>
  BY DEF Fails, rows
<1>2. CASE Refused(n)
  BY <1>1, <1>2, LeadershipStays DEF Refused, Accepts, leadershipVars, TypeOK
<1>3. CASE Deposed(n)
  BY <1>1, <1>3, LeadershipDeposed DEF Deposed, TypeOK
<1> QED
  BY <1>2, <1>3 DEF Fails

-----------------------------------------------------------------------------
(* One step of the loop of n: the other nodes                              *)

\* What it takes for a step of n to keep what is said of all of them.
LEMMA LoopKeeps ==
    ASSUME IInv, TypeOK', NEW n \in Nodes,
           \A m \in Nodes : m # n => tick'[m] = tick[m],
           term' = term, isLeader' = isLeader, raftLeader' \in {raftLeader, None},
           UNCHANGED <<condition, ingress, view>> \/ raftLeader = n,
           straddled => straddled',
           record' = record \/ straddled' \/ (Late(n) /\ InTerm(n)),
           LocalsOf(n)', ViewOf(n)',
           straddled' \/ LateOf(n)',
           straddled' \/ SyncedInv',
           Late(n)' /\ InTerm(n)' => (Late(n) /\ InTerm(n)) \/ raftLeader = n
    PROVE  IInv'
<1>1. ASSUME NEW m \in Nodes, m # n
      PROVE  LocalsOf(m)' /\ ViewOf(m)'
  <2>1. tick'[m] = tick[m] /\ LocalsOf(m) /\ ViewOf(m)
    BY <1>1 DEF IInv
  <2>2. LocalsOf(m)'
    BY <2>1 DEF LocalsOf
  <2>3. ViewOf(m)'
    <3> SUFFICES ASSUME ~At(m, "idle"), InTerm(m), raftLeader' = m
                 PROVE  /\ isLeader[m]
                        /\ At(m, "read") => view'[m] = Rows'
                        /\ At(m, "announce") =>
                               IsTarget(tick[m].target, m, condition', ingress'.active)
      BY <2>1 DEF ViewOf, At, InTerm, IsTarget, Eligible, SortsBefore
    <3>1. raftLeader = m
      OBVIOUS
    <3>2. UNCHANGED <<condition, ingress, view>>
      BY <1>1, <3>1
    <3> QED
      BY <2>1, <3>1, <3>2 DEF ViewOf, Rows
  <2> QED
    BY <2>2, <2>3
<1>2. CASE straddled'
  BY <1>1, <1>2 DEF IInv
<1>3. CASE ~straddled'
  <2>1. LateAlone /\ \A m \in Nodes : LateOf(m)
    BY <1>3 DEF IInv
  <2>2. ASSUME NEW m \in Nodes, m # n, Late(m)', InTerm(m)'
        PROVE  /\ Late(m) /\ InTerm(m) /\ raftLeader \in {m, None}
               /\ ~(Late(n) /\ InTerm(n)) /\ raftLeader # n
               /\ LateOf(m)'
    <3>1. Late(m) /\ InTerm(m) /\ tick'[m] = tick[m]
      BY <2>2 DEF Late, InTerm
    <3>2. /\ raftLeader \in {m, None}
          /\ ingress = [active |-> tick[m].target, dns |-> "pending"]
          /\ At(m, "confirm") /\ DNSEnabled => record = tick[m].target
      BY <2>1, <3>1 DEF LateOf
    <3>3. ~(Late(n) /\ InTerm(n)) /\ raftLeader # n
      BY <2>1, <2>2, <3>1, <3>2 DEF LateAlone
    <3>4. UNCHANGED <<condition, ingress, view, record>>
      BY <1>3, <3>3
    <3> QED
      BY <3>1, <3>2, <3>3, <3>4 DEF LateOf, At
  <2>3. \A m \in Nodes : LateOf(m)'
    BY <1>3, <2>2 DEF LateOf
  <2>4. LateAlone'
    <3> SUFFICES ASSUME NEW l \in Nodes, NEW m \in Nodes,
                        Late(l)', InTerm(l)', Late(m)', InTerm(m)'
                 PROVE  l = m
      BY DEF LateAlone
    <3>1. CASE l # n /\ m # n
      BY <2>1, <2>2, <3>1 DEF LateAlone
    <3>2. CASE l = n /\ m # n
      BY <2>2, <3>2
    <3>3. CASE l # n /\ m = n
      BY <2>2, <3>3
    <3> QED
      BY <3>1, <3>2, <3>3
  <2> QED
    BY <1>1, <1>3, <2>3, <2>4 DEF IInv
<1> QED
  BY <1>2, <1>3

-----------------------------------------------------------------------------
(* The steps of the loop                                                   *)

LEMMA TickTypes ==
    ASSUME TypeOK, NEW n \in Nodes
    PROVE  /\ tick \in [Nodes -> Ticks] /\ tick[n] \in Ticks
           /\ tick[n].term \in Nat /\ tick[n].failures \in Nat
           /\ term \in 0..MaxTerm /\ straddled \in BOOLEAN
           /\ raftLeader \in Nodes \cup {None}
BY DEF TypeOK, LeadershipTypeOK, Ticks

\* A step of n to another place in the tick, or to its end.
LEMMA Gone ==
    ASSUME TypeOK, NEW n \in Nodes,
           NEW step \in {"idle", "assess", "read", "announce", "update", "giveUp", "confirm"},
           Goto(n, step)
    PROVE  /\ tick' \in [Nodes -> Ticks]
           /\ \A m \in Nodes : m # n => tick'[m] = tick[m]
           /\ tick'[n].pc = step /\ tick'[n].term = tick[n].term
           /\ tick'[n].target = tick[n].target /\ tick'[n].failures = tick[n].failures
BY TickTypes DEF Goto, Ticks

LEMMA Returned ==
    ASSUME TypeOK, term' \in Nat, NEW n \in Nodes, Return(n)
    PROVE  /\ tick' \in [Nodes -> Ticks]
           /\ \A m \in Nodes : m # n => tick'[m] = tick[m]
           /\ tick'[n].pc = "idle" /\ tick'[n].term = 0 /\ tick'[n].failures = 0
           /\ LocalsOf(n)' /\ ViewOf(n)' /\ LateOf(n)' /\ ~Late(n)'
<1>1. NoTick \in Ticks
  BY DEF NoTick, Ticks
<1>2. tick' \in [Nodes -> Ticks] /\ tick'[n] = NoTick
      /\ \A m \in Nodes : m # n => tick'[m] = tick[m]
  BY <1>1, TickTypes DEF Return
<1> QED
  BY <1>2 DEF NoTick, LocalsOf, ViewOf, LateOf, Late, At

LEMMA BeginInv ==
    ASSUME IInv, NEW n \in Nodes, BeginTick(n)
    PROVE  IInv'
<1>1. TypeOK /\ LocalsOf(n)
  BY DEF IInv
<1>2. /\ UNCHANGED <<raftLeader, term, isLeader, condition, ingress, record, view, straddled>>
      /\ isLeader[n] /\ tick[n].pc = "idle"
  BY DEF BeginTick, leadershipVars, rows, At
<1>3. /\ tick' \in [Nodes -> Ticks]
      /\ \A m \in Nodes : m # n => tick'[m] = tick[m]
      /\ tick'[n].pc = "assess" /\ tick'[n].term = term
      /\ tick'[n].failures = tick[n].failures
  BY <1>1, TickTypes DEF BeginTick, Ticks
<1>4. TypeOK'
  BY <1>1, <1>2, <1>3 DEF TypeOK, LeadershipTypeOK
<1>5. LocalsOf(n)' /\ ViewOf(n)' /\ LateOf(n)' /\ ~Late(n)'
  BY <1>1, <1>2, <1>3, TickTypes DEF LocalsOf, ViewOf, LateOf, Late, At
<1>6. straddled' \/ SyncedInv'
  BY <1>2 DEF IInv, SyncedInv
<1> QED
  BY <1>2, <1>3, <1>4, <1>5, <1>6, LoopKeeps

LEMMA EvaluateInv ==
    ASSUME IInv, NEW n \in Nodes, EvaluateNodes(n)
    PROVE  IInv'
<1>1. TypeOK /\ LocalsOf(n) /\ ViewOf(n)
  BY DEF IInv
<1>2. Goto(n, "read") /\ record' = record /\ tick[n].pc = "assess"
  BY DEF EvaluateNodes, At
<1>3. /\ tick' \in [Nodes -> Ticks]
      /\ \A m \in Nodes : m # n => tick'[m] = tick[m]
      /\ tick'[n].pc = "read" /\ tick'[n].term = tick[n].term
      /\ tick'[n].failures = tick[n].failures
  BY <1>1, <1>2, Gone
<1>4. condition' \in Conditions /\ ingress' = ingress /\ ingress' \in IngressStates
  <2>1. CASE Fails(n)
    BY <1>1, <2>1, Failure DEF TypeOK
  <2>2. CASE ~Fails(n)
    BY <1>1, <2>2 DEF EvaluateNodes, TypeOK
  <2> QED
    BY <2>1, <2>2
<1>5. /\ LeadershipTypeOK' /\ view' \in Views /\ straddled' \in BOOLEAN
      /\ UNCHANGED <<term, isLeader>> /\ raftLeader' \in {raftLeader, None}
      /\ straddled => straddled'
      /\ UNCHANGED <<condition, ingress, view>> \/ raftLeader = n
      /\ InTerm(n) /\ raftLeader' = n => isLeader[n] /\ view'[n] = Rows'
  <2>1. CASE Succeeds(n)
    <3>1. InTerm(n) /\ raftLeader = n => isLeader[n]
      BY <1>1, <1>2 DEF ViewOf, At
    <3> QED
      BY <1>1, <1>4, <2>1, <3>1, Success
  <2>2. CASE FailsCommitted(n)
    BY <1>1, <1>4, <2>2, FailureCommitted
  <2>3. CASE Fails(n)
    <3>1. InTerm(n) /\ raftLeader = n => isLeader[n]
      BY <1>1, <1>2 DEF ViewOf, At
    <3>2. view \in Views /\ straddled \in BOOLEAN
      BY <1>1 DEF TypeOK, Views
    <3> QED
      BY <1>1, <2>3, <3>1, <3>2, Failure
  <2> QED
    BY <2>1, <2>2, <2>3 DEF EvaluateNodes
<1>6. TypeOK'
  BY <1>1, <1>2, <1>3, <1>4, <1>5 DEF TypeOK, Views
<1>7. LocalsOf(n)' /\ ViewOf(n)' /\ LateOf(n)' /\ ~Late(n)'
  BY <1>1, <1>2, <1>3, <1>5 DEF LocalsOf, ViewOf, LateOf, Late, At, InTerm
<1>8. straddled' \/ SyncedInv'
  BY <1>2, <1>4, <1>5 DEF IInv, SyncedInv
<1> QED
  BY <1>2, <1>3, <1>5, <1>6, <1>7, <1>8, LoopKeeps

LEMMA ReadInv ==
    ASSUME IInv, NEW n \in Nodes, ReadIngress(n)
    PROVE  IInv'
<1>1. TypeOK /\ LocalsOf(n) /\ ViewOf(n)
  BY DEF IInv
<1>2. /\ UNCHANGED <<raftLeader, term, isLeader, condition, ingress, record, view, straddled>>
      /\ tick[n].pc = "read"
  BY DEF ReadIngress, leadershipVars, rows, At
<1>3. straddled' \/ SyncedInv'
  BY <1>2 DEF IInv, SyncedInv
<1>4. CASE Return(n)
  <2>1. term' \in Nat
    BY <1>1, <1>2, TickTypes
  <2>2. TypeOK'
    BY <1>1, <1>2, <1>4, <2>1, Returned DEF TypeOK, LeadershipTypeOK
  <2> QED
    BY <1>1, <1>2, <1>3, <1>4, <2>1, <2>2, Returned, LoopKeeps
<1>5. CASE ~Return(n)
  <2>1. PICK t \in Nodes :
            /\ IsTarget(t, n, view[n].condition, view[n].ingress.active)
            /\ tick' = [tick EXCEPT ![n].pc = "announce", ![n].target = t]
    BY <1>5 DEF ReadIngress
  <2>2. /\ tick' \in [Nodes -> Ticks]
        /\ \A m \in Nodes : m # n => tick'[m] = tick[m]
        /\ tick'[n].pc = "announce" /\ tick'[n].term = tick[n].term
        /\ tick'[n].target = t /\ tick'[n].failures = tick[n].failures
    BY <1>1, <2>1, TickTypes DEF Ticks
  <2>3. TypeOK'
    BY <1>1, <1>2, <2>2 DEF TypeOK, LeadershipTypeOK
  <2>4. LocalsOf(n)' /\ LateOf(n)' /\ ~Late(n)'
    BY <1>1, <1>2, <2>2 DEF LocalsOf, LateOf, Late, At
  <2>5. ViewOf(n)'
    <3> SUFFICES ASSUME InTerm(n), raftLeader = n
                 PROVE  isLeader[n] /\ IsTarget(t, n, condition, ingress.active)
      BY <1>2, <2>2 DEF ViewOf, At, InTerm, IsTarget, Eligible, SortsBefore
    <3>1. isLeader[n] /\ view[n] = Rows
      BY <1>1, <1>2 DEF ViewOf, At
    <3>2. view[n].condition = condition /\ view[n].ingress = ingress
      BY <3>1 DEF Rows
    <3> QED
      BY <2>1, <3>1, <3>2
  <2> QED
    BY <1>2, <1>3, <2>2, <2>3, <2>4, <2>5, LoopKeeps
<1> QED
  BY <1>4, <1>5

\* The row that n writes about its target.
LEMMA PutTypes ==
    ASSUME TypeOK, NEW n \in Nodes, tick[n].target \in Nodes,
           NEW dns \in {"pending", "failed", "synced"}, PutIngress(tick[n].target, dns)
    PROVE  /\ condition' = condition /\ condition' \in Conditions
           /\ ingress' = [active |-> tick[n].target, dns |-> dns]
           /\ ingress' \in IngressStates
BY DEF PutIngress, TypeOK, IngressStates

LEMMA AnnounceInv ==
    ASSUME IInv, NEW n \in Nodes, AnnounceTarget(n)
    PROVE  IInv'
<1>1. TypeOK /\ LocalsOf(n) /\ ViewOf(n)
  BY DEF IInv
<1>2. record' = record /\ tick[n].pc = "announce" /\ tick[n].target \in Nodes
  BY <1>1 DEF AnnounceTarget, At, LocalsOf
<1>3. CASE /\ PutIngress(tick[n].target, "pending")
           /\ Succeeds(n)
           /\ tick' = [tick EXCEPT ![n].pc = IF DNSEnabled THEN "update" ELSE "confirm"]
  <2>1. /\ condition' = condition /\ condition' \in Conditions
        /\ ingress' = [active |-> tick[n].target, dns |-> "pending"]
        /\ ingress' \in IngressStates
    BY <1>1, <1>2, <1>3, PutTypes
  <2>2. /\ LeadershipTypeOK' /\ view' \in Views /\ straddled' \in BOOLEAN
        /\ straddled' <=> straddled \/ ~InTerm(n)
        /\ raftLeader = n /\ UNCHANGED <<raftLeader, term, isLeader>>
    BY <1>1, <1>3, <2>1, Success
  <2>3. /\ tick' \in [Nodes -> Ticks]
        /\ \A m \in Nodes : m # n => tick'[m] = tick[m]
        /\ tick'[n].pc = IF DNSEnabled THEN "update" ELSE "confirm"
        /\ tick'[n].term = tick[n].term
        /\ tick'[n].target = tick[n].target /\ tick'[n].failures = tick[n].failures
    BY <1>1, <1>3, TickTypes DEF Ticks
  <2>4. TypeOK'
    BY <1>1, <1>2, <2>1, <2>2, <2>3 DEF TypeOK, Views
  <2>5. LocalsOf(n)'
    BY <1>1, <1>2, <2>2, <2>3 DEF LocalsOf
  <2>6. ViewOf(n)'
    BY <1>1, <1>2, <2>2, <2>3 DEF ViewOf, At, InTerm
  <2>7. LateOf(n)' /\ SyncedInv'
    BY <2>1, <2>2, <2>3 DEF LateOf, SyncedInv, Late, At
  <2> QED
    BY <1>2, <2>2, <2>3, <2>4, <2>5, <2>6, <2>7, LoopKeeps
<1>4. CASE Return(n) /\ (Fails(n) \/ (PutIngress(tick[n].target, "pending") /\ FailsCommitted(n)))
  <2>1. /\ condition' \in Conditions /\ ingress' \in IngressStates
        /\ LeadershipTypeOK' /\ view' \in Views /\ straddled' \in BOOLEAN
        /\ UNCHANGED <<term, isLeader>> /\ raftLeader' \in {raftLeader, None}
        /\ straddled => straddled'
        /\ UNCHANGED <<condition, ingress, view>> \/ raftLeader = n
        /\ ingress' = ingress \/ ingress'.dns = "pending"
    <3>1. CASE Fails(n)
      BY <1>1, <3>1, Failure DEF TypeOK, Views
    <3>2. CASE PutIngress(tick[n].target, "pending") /\ FailsCommitted(n)
      <4>1. /\ condition' \in Conditions /\ ingress' \in IngressStates
            /\ ingress' = [active |-> tick[n].target, dns |-> "pending"]
        BY <1>1, <1>2, <3>2, PutTypes
      <4> QED
        BY <1>1, <3>2, <4>1, FailureCommitted
    <3> QED
      BY <1>4, <3>1, <3>2
  <2>2. term' \in Nat
    BY <1>1, <2>1, TickTypes
  <2>3. TypeOK'
    BY <1>1, <1>2, <1>4, <2>1, <2>2, Returned DEF TypeOK, Views
  <2>4. straddled' \/ SyncedInv'
    BY <1>2, <2>1 DEF IInv, SyncedInv
  <2> QED
    BY <1>1, <1>2, <1>4, <2>1, <2>2, <2>3, <2>4, Returned, LoopKeeps
<1>5. \/ /\ PutIngress(tick[n].target, "pending")
         /\ Succeeds(n)
         /\ tick' = [tick EXCEPT ![n].pc = IF DNSEnabled THEN "update" ELSE "confirm"]
      \/ Return(n) /\ (Fails(n) \/ (PutIngress(tick[n].target, "pending") /\ FailsCommitted(n)))
  BY SMT DEF AnnounceTarget, Goto
<1> QED
  BY <1>3, <1>4, <1>5

LEMMA UpdateInv ==
    ASSUME IInv, NEW n \in Nodes, UpdateRecord(n)
    PROVE  IInv'
<1>1. TypeOK /\ LocalsOf(n) /\ ViewOf(n)
  BY DEF IInv
<1>2. /\ tick[n].pc = "update" /\ tick[n].target \in Nodes
      /\ record' = tick[n].target
      /\ UNCHANGED <<raftLeader, term, isLeader, condition, ingress, view>>
      /\ straddled' \in BOOLEAN
      /\ straddled' <=> straddled \/ ~InTerm(n)
  BY <1>1, Straddles DEF UpdateRecord, At, LocalsOf, leadershipVars, rows
<1>3. /\ tick' \in [Nodes -> Ticks]
      /\ \A m \in Nodes : m # n => tick'[m] = tick[m]
      /\ tick'[n].pc = "confirm" /\ tick'[n].term = tick[n].term
      /\ tick'[n].target = tick[n].target
  BY <1>1, Gone DEF UpdateRecord
<1>4. TypeOK'
  BY <1>1, <1>2, <1>3 DEF TypeOK, LeadershipTypeOK
<1>5. LocalsOf(n)' /\ ViewOf(n)'
  BY <1>1, <1>2, <1>3 DEF LocalsOf, ViewOf, At, InTerm
<1>6. straddled' \/ (Late(n) /\ InTerm(n) /\ LateOf(n)' /\ SyncedInv')
  <2> SUFFICES ASSUME ~straddled'
               PROVE  Late(n) /\ InTerm(n) /\ LateOf(n)' /\ SyncedInv'
    OBVIOUS
  <2>1. Late(n) /\ InTerm(n) /\ LateOf(n)
    BY <1>2 DEF IInv, Late
  <2> QED
    BY <1>2, <1>3, <2>1 DEF LateOf, SyncedInv, At
<1>7. Late(n)
  BY <1>2 DEF Late
<1>8. InTerm(n)' => InTerm(n)
  BY <1>2, <1>3 DEF InTerm
<1> QED
  BY <1>2, <1>3, <1>4, <1>5, <1>6, <1>7, <1>8, LoopKeeps

LEMMA FailRecordInv ==
    ASSUME IInv, NEW n \in Nodes, FailRecord(n)
    PROVE  IInv'
<1>1. TypeOK /\ LocalsOf(n) /\ ViewOf(n)
  BY DEF IInv
<1>2. /\ tick[n].pc = "update" /\ tick[n].target \in Nodes /\ tick[n].failures < Attempts
      /\ UNCHANGED <<raftLeader, term, isLeader, condition, ingress, view>>
      /\ \/ record' = record /\ straddled' = straddled
         \/ /\ record' = tick[n].target
            /\ straddled' <=> straddled \/ ~InTerm(n)
      /\ straddled' \in BOOLEAN
  BY <1>1, Straddles, TickTypes DEF FailRecord, At, LocalsOf, leadershipVars, rows
<1>3. /\ tick' \in [Nodes -> Ticks]
      /\ \A m \in Nodes : m # n => tick'[m] = tick[m]
      /\ tick'[n].pc \in {"update", "giveUp"} /\ tick'[n].term = tick[n].term
      /\ tick'[n].target = tick[n].target
      /\ tick'[n].pc = "update" => tick'[n].failures < Attempts
  <2>1. tick[n].failures + 1 \in 0..Attempts
    BY <1>1, <1>2, TickTypes
  <2> QED
    BY <1>1, <2>1, TickTypes DEF FailRecord, Ticks
<1>4. TypeOK'
  BY <1>1, <1>2, <1>3 DEF TypeOK, LeadershipTypeOK
<1>5. LocalsOf(n)' /\ ViewOf(n)'
  BY <1>1, <1>2, <1>3 DEF LocalsOf, ViewOf, At, InTerm
<1>6. Late(n) /\ (InTerm(n)' => InTerm(n))
  BY <1>2, <1>3 DEF Late, InTerm
<1>7. straddled' \/ LateOf(n)'
  BY <1>2, <1>3, <1>6 DEF IInv, LateOf, At
<1>8. straddled' \/ SyncedInv'
  BY <1>2, <1>6 DEF IInv, LateOf, SyncedInv
<1> QED
  BY <1>2, <1>3, <1>4, <1>5, <1>6, <1>7, <1>8, LoopKeeps

\* The last write of the tick, about a target that has been announced.
LEMMA LastWriteInv ==
    ASSUME IInv, NEW n \in Nodes, Late(n), Return(n), record' = record,
           NEW dns \in {"failed", "synced"},
           dns = "synced" => At(n, "confirm"),
           \/ PutIngress(tick[n].target, dns) /\ (Succeeds(n) \/ FailsCommitted(n))
           \/ Fails(n)
    PROVE  IInv'
<1>1. TypeOK /\ LocalsOf(n)
  BY DEF IInv
<1>2. tick[n].target \in Nodes
  BY <1>1 DEF LocalsOf, Late
<1>3. /\ condition' \in Conditions /\ ingress' \in IngressStates
      /\ LeadershipTypeOK' /\ view' \in Views /\ straddled' \in BOOLEAN
      /\ UNCHANGED <<term, isLeader>> /\ raftLeader' \in {raftLeader, None}
      /\ straddled => straddled'
      /\ UNCHANGED <<condition, ingress, view>> \/ raftLeader = n
      /\ \/ ingress' = ingress
         \/ /\ ingress' = [active |-> tick[n].target, dns |-> dns]
            /\ straddled' \/ InTerm(n)
  <2>1. CASE Fails(n)
    BY <1>1, <2>1, Failure DEF TypeOK, Views
  <2>2. CASE PutIngress(tick[n].target, dns) /\ (Succeeds(n) \/ FailsCommitted(n))
    <3>1. /\ condition' \in Conditions /\ ingress' \in IngressStates
          /\ ingress' = [active |-> tick[n].target, dns |-> dns]
      BY <1>1, <1>2, <2>2, PutTypes
    <3> QED
      BY <1>1, <2>2, <3>1, Success, FailureCommitted
  <2> QED
    BY <2>1, <2>2
<1>4. term' \in Nat
  BY <1>1, <1>3, TickTypes
<1>5. TypeOK'
  BY <1>1, <1>3, <1>4, Returned DEF TypeOK, Views
<1>6. straddled' \/ SyncedInv'
  BY <1>3 DEF IInv, SyncedInv, LateOf
<1> QED
  BY <1>1, <1>3, <1>4, <1>5, <1>6, Returned, LoopKeeps

LEMMA GiveUpInv ==
    ASSUME IInv, NEW n \in Nodes, GiveUp(n)
    PROVE  IInv'
BY LastWriteInv DEF GiveUp, Late, At

LEMMA ConfirmInv ==
    ASSUME IInv, NEW n \in Nodes, ConfirmTarget(n)
    PROVE  IInv'
BY LastWriteInv DEF ConfirmTarget, Late, At

-----------------------------------------------------------------------------
(* The surroundings                                                        *)

\* What is said of a node stays true while it does nothing, as long as raft's
\* leader stays or goes away, or there is a new term.
LEMMA StillKeeps ==
    ASSUME IInv, TypeOK', UNCHANGED <<condition, ingress, record, straddled>>,
           \/ term' = term /\ raftLeader' \in {raftLeader, None}
           \/ term' = term + 1,
           NEW n \in Nodes, tick'[n] = tick[n],
           view'[n] \in {view[n], Rows},
           isLeader'[n] = isLeader[n] \/ isLeader'[n] = (raftLeader' = n)
    PROVE  /\ LocalsOf(n)' /\ ViewOf(n)'
           /\ straddled \/ LateOf(n)'
           /\ Late(n)' /\ InTerm(n)' => Late(n) /\ InTerm(n)
<1>1. LocalsOf(n) /\ ViewOf(n) /\ TypeOK /\ (straddled \/ LateOf(n))
  BY DEF IInv
<1>2. tick[n].term \in Nat /\ tick[n].term <= term /\ term \in Nat
  BY <1>1, TickTypes DEF LocalsOf
<1>3. InTerm(n)' => InTerm(n) /\ term' = term /\ raftLeader' \in {raftLeader, None}
  BY <1>2 DEF InTerm
<1>4. Rows' = Rows
  BY DEF Rows
<1>5. LocalsOf(n)'
  BY <1>1, <1>2 DEF LocalsOf
<1>6. ViewOf(n)'
  <2> SUFFICES ASSUME tick[n].pc # "idle", InTerm(n), raftLeader' = n, raftLeader = n
               PROVE  /\ isLeader'[n]
                      /\ tick[n].pc = "read" => view'[n] = Rows
                      /\ tick[n].pc = "announce" =>
                             IsTarget(tick[n].target, n, condition, ingress.active)
    BY <1>3, <1>4 DEF ViewOf, At, IsTarget, Eligible, SortsBefore
  <2>1. /\ isLeader[n]
        /\ tick[n].pc = "read" => view[n] = Rows
        /\ tick[n].pc = "announce" => IsTarget(tick[n].target, n, condition, ingress.active)
    BY <1>1 DEF ViewOf, At
  <2>2. isLeader'[n]
    BY <2>1
  <2> QED
    BY <2>1, <2>2
<1>7. straddled \/ LateOf(n)'
  BY <1>1, <1>3 DEF LateOf, Late, At
<1>8. Late(n)' /\ InTerm(n)' => Late(n) /\ InTerm(n)
  BY <1>3 DEF Late
<1> QED
  BY <1>5, <1>6, <1>7, <1>8

LEMMA StillInv ==
    ASSUME IInv, TypeOK', UNCHANGED <<condition, ingress, record, straddled>>,
           \A n \in Nodes :
               /\ LocalsOf(n)' /\ ViewOf(n)'
               /\ straddled \/ LateOf(n)'
               /\ Late(n)' /\ InTerm(n)' => Late(n) /\ InTerm(n)
    PROVE  IInv'
<1>1. straddled \/ (LateAlone' /\ SyncedInv' /\ \A n \in Nodes : LateOf(n)')
  BY DEF IInv, LateAlone, SyncedInv
<1> QED
  BY <1>1 DEF IInv

LEMMA CatchUpInv ==
    ASSUME IInv, NEW n \in Nodes, CatchUp(n)
    PROVE  IInv'
<1>1. TypeOK
  BY DEF IInv
<1>2. /\ UNCHANGED <<raftLeader, term, isLeader, condition, ingress, record, tick, straddled>>
      /\ view' = [view EXCEPT ![n] = Rows]
  BY DEF CatchUp, leadershipVars, rows
<1>3. Rows \in [condition : Conditions, ingress : IngressStates]
  BY <1>1 DEF Rows, TypeOK
<1>4. view' \in Views /\ \A m \in Nodes : view'[m] \in {view[m], Rows}
  BY <1>1, <1>2, <1>3 DEF TypeOK, Views
<1>5. TypeOK'
  BY <1>1, <1>2, <1>4 DEF TypeOK, Views, LeadershipTypeOK
<1> QED
  BY <1>2, <1>4, <1>5, StillKeeps, StillInv

LEMMA CrashInv ==
    ASSUME IInv, NEW n \in Nodes, Crash(n)
    PROVE  IInv'
<1>1. TypeOK
  BY DEF IInv
<1>2. /\ UNCHANGED <<condition, ingress, record, straddled>>
      /\ Restart(n) /\ Return(n)
  BY DEF Crash, rows
<1>3. LeadershipTypeOK' /\ term' = term /\ raftLeader' \in {raftLeader, None}
      /\ \A m \in Nodes : m # n => isLeader'[m] = isLeader[m]
  <2>1. LeadershipTypeOK
    BY <1>1 DEF TypeOK
  <2> QED
    BY <1>2, <2>1, LeadershipRestarted, OneLeaderInTerm DEF Restart, LeadershipTypeOK
<1>4. term' \in Nat
  BY <1>1, <1>3, TickTypes
<1>5. view' \in Views /\ \A m \in Nodes : m # n => view'[m] = view[m]
  <2>1. EmptyView \in [condition : Conditions, ingress : IngressStates]
    BY DEF EmptyView, Conditions, IngressStates, NoIngress
  <2>2. view \in Views
    BY <1>1 DEF TypeOK, Views
  <2> QED
    BY <2>1, <2>2 DEF Crash, Views
<1>6. TypeOK'
  BY <1>1, <1>2, <1>3, <1>4, <1>5, Returned DEF TypeOK, Views
<1>7. \A m \in Nodes : m # n => tick'[m] = tick[m]
  BY <1>1, <1>2, <1>4, Returned
<1>8. ASSUME NEW m \in Nodes, m # n
      PROVE  /\ LocalsOf(m)' /\ ViewOf(m)'
             /\ straddled \/ LateOf(m)'
             /\ Late(m)' /\ InTerm(m)' => Late(m) /\ InTerm(m)
  BY <1>2, <1>3, <1>5, <1>6, <1>7, <1>8, StillKeeps
<1>9. LocalsOf(n)' /\ ViewOf(n)' /\ LateOf(n)' /\ ~Late(n)'
  BY <1>1, <1>2, <1>4, Returned
<1> QED
  BY <1>2, <1>6, <1>8, <1>9, StillInv

LEMMA LeadershipInv ==
    ASSUME IInv, NEW n \in Nodes, ElectLeader(n) \/ HearLeadership(n)
    PROVE  IInv'
<1>1. TypeOK /\ LeadershipTypeOK
  BY DEF IInv, TypeOK
<1>2. UNCHANGED <<condition, ingress, record, view, tick, straddled>>
  BY DEF ElectLeader, HearLeadership, rows
<1>3. /\ LeadershipTypeOK'
      /\ \/ term' = term /\ raftLeader' \in {raftLeader, None}
         \/ term' = term + 1
      /\ \A m \in Nodes : isLeader'[m] = isLeader[m] \/ isLeader'[m] = (raftLeader' = m)
  <2>1. CASE Elect(n)
    BY <1>1, <2>1, LeadershipElected DEF Elect
  <2>2. CASE WatchLeadership(n)
    BY <1>1, <2>2, LeadershipHeard, OneLeaderInTerm DEF WatchLeadership, LeadershipTypeOK
  <2> QED
    BY <2>1, <2>2 DEF ElectLeader, HearLeadership
<1>4. term' \in Nat /\ MaxTerm \in Nat
  BY <1>3 DEF LeadershipTypeOK
<1>5. TypeOK'
  BY <1>1, <1>2, <1>3 DEF TypeOK
<1> QED
  BY <1>2, <1>3, <1>5, StillKeeps, StillInv

LEMMA IngressInvariant == Spec => []IInv
<1>1. ASSUME Init
      PROVE  IInv
  <2>1. TypeOK
    <3>1. EmptyView \in [condition : Conditions, ingress : IngressStates]
      BY DEF EmptyView, Conditions, IngressStates, NoIngress
    <3>2. NoTick \in Ticks /\ LeadershipTypeOK
      BY <1>1, LeadershipStarts DEF NoTick, Ticks, Init
    <3> QED
      BY <1>1, <3>1, <3>2 DEF Init, TypeOK, EmptyView
  <2>2. \A n \in Nodes : LocalsOf(n) /\ ViewOf(n) /\ LateOf(n) /\ ~Late(n)
    <3> SUFFICES ASSUME NEW n \in Nodes
                 PROVE  LocalsOf(n) /\ ViewOf(n) /\ LateOf(n) /\ ~Late(n)
      OBVIOUS
    <3>1. tick[n].pc = "idle" /\ tick[n].term = 0 /\ tick[n].failures = 0 /\ term = 0
      BY <1>1 DEF Init, NoTick, LeadershipInit
    <3> QED
      BY <3>1 DEF LocalsOf, ViewOf, LateOf, Late, At
  <2>3. LateAlone /\ SyncedInv
    BY <1>1, <2>2 DEF LateAlone, SyncedInv, Init, NoIngress
  <2> QED
    BY <2>1, <2>2, <2>3 DEF IInv
<1>2. ASSUME IInv, [Next]_vars
      PROVE  IInv'
  <2>1. ASSUME NEW n \in Nodes, Loop(n)
        PROVE  IInv'
    BY <1>2, <2>1, BeginInv, EvaluateInv, ReadInv, AnnounceInv, UpdateInv, FailRecordInv,
       GiveUpInv, ConfirmInv DEF Loop
  <2>2. ASSUME NEW n \in Nodes, CatchUp(n)
        PROVE  IInv'
    BY <1>2, <2>2, CatchUpInv
  <2>3. ASSUME NEW n \in Nodes, Crash(n)
        PROVE  IInv'
    BY <1>2, <2>3, CrashInv
  <2>4. ASSUME NEW n \in Nodes, ElectLeader(n) \/ HearLeadership(n)
        PROVE  IInv'
    BY <1>2, <2>4, LeadershipInv
  <2>5. CASE UNCHANGED vars
    <3>1. UNCHANGED <<raftLeader, term, isLeader, condition, ingress, record, view, tick,
                      straddled>>
      BY <2>5 DEF vars, leadershipVars, rows
    <3>2. TypeOK'
      BY <1>2, <3>1 DEF IInv, TypeOK, LeadershipTypeOK
    <3> QED
      BY <1>2, <3>1, <3>2, StillKeeps, StillInv
  <2> QED
    BY <1>2, <2>1, <2>2, <2>3, <2>4, <2>5 DEF Next
<1> QED
  BY <1>1, <1>2, PTL DEF Spec

\* The rows, the record, the replicas and the locals of every loop are of their types.
THEOREM IngressTypes == Spec => []TypeOK
<1>1. IInv => TypeOK
  BY DEF IInv
<1> QED
  BY <1>1, IngressInvariant, PTL

\* A row that says synced is true, through any failures, retries, crashes and
\* elections, unless a tick wrote in a later term than it began in.
THEOREM SyncedIsTrue == Spec => []SyncedMeansPointed
<1>1. IInv => SyncedMeansPointed
  BY DEF IInv, SyncedInv, SyncedMeansPointed
<1> QED
  BY <1>1, IngressInvariant, PTL

-----------------------------------------------------------------------------
(* The ingress stays                                                       *)

\* What lets a step change the active ingress.
MayMove ==
    \/ straddled'
    \/ ingress.active \in {None, ingress'.active}
    \/ ingress.active \notin Eligible(raftLeader, condition)
    \/ Priority[ingress'.active] > Priority[ingress.active]

\* Whoever sorts before an ingress that is eligible has a higher priority.
LEMMA TargetMoves ==
    ASSUME NEW t \in Nodes, NEW n \in Nodes, NEW active, t # active,
           IsTarget(t, n, condition, active), active \in Eligible(n, condition)
    PROVE  Priority[t] > Priority[active]
<1>1. SortsBefore(t, active, active)
  BY DEF IsTarget
<1> QED
  BY <1>1 DEF SortsBefore

LEMMA AnnounceMoves ==
    ASSUME IInv, NEW n \in Nodes, AnnounceTarget(n)
    PROVE  MayMove
<1>1. TypeOK /\ LocalsOf(n) /\ ViewOf(n)
  BY DEF IInv
<1>2. tick[n].pc = "announce" /\ tick[n].target \in Nodes
  BY <1>1 DEF AnnounceTarget, At, LocalsOf
<1>3. CASE Fails(n)
  BY <1>1, <1>3, Failure DEF MayMove
<1>4. CASE PutIngress(tick[n].target, "pending") /\ (Succeeds(n) \/ FailsCommitted(n))
  <2>1. /\ condition' \in Conditions /\ ingress' \in IngressStates
        /\ ingress'.active = tick[n].target
    BY <1>1, <1>2, <1>4, PutTypes
  <2>2. raftLeader = n /\ (straddled' \/ InTerm(n))
    BY <1>1, <1>4, <2>1, Success, FailureCommitted
  <2>3. InTerm(n) => IsTarget(tick[n].target, n, condition, ingress.active)
    BY <1>1, <1>2, <2>2 DEF ViewOf, At
  <2> QED
    BY <1>2, <2>1, <2>2, <2>3, TargetMoves DEF MayMove
<1> QED
  BY <1>3, <1>4 DEF AnnounceTarget

LEMMA LastWriteMoves ==
    ASSUME IInv, NEW n \in Nodes, GiveUp(n) \/ ConfirmTarget(n)
    PROVE  MayMove
<1>1. TypeOK /\ LocalsOf(n)
  BY DEF IInv
<1>2. Late(n) /\ tick[n].target \in Nodes
  BY <1>1 DEF GiveUp, ConfirmTarget, At, Late, LocalsOf
<1>3. CASE Fails(n)
  BY <1>1, <1>3, Failure DEF MayMove
<1>4. ASSUME NEW dns \in {"failed", "synced"}, PutIngress(tick[n].target, dns),
             Succeeds(n) \/ FailsCommitted(n)
      PROVE  MayMove
  <2>1. /\ condition' \in Conditions /\ ingress' \in IngressStates
        /\ ingress'.active = tick[n].target
    BY <1>1, <1>2, <1>4, PutTypes
  <2>2. straddled' \/ (InTerm(n) /\ ~straddled)
    BY <1>1, <1>4, <2>1, Success, FailureCommitted
  <2>3. straddled' \/ ingress.active = tick[n].target
    BY <1>2, <2>2 DEF IInv, LateOf
  <2> QED
    BY <2>1, <2>3 DEF MayMove
<1> QED
  BY <1>3, <1>4 DEF GiveUp, ConfirmTarget

\* The ingress moves only when the leader does not take it for eligible, or a
\* candidate of a higher priority is; or when a tick writes in a term not its own.
THEOREM IngressStays == Spec => IngressKept
<1>1. IInv /\ [Next]_vars => MayMove \/ UNCHANGED vars
  <2> SUFFICES ASSUME IInv, Next
               PROVE  MayMove
    BY DEF vars
  <2>1. PICK n \in Nodes : Loop(n) \/ CatchUp(n) \/ Crash(n) \/ ElectLeader(n) \/ HearLeadership(n)
    BY DEF Next
  <2>2. ASSUME ingress' = ingress
        PROVE  MayMove
    BY <2>2 DEF MayMove
  <2>3. CASE AnnounceTarget(n)
    BY <2>3, AnnounceMoves
  <2>4. CASE GiveUp(n) \/ ConfirmTarget(n)
    BY <2>4, LastWriteMoves
  <2>5. CASE EvaluateNodes(n)
    BY <2>2, <2>5 DEF EvaluateNodes, Fails, rows
  <2>6. CASE BeginTick(n) \/ ReadIngress(n) \/ UpdateRecord(n) \/ FailRecord(n)
    BY <2>2, <2>6 DEF BeginTick, ReadIngress, UpdateRecord, FailRecord, rows
  <2>7. CASE CatchUp(n) \/ Crash(n) \/ ElectLeader(n) \/ HearLeadership(n)
    BY <2>2, <2>7 DEF CatchUp, Crash, ElectLeader, HearLeadership, rows
  <2> QED
    BY <2>1, <2>3, <2>4, <2>5, <2>6, <2>7 DEF Loop
<1> QED
  BY <1>1, IngressInvariant, PTL DEF Spec, IngressKept, MayMove

=============================================================================
