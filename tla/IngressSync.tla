---------------------------- MODULE IngressSync ----------------------------
(***************************************************************************)
(* Engine.syncIngress: the leader picks the member that the public name    *)
(* points at, writes its choice as an unsynced row, moves the A record     *)
(* with retries, and writes the row again as synced.  Leadership is looked *)
(* at only when the tick begins, while the retries take up to 47 seconds.  *)
(*                                                                         *)
(* The evaluation that precedes it in the tick (IncidentAlerts) appears    *)
(* here as one Apply that leaves every member in some condition.  Members  *)
(* are the nodes, and a node stands for its public address.  The events    *)
(* that are written last change nothing that is read, and are left out.    *)
(***************************************************************************)
EXTENDS Leadership

CONSTANTS
    Candidates, \* members with ingress_candidate
    Priority,   \* configured priority of every node
    IdOrder,    \* rank of every node's id in the order of strings
    Fitness,    \* bound: what every node's condition may be
    DNSEnabled, \* cloudflare.enabled
    Attempts    \* length of cloudflare.BackoffSchedule

ASSUME CandidatesAssumption == Candidates \subseteq Nodes
ASSUME OrderAssumption ==
    /\ Priority \in [Nodes -> Nat]
    /\ IdOrder \in [Nodes -> Nat]
    /\ \A m, n \in Nodes : IdOrder[m] = IdOrder[n] => m = n
ASSUME FitnessAssumption ==
    Fitness \in [Nodes -> SUBSET {"reachable", "unseen", "unfit"}]
ASSUME DNSEnabledAssumption == DNSEnabled \in BOOLEAN
ASSUME AttemptsAssumption == Attempts \in Nat \ {0}

VARIABLES
    condition,  \* node_state rows: is the member fit to be the ingress?
    ingress,    \* the ingress_state row
    record,     \* the A record at Cloudflare
    view,       \* each node's replica of condition and ingress
    tick,       \* the loop of each node: where it is, its locals
    straddled   \* history: some tick wrote in a later term than it began in

rows == <<condition, ingress>>
vars == <<leadershipVars, rows, record, view, tick, straddled>>

\* reachable: healthy, or degraded otherwise than by availability, and seen by
\* an observer; unseen: the same status, not seen; unfit: any other status,
\* no row at all, or not an active member.
Conditions == [Nodes -> {"reachable", "unseen", "unfit"}]

NoIngress == [active |-> None, dns |-> "pending"]
IngressStates == [active : Nodes, dns : {"pending", "failed", "synced"}]
                     \cup {NoIngress}

NoTick == [pc |-> "idle", term |-> 0, target |-> None, failures |-> 0]
Ticks == [pc : {"idle", "assess", "read", "announce", "update", "giveUp",
                "confirm"},
          term : 0..MaxTerm, target : Nodes \cup {None}, failures : 0..Attempts]

TypeOK ==
    /\ LeadershipTypeOK
    /\ condition \in Conditions
    /\ ingress \in IngressStates
    /\ record \in Nodes \cup {None}
    /\ view \in [Nodes -> [condition : Conditions, ingress : IngressStates]]
    /\ tick \in [Nodes -> Ticks]
    /\ straddled \in BOOLEAN

EmptyView == [condition |-> [n \in Nodes |-> "unfit"], ingress |-> NoIngress]

Init ==
    /\ LeadershipInit
    /\ condition = EmptyView.condition
    /\ ingress = NoIngress
    /\ record = None
    /\ view = [n \in Nodes |-> EmptyView]
    /\ tick = [n \in Nodes |-> NoTick]
    /\ straddled = FALSE

-----------------------------------------------------------------------------
(* Manager.Apply and the replicas                                          *)

Rows == [condition |-> condition, ingress |-> ingress]

\* A command is committed: the nodes of first apply it, others may lag (not
\* after the last election, where their lag can matter to no writer).
Replicates(first) ==
    \E behind \in SUBSET (Nodes \ first) :
        /\ behind = {} \/ LeadershipMayMove
        /\ view' = [n \in Nodes |-> IF n \in behind THEN view[n] ELSE Rows']

NotesTerm(n) == straddled' = (straddled \/ tick[n].term # term)

Succeeds(n) == Committed(n) /\ Replicates({n}) /\ NotesTerm(n)

Fails(n) == (Refused(n) \/ Deposed(n)) /\ UNCHANGED <<rows, view, straddled>>

FailsCommitted(n) == Deposed(n) /\ Replicates({}) /\ NotesTerm(n)

PutIngress(target, dns) ==
    /\ ingress' = [active |-> target, dns |-> dns]
    /\ UNCHANGED condition

-----------------------------------------------------------------------------
(* selectIngressTargetPeer                                                 *)

\* isIngressStateEligible, for the node self that runs the loop.
Eligible(self, cond) ==
    {m \in Candidates : \/ cond[m] = "reachable"
                        \/ cond[m] = "unseen" /\ m = self}

\* Mutant: the present ingress has no advantage among equal priorities.
SortsBeforeById(a, b, active) ==
    \/ Priority[a] > Priority[b]
    \/ Priority[a] = Priority[b] /\ IdOrder[a] < IdOrder[b]

\* The comparison that the candidates are sorted by.
SortsBefore(a, b, active) ==
    \/ Priority[a] > Priority[b]
    \/ /\ Priority[a] = Priority[b]
       /\ (a = active) \/ (b # active /\ IdOrder[a] < IdOrder[b])

IsTarget(t, self, cond, active) ==
    /\ t \in Eligible(self, cond)
    /\ \A m \in Eligible(self, cond) \ {t} : SortsBefore(t, m, active)

-----------------------------------------------------------------------------
(* The loop                                                                *)

At(n, step) == tick[n].pc = step

Goto(n, step) == tick' = [tick EXCEPT ![n].pc = step]

Return(n) == tick' = [tick EXCEPT ![n] = NoTick]

BeginTick(n) ==
    /\ At(n, "idle")
    /\ isLeader[n]
    /\ tick' = [tick EXCEPT ![n].pc = "assess", ![n].term = term]
    /\ UNCHANGED <<leadershipVars, rows, record, view, straddled>>

\* The evaluations of all members; their errors are logged and no more.
EvaluateNodes(n) ==
    /\ At(n, "assess")
    /\ \/ /\ condition' \in {c \in Conditions : \A m \in Nodes : c[m] \in Fitness[m]}
          /\ UNCHANGED ingress
          /\ Succeeds(n) \/ FailsCommitted(n)
       \/ Fails(n)
    /\ Goto(n, "read")
    /\ UNCHANGED record

\* Mutant: the early return does not ask whether the target is synced.
ReadIngressAnyRow(n) ==
    LET current == view[n].ingress
        cond == view[n].condition
    IN  /\ At(n, "read")
        /\ \/ Eligible(n, cond) = {} /\ Return(n)
           \/ \E t \in Nodes :
                /\ IsTarget(t, n, cond, current.active)
                /\ IF current.active = t
                   THEN Return(n)
                   ELSE tick' = [tick EXCEPT ![n].pc = "announce",
                                             ![n].target = t]
        /\ UNCHANGED <<leadershipVars, rows, record, view, straddled>>

\* What syncIngress reads, and the early returns: nobody is eligible, or the
\* row already says that the target is synced.
ReadIngress(n) ==
    LET current == view[n].ingress
        cond == view[n].condition
    IN  /\ At(n, "read")
        /\ \/ Eligible(n, cond) = {} /\ Return(n)
           \/ \E t \in Nodes :
                /\ IsTarget(t, n, cond, current.active)
                /\ IF current = [active |-> t, dns |-> "synced"]
                   THEN Return(n)
                   ELSE tick' = [tick EXCEPT ![n].pc = "announce",
                                             ![n].target = t]
        /\ UNCHANGED <<leadershipVars, rows, record, view, straddled>>

\* The choice is written as not synced before the record is touched.
AnnounceTarget(n) ==
    /\ At(n, "announce")
    /\ \/ /\ PutIngress(tick[n].target, "pending")
          /\ \/ /\ Succeeds(n)
                /\ Goto(n, IF DNSEnabled THEN "update" ELSE "confirm")
             \/ FailsCommitted(n) /\ Return(n)
       \/ Fails(n) /\ Return(n)
    /\ UNCHANGED record

\* UpdateARecord succeeds.
UpdateRecord(n) ==
    /\ At(n, "update")
    /\ record' = tick[n].target
    /\ Goto(n, "confirm")
    /\ NotesTerm(n)
    /\ UNCHANGED <<leadershipVars, rows, view>>

\* Mutant: one attempt more than the schedule has delays.
FailRecordOnceMore(n) ==
    LET failures == tick[n].failures + 1
    IN  /\ At(n, "update")
        /\ \/ UNCHANGED <<record, straddled>>
           \/ record' = tick[n].target /\ NotesTerm(n)
        /\ tick' = [tick EXCEPT
                       ![n].failures = failures,
                       ![n].pc = IF failures <= Attempts THEN "update" ELSE "giveUp"]
        /\ UNCHANGED <<leadershipVars, rows, view>>

\* UpdateARecord fails, whether or not Cloudflare has carried it out, and the
\* loop sleeps before the next attempt.
FailRecord(n) ==
    LET failures == tick[n].failures + 1
    IN  /\ At(n, "update")
        /\ \/ UNCHANGED <<record, straddled>>
           \/ record' = tick[n].target /\ NotesTerm(n)
        /\ tick' = [tick EXCEPT
                       ![n].failures = failures,
                       ![n].pc = IF failures < Attempts THEN "update" ELSE "giveUp"]
        /\ UNCHANGED <<leadershipVars, rows, view>>

\* Mutant: synced is written although the attempts failed.
GiveUpSynced(n) ==
    /\ At(n, "giveUp")
    /\ \/ /\ PutIngress(tick[n].target, "synced")
          /\ Succeeds(n) \/ FailsCommitted(n)
       \/ Fails(n)
    /\ Return(n)
    /\ UNCHANGED record

\* After the last attempt the error is recorded, if that can be done.
GiveUp(n) ==
    /\ At(n, "giveUp")
    /\ \/ /\ PutIngress(tick[n].target, "failed")
          /\ Succeeds(n) \/ FailsCommitted(n)
       \/ Fails(n)
    /\ Return(n)
    /\ UNCHANGED record

ConfirmTarget(n) ==
    /\ At(n, "confirm")
    /\ \/ /\ PutIngress(tick[n].target, "synced")
          /\ Succeeds(n) \/ FailsCommitted(n)
       \/ Fails(n)
    /\ Return(n)
    /\ UNCHANGED record

-----------------------------------------------------------------------------
(* The surroundings                                                        *)

CatchUp(n) ==
    /\ view[n] # Rows
    /\ view' = [view EXCEPT ![n] = Rows]
    /\ UNCHANGED <<leadershipVars, rows, record, tick, straddled>>

\* As in IncidentAlerts: the restored snapshot is from now or from the start.
Crash(n) ==
    /\ ~At(n, "idle")
    /\ Restart(n)
    /\ Return(n)
    /\ \E restored \in {view[n], EmptyView} :
         view' = [view EXCEPT ![n] = restored]
    /\ UNCHANGED <<rows, record, straddled>>

ElectLeader(n) ==
    /\ Elect(n)
    /\ UNCHANGED <<rows, record, view, tick, straddled>>

HearLeadership(n) ==
    /\ WatchLeadership(n)
    /\ UNCHANGED <<rows, record, view, tick, straddled>>

Loop(n) ==
    \/ BeginTick(n)
    \/ EvaluateNodes(n)
    \/ ReadIngress(n)
    \/ AnnounceTarget(n)
    \/ UpdateRecord(n)
    \/ FailRecord(n)
    \/ GiveUp(n)
    \/ ConfirmTarget(n)

Next ==
    \E n \in Nodes :
        \/ Loop(n)
        \/ CatchUp(n)
        \/ Crash(n)
        \/ ElectLeader(n)
        \/ HearLeadership(n)

Spec == Init /\ [][Next]_vars

\* The loop, the FSM and the leadership watcher run on; raft elects somebody;
\* Cloudflare, asked again and again, answers once in a while.
Fairness ==
    /\ \A n \in Nodes :
         /\ WF_vars(Loop(n))
         /\ SF_vars(UpdateRecord(n))
         /\ WF_vars(CatchUp(n))
         /\ WF_vars(HearLeadership(n))
    /\ WF_vars(raftLeader = None /\ \E n \in Nodes : ElectLeader(n))

FairSpec == Spec /\ Fairness

-----------------------------------------------------------------------------
(* Properties                                                              *)

\* A row that says synced is true: the record points at the active node,
\* unless a tick went on writing after the term in which it began.
SyncedMeansPointed ==
    DNSEnabled /\ ingress.dns = "synced" => record = ingress.active \/ straddled

\* The ingress stays where it is as long as it is eligible to the leader that
\* writes, by the rows as they are committed, unless it gives way to a higher
\* priority; with the same exception.
IngressKept ==
    [][ \/ straddled'
        \/ ingress.active \in {None, ingress'.active}
        \/ ingress.active \notin Eligible(raftLeader, condition)
        \/ Priority[ingress'.active] > Priority[ingress.active] ]_vars

OnlyIngress(h) ==
    \A n \in Nodes : condition[n] = (IF n = h THEN "reachable" ELSE "unfit")

PointsAt(h) == record = h /\ ingress = [active |-> h, dns |-> "synced"]

\* Once h remains the only node fit to be the ingress, the record comes to
\* point at it and the row to say so, whatever failed before.
RecordFollowsIngress ==
    \A h \in Candidates : <>[]OnlyIngress(h) => <>[]PointsAt(h)

\* The same, provided that no tick writes after the term in which it began.
RecordFollowsUnlessStraddled ==
    \A h \in Candidates : <>[]OnlyIngress(h) => <>[]PointsAt(h) \/ <>straddled

=============================================================================
