-------------------------- MODULE ReplicatedStore --------------------------
(***************************************************************************)
(* FSM and Store: raft's log applied to the SQLite file of every node.     *)
(* The file survives the process, and raft applies its log again from the  *)
(* newest snapshot, or from the start when there is none, onto whatever is *)
(* in the file.  Snapshots keep a limited number of deliveries, and old    *)
(* deliveries are deleted outside of the log.                              *)
(*                                                                         *)
(* Rows are of two kinds: incidents, which are never deleted and have a    *)
(* column that the completion of a delivery sets, and all others with a    *)
(* key of their own.  The log is raft's, external; any node may lead.      *)
(***************************************************************************)
EXTENDS Naturals, Sequences, FiniteSets

CONSTANTS
    Nodes,      \* the raft servers
    Keys,       \* delivery keys
    Incidents,  \* ids of incidents
    Others,     \* ids of the rows of other tables
    Values,     \* contents of a row
    None,       \* no row
    Limit,      \* deliveries in a snapshot (300)
    Retention,  \* retention_days
    MaxLog,     \* bound: length of the log
    MaxTime     \* bound: the clock

ASSUME LimitAssumption == Limit \in Nat
ASSUME RetentionAssumption == Retention \in Nat
ASSUME BoundsAssumption == MaxLog \in Nat /\ MaxTime \in Nat

VARIABLES
    log,        \* the committed entries
    clock,      \* time, in days
    file,       \* the tables in the SQLite file of each node
    applied,    \* how much of the log its raft has applied
    reached,    \* how much of the log its file has ever seen
    snapshot,   \* its newest snapshot: a file with applied and reached
    awaits,     \* the claim whose answer its engine waits for, an index or 0
    granted     \* history: the claims that were answered with claimed

vars == <<log, clock, file, applied, reached, snapshot, awaits, granted>>

Rows == Incidents \cup Others
Times == 0..MaxTime

ASSUME NoTimeAssumption == None \notin Times

\* first: a column that is written once (opened_at, created_at);
\* value: the columns that every upsert writes; stamp: last_notified_at.
Row == [first : Values, value : Values, stamp : BOOLEAN]

ASSUME NoRowAssumption == None \notin Row

\* A file: the rows, and when each delivery that it knows of was created.
File == [rows : [Rows -> Row \cup {None}], claims : [Keys -> Times \cup {None}]]

Command ==
    [type : {"put"}, row : Rows, value : Values]
        \cup [type : {"delete"}, row : Others]
        \cup [type : {"complete"}, row : Incidents]
        \cup [type : {"claim"}, key : Keys, at : Times]

EmptyFile == [rows |-> [r \in Rows |-> None], claims |-> [k \in Keys |-> None]]

Indices == 0..MaxLog

TypeOK ==
    /\ log \in Seq(Command) /\ Len(log) \in Indices
    /\ clock \in Times
    /\ file \in [Nodes -> File]
    /\ applied \in [Nodes -> 0..Len(log)]
    /\ reached \in [Nodes -> 0..Len(log)]
    /\ snapshot \in [Nodes -> [index : 0..Len(log), reached : 0..Len(log), file : File]]
    /\ awaits \in [Nodes -> 0..Len(log)]
    /\ granted \subseteq 1..Len(log)

Init ==
    /\ log = <<>>
    /\ clock = 0
    /\ file = [n \in Nodes |-> EmptyFile]
    /\ applied = [n \in Nodes |-> 0]
    /\ reached = [n \in Nodes |-> 0]
    /\ snapshot = [n \in Nodes |-> [index |-> 0, reached |-> 0, file |-> EmptyFile]]
    /\ awaits = [n \in Nodes |-> 0]
    /\ granted = {}

-----------------------------------------------------------------------------
(* FSM.Apply and the statements behind it                                  *)

\* Mutant: the statement forgets the column last_notified_at.
UpsertWithoutStamp(f, r, v) ==
    [f EXCEPT !.rows[r] = [first |-> IF @ = None THEN v ELSE @.first, value |-> v]]

\* INSERT ... ON CONFLICT DO UPDATE
Upsert(f, r, v) ==
    [f EXCEPT !.rows[r] =
        [first |-> IF @ = None THEN v ELSE @.first, value |-> v, stamp |-> FALSE]]

\* DELETE ... WHERE id
Delete(f, r) == [f EXCEPT !.rows[r] = None]

\* UpdateIncidentLastNotified, an UPDATE: nothing without a row.
Stamp(f, r) ==
    [f EXCEPT !.rows[r] = IF @ = None THEN None ELSE [@ EXCEPT !.stamp = TRUE]]

\* Mutant: INSERT OR REPLACE reports a row that was there as new.
ClaimsAlways(f, k) == TRUE

\* ClaimAlertDelivery, whether INSERT OR IGNORE inserts.
Claims(f, k) == f.claims[k] = None

Claim(f, k, at) == IF Claims(f, k) THEN [f EXCEPT !.claims[k] = at] ELSE f

Execute(f, c) ==
    CASE c.type = "put" -> Upsert(f, c.row, c.value)
      [] c.type = "delete" -> Delete(f, c.row)
      [] c.type = "complete" -> Stamp(f, c.row)
      [] c.type = "claim" -> Claim(f, c.key, c.at)

-----------------------------------------------------------------------------
(* Snapshots                                                               *)

Known(f) == {k \in Keys : f.claims[k] # None}

\* Mutant: the oldest deliveries are kept.
KeepsOldest(f, kept) ==
    /\ kept \subseteq Known(f)
    /\ Cardinality(kept) <= Limit
    /\ \A k \in kept, other \in Known(f) \ kept : f.claims[k] <= f.claims[other]
    /\ kept # Known(f) => Cardinality(kept) = Limit

\* listAlertDeliveries: the newest, in any order among equals.
Keeps(f, kept) ==
    /\ kept \subseteq Known(f)
    /\ Cardinality(kept) <= Limit
    /\ \A k \in kept, other \in Known(f) \ kept : f.claims[k] >= f.claims[other]
    /\ kept # Known(f) => Cardinality(kept) = Limit

SnapshotOf(f, kept) ==
    [f EXCEPT !.claims = [k \in Keys |-> IF k \in kept THEN f.claims[k] ELSE None]]

\* Mutant: rows that the snapshot does not have stay.
RestoredOver(f, s) ==
    [s EXCEPT !.rows = [r \in Rows |-> IF s.rows[r] = None THEN f.rows[r]
                                                           ELSE s.rows[r]]]

\* Store.Restore deletes everything first.
Restored(f, s) == s

-----------------------------------------------------------------------------
(* What the nodes do                                                       *)

Commit(c) == Len(log) < MaxLog /\ log' = Append(log, c)

\* An upsert through Manager.Apply; nobody looks at its result.
Put(r, v) ==
    /\ Commit([type |-> "put", row |-> r, value |-> v])
    /\ UNCHANGED <<clock, file, applied, reached, snapshot, awaits, granted>>

Remove(r) ==
    /\ Commit([type |-> "delete", row |-> r])
    /\ UNCHANGED <<clock, file, applied, reached, snapshot, awaits, granted>>

\* The completion of a delivery comes after the incident.
CompleteDelivery(i) ==
    /\ \E j \in 1..Len(log) : log[j].type = "put" /\ log[j].row = i
    /\ Commit([type |-> "complete", row |-> i])
    /\ UNCHANGED <<clock, file, applied, reached, snapshot, awaits, granted>>

\* claimAndSend of n's engine, which then waits for its own file.
ClaimDelivery(n, k) ==
    /\ awaits[n] = 0
    /\ Commit([type |-> "claim", key |-> k, at |-> clock])
    /\ awaits' = [awaits EXCEPT ![n] = Len(log')]
    /\ UNCHANGED <<clock, file, applied, reached, snapshot, granted>>

\* Raft applies the next entry at n, and answers who waits for it.
ApplyEntry(n) ==
    /\ applied[n] < Len(log)
    /\ LET i == applied[n] + 1
           c == log[i]
       IN  /\ file' = [file EXCEPT ![n] = Execute(@, c)]
           /\ applied' = [applied EXCEPT ![n] = i]
           /\ reached' = [reached EXCEPT ![n] = IF i > @ THEN i ELSE @]
           /\ IF awaits[n] = i
              THEN /\ awaits' = [awaits EXCEPT ![n] = 0]
                   /\ granted' = IF Claims(file[n], c.key)
                                 THEN granted \cup {i} ELSE granted
              ELSE UNCHANGED <<awaits, granted>>
    /\ UNCHANGED <<log, clock, snapshot>>

\* FSM.Snapshot
TakeSnapshot(n) ==
    /\ snapshot[n].index < applied[n]
    /\ \E kept \in SUBSET Keys :
          /\ Keeps(file[n], kept)
          /\ snapshot' = [snapshot EXCEPT ![n] =
                [index |-> applied[n], reached |-> reached[n],
                 file |-> SnapshotOf(file[n], kept)]]
    /\ UNCHANGED <<log, clock, file, applied, reached, awaits, granted>>

\* The process of n is started again: NewRaft restores the newest snapshot.
RestartNode(n) ==
    /\ applied' = [applied EXCEPT ![n] = snapshot[n].index]
    /\ IF snapshot[n].index = 0
       THEN UNCHANGED <<file, reached>>
       ELSE /\ file' = [file EXCEPT ![n] = Restored(@, snapshot[n].file)]
            /\ reached' = [reached EXCEPT ![n] = snapshot[n].reached]
    /\ awaits' = [awaits EXCEPT ![n] = 0]
    /\ UNCHANGED <<log, clock, snapshot, granted>>

\* A node that is far behind gets the snapshot of m, which leads, from raft.
InstallSnapshot(n, m) ==
    /\ applied[n] < snapshot[m].index
    /\ awaits[n] = 0
    /\ snapshot' = [snapshot EXCEPT ![n] = snapshot[m]]
    /\ file' = [file EXCEPT ![n] = Restored(@, snapshot[m].file)]
    /\ applied' = [applied EXCEPT ![n] = snapshot[m].index]
    /\ reached' = [reached EXCEPT ![n] = snapshot[m].reached]
    /\ UNCHANGED <<log, clock, awaits, granted>>

\* The cutoff of PruneOldData.
Expired(at) == at + Retention < clock

\* PruneOldData at the end of a tick of n.
PruneOldData(n) ==
    /\ awaits[n] = 0
    /\ \E k \in Known(file[n]) : Expired(file[n].claims[k])
    /\ file' = [file EXCEPT ![n].claims =
                    [k \in Keys |-> IF @[k] # None /\ Expired(@[k]) THEN None ELSE @[k]]]
    /\ UNCHANGED <<log, clock, applied, reached, snapshot, awaits, granted>>

Tick ==
    /\ clock < MaxTime
    /\ clock' = clock + 1
    /\ UNCHANGED <<log, file, applied, reached, snapshot, awaits, granted>>

Next ==
    \/ \E r \in Rows, v \in Values : Put(r, v)
    \/ \E r \in Others : Remove(r)
    \/ \E i \in Incidents : CompleteDelivery(i)
    \/ \E n \in Nodes, k \in Keys : ClaimDelivery(n, k)
    \/ \E n \in Nodes : \/ ApplyEntry(n)
                        \/ TakeSnapshot(n)
                        \/ RestartNode(n)
                        \/ PruneOldData(n)
    \/ \E n, m \in Nodes : InstallSnapshot(n, m)
    \/ Tick

Spec == Init /\ [][Next]_vars

-----------------------------------------------------------------------------
(* Properties                                                              *)

\* A node is level when it has applied all that its file has ever seen.
Level(n) == applied[n] = reached[n]

\* Two nodes that are level and equally far have the same rows, whatever each
\* of them has been through.
ReplicasAgree ==
    \A n, m \in Nodes :
        Level(n) /\ Level(m) /\ applied[n] = applied[m] => file[n].rows = file[m].rows

IsClaim(i, k) == log[i].type = "claim" /\ log[i].key = k

FirstClaim(i) == ~\E j \in 1..i - 1 : IsClaim(j, log[i].key)

\* Other deliveries claimed up to entry j that are not older than entry i.
NotOlder(i, j) ==
    {k \in Keys \ {log[i].key} : \E l \in 1..j : IsClaim(l, k) /\ log[l].at >= log[i].at}

\* A delivery that is within the retention, and followed by fewer than Limit
\* others that the file has seen, is known to every node that has applied it.
ClaimsKept ==
    \A n \in Nodes, i \in 1..Len(log) :
        /\ i <= applied[n]
        /\ log[i].type = "claim" /\ FirstClaim(i)
        /\ ~Expired(log[i].at)
        /\ Cardinality(NotOlder(i, reached[n])) < Limit
        => file[n].claims[log[i].key] # None

\* A key is granted a second time only when its first claim is that old.
\* IncidentAlerts takes for granted that it never is.
GrantedOnce ==
    \A i, j \in granted :
        i < j /\ log[i].key = log[j].key =>
            \E f \in 1..i :
                /\ IsClaim(f, log[i].key)
                /\ \/ log[f].at + Retention < log[j].at
                   \/ Cardinality(NotOlder(f, j)) >= Limit

=============================================================================
