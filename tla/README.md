# A formal model of Frontline Monitor

Frontline Monitor watches a handful of servers. Every server runs the same
program; the programs form a Raft cluster, and whoever leads it evaluates all
servers, opens and resolves incidents, notifies people and moves the public DNS
record. These modules model that control logic in TLA+, TLC checks them on small
instances, and TLAPS proves for all instances every safety property that TLC
checks on small ones.

Line numbers refer to the files below `src/`.

## 1. The system

### How the parts interact

```
collector, prober --observations--> submitter --HTTP or local--> Manager.Apply
admin API, join API ------------------------------------------> Manager.Apply
engine (leader only): reads its own store, decides ------------> Manager.Apply
                                                                      |
   raft log --committed entries--> FSM.Apply on every node --> SQLite store
engine --> notifier.Send (webhook, Telegram, mail ...)
engine --> cloudflare.UpdateARecord
membership handlers --> raft.AddVoter, AddNonvoter, DemoteVoter, RemoveServer
```

All replicated state is written by `Manager.Apply` and read from the local
SQLite file. `Apply` returns when the *leader's* file has the change; the other
files follow later. Whether a node may act is decided by `Manager.isLeader`, a
flag set by a goroutine from Raft's `NotifyCh`, which lags behind Raft in both
directions. `Apply` asks the flag, then Raft.

### Components, their state, operations and properties

| Component | State | Operations | Hard behaviour | What makes it correct |
|---|---|---|---|---|
| Raft leadership and apply path (`cluster/manager.go`) | the flag, Raft itself | `Apply`, `watchLeadership`, start | the flag lags; `Apply` may fail although the entry commits | callers survive each of its outcomes |
| Engine (`engine/engine.go`) | node states and streaks, incidents, claims of deliveries | one tick: evaluate, reconcile, alert | a tick is a dozen Applies; leadership moves or the process dies between any two; two nodes may both run a tick | one alert per key, alerts only about committed incidents, incidents follow the recorded state, one incident per node, nothing stays open or silent for ever |
| Health assessment (`engine.go:147-373`) | none | rules from heartbeats and probes to a verdict | missing and stale evidence, boundaries of age and count | one lost round of heartbeats or probes is tolerated, a real outage is found in time |
| Ingress DNS (`engine.go:559-694`, `cloudflare/client.go`) | the ingress row, the A record | choose, announce, update with retries, confirm | sleeps up to 47 s within the tick; an update may have an unknown outcome | a synced row is true, the record follows the node that is fit |
| FSM and store (`cluster/fsm.go`, `store/sqlite.go`) | all tables | `Apply`, `Snapshot`, `Restore`, pruning | log replayed onto a file with its effects, snapshots keep 300 deliveries, pruning outside of the log | replicas agree, what was claimed stays claimed |
| Membership (`cluster/membership.go`, `web/members.go`) | the directory, Raft's configuration | join, change of role, removal, the leader's own removal, seeding | two stores and no transaction; handlers overlap; either write may fail | directory and configuration agree when nobody is at work |
| Join client (`cluster/join.go`, `main.go`) | raft state on the disk | loop over the seeds, retry or stop; the next start of the process | a 409 may be temporary; the client gives up while its handler goes on; a node with raft state does not ask again | a node that may join does join, and is told so only when it has |
| Submitter (`cluster/submitter.go`) | none | apply locally or post to the leader, once | the leader moves under way; a lost answer says nothing of the command | what was committed is there, whatever was answered |
| Observer assignment, prober (`monitor/`) | none | rendezvous hash, probes | every node computes the assignment by itself | after an outage of observers the nodes agree on the assignment again, and the reports of those assigned suffice for a verdict |
| Admin API (`web/admin.go`) | one settings row, sessions | bootstrap, login, logout, password, channels; checks and node names | read, modify and write of a row from a local replica, submitted to a leader elsewhere | edits that do not overlap are all there, an enabled channel can send, a password is replaced by who knows it |
| Collector (`monitor/collector.go`) | none | sampling, a heartbeat per interval | heartbeats get lost | only its heartbeats are modelled |
| Notifiers, configuration, pages, frontend | little or none | formatting, sending, rendering | sequential | not in the scope of this model |

The hazards, each at its line and with the properties that cover it, are in
`PROJECT.json`.

## 2. Modules and plan

| Module | Models | Extends |
|---|---|---|
| `Leadership` | who leads in Raft, the flag, the outcomes of `Apply` | |
| `IncidentAlerts` | the tick of the engine for one monitored node | `Leadership` |
| `DeliveryLedger` | abstract: what alert delivery promises | |
| `IngressSync` | `syncIngress` and the DNS record | `Leadership` |
| `Membership` | join, change of role, removal | `Leadership` |
| `ClusterStart` | bootstrap, seeding of the directory, the join client and its process, composed with the handler of joins | `Membership` |
| `AdminSettings` | the administrator's requests, the submitter, the settings row and the sessions | `Leadership` |
| `HealthAssessment` | `assessNode`, the choice of observers, heartbeats and probes | |
| `ReplicatedStore` | the FSM, SQLite files, snapshots, replay, pruning | |
| `MC...` | values of the constants for TLC | the module of that name |
| `LeadershipProofs` | lemmas about the steps of `Leadership` | `Leadership` |
| `IncidentAlertsProofs`, `AdminSettingsProofs`, `HealthAssessmentProofs`, `ReplicatedStoreProofs` | theorems | the module of that name |
| `IngressSyncProofs`, `MembershipProofs`, `ClusterStartProofs` | theorems | the module of that name, `LeadershipProofs` |

Left in the plan:

1. An abstract specification of a join (a member is told what it then is), for
   `ClusterStart` to be shown to implement.
2. `RuntimeChecks`: the seeding of the checks from the file while an administrator
   changes them.

## 3. The modules and the code

### Leadership

Raft is external. Of it we keep `raftLeader` (whose entries are committed) and
`term` (elections so far). `isLeader` is the flag of `manager.go:111-136`. An
`Apply` by node *n* has one of these outcomes, which the other modules conjoin
with their effect:

- `Committed(n)`: flag and Raft agree that *n* leads; the entry is in the log and
  in *n*'s file, which by then has every earlier entry too;
- `Refused(n)`: one of them says no, nothing is written;
- `Deposed(n)`: Raft took the entry and lost leadership before answering. The
  caller gets an error; the entry is committed (`FailsCommitted`) or it is not
  (`Fails`).

A tick or a handler of a deposed node goes on: nothing in the code stops it. If
the node is elected again meanwhile its Applies succeed again. The histories
`straddled` and `raced` record when that happened; see the properties.

### IncidentAlerts

One monitored node, all its rules (`node:rule` is the id of an incident). State:
the committed rows `nodeState`, `incidents`, `deliveries`; `view[n]`, the replica
*n* reads; `tick[n]`, the loop with its locals; `clock`; `sends`, a history of the
calls of `notifier.Send`.

| Action | Code |
|---|---|
| `Evaluate` | `tick`, `evaluateNode` up to the first Apply: read the replica, any verdict, `updateStreaks` |
| `ApplyNodeState`, `RecordStateChangeEvent` | `engine.go:136-142`, `375-393` |
| `ReconcileIncidents` | the reads of `reconcileIncidents`: what is to be resolved |
| `ResolveIncident`, `SupersedeIncident` | the two loops over active incidents |
| `CheckIncident`, `OpenIncident` | `ActiveIncidentByRule`, `shouldRepeat`, the new incident |
| `ClaimDelivery`, `Send`, `CompleteDelivery` | `claimAndSend`, cut before and after each effect |
| `FinishAlert` | the incident event, then on with the loop |
| `CatchUp`, `Crash` | the FSM goroutine; a restart with the file it left, or with an old snapshot restored |

Which verdict `assessNode` gives is left open (any rule, any time): properties
hold whatever the observations say. The streaks stop at `StreakCap = 2` because
the code asks only whether they are at least two. Events are written and never
read by the engine; only that their Apply may fail is kept.

### IngressSync

State: `condition` (is a member fit, and seen by observers), the `ingress` row,
the `record` at Cloudflare, the replicas, and the loop of each node with the
number of failed attempts. `ReadIngress` makes the choice of
`selectIngressTargetPeer`; `AnnounceTarget` writes the row as not synced,
`UpdateRecord` and `FailRecord` are the attempts (a failed one may have been
carried out), `GiveUp` and `ConfirmTarget` the final row. `EvaluateNodes` stands
for all that `IncidentAlerts` does before it in the tick. A member stands for its
address. An update that Cloudflare carries out long after the client's timeout is
not modelled.

### Membership

State: the `directory` rows, Raft's `configuration`, the replicas of the
directory, and the requests under way with their locals (the row read, the
previous row, the call decided upon). A join writes the row and then asks Raft
(`BeginJoin`, `WriteRow`, `Decide`, `Call`) and rolls back after an error
(`Rollback`); a change of role and a removal ask Raft first (`BeginChange`,
`Decide`, `Call`, `WriteRow`). `RemoveSelf` is `handleLeaderSelfRemoval`. Raft
refuses configurations without voters or with a shared address, and a leader
that loses its vote steps down. A call may fail, be carried out although it
failed, or be abandoned because the client went away. A request that is answered
leaves its place for any other: sequences of requests have no bound.

A handler that has its member to itself and reads its last row ends a race for it
(`NotesRace`), and one that succeeds ends what an interrupted one has left
(`Mends`). So the histories `raced` and `torn` are about the present, and the
properties speak again of a member as soon as a request has been handled properly.

Reads without a write of the same handler in between are one step (the check for
the last voter and the comparison with the configuration in `Decide`): when the
configuration changes between the two, Raft refuses what the check would have.

A follower's replica is not read by anybody, so only those of nodes that may
be elected or take themselves for the leader (`Readers`) are kept up to date.

### ClusterStart

Extends `Membership` with what comes before its requests. Initially raft has been
bootstrapped with the founders (all of `cluster.peers`, or the one node of a
dynamic cluster) and the directory is empty.

| Action | Code |
|---|---|
| `BeginSeeding`, `SeedInTick` | `engine.tick` calls `EnsureMemberDirectorySeeded`: one Apply per peer, until one fails |
| `BeginSeedingFirst`, `SeedFirst` | the same by `JoinMember`, whose error is answered |
| `Ask`, `TimeOut` | `AutoJoin`, `tryJoinSeed`: a request, and a client that no longer waits for it |
| `NotHandled`, `HandleJoin`, `WriteJoin`, `DecideAndCall`, `RollBackJoin` | the steps of `Membership` and what the client makes of their answers |
| `StoreRaftState` | raft on the new node hears from the leader, maybe before the join is answered |
| `Die`, `Start` | the process ends; systemd starts it again, and `NeedsJoin` looks for raft state |
| `CrashNode` | ticks and handlers of a node are gone, their clients ask again |

An answer is `asking` (5xx, 503, a broken connection), `stopped` (409: a
conflict, or `ErrNotLeader`, whose text `isRetryableJoinStatus` does not take for
retryable) or `joined`. A 409 of a leader that is just being deposed stops the
process; it joins after its next start. The handler goes on when its client
gives up, so two handlers of one join may overlap.

A node has either `cluster.peers`, with itself among them, or it joins
(`UsesStaticPeers`; `Config.Validate` and `NeedsJoin` exclude both at once). A
joiner that is elected seeds a directory that looks empty to it with its own row
and no other, as the first node of a dynamic cluster does.

A seeding that is cut off after its first peer is never finished: the count is no
longer zero, and the founders that are missing vote without a row. The history
`cut` marks these behaviours, and `SeededInFull` is about the others.

### AdminSettings

State: the row `settings` (password and channels) and the `sessions` as committed,
`view[n]`, both as node *n* has them, the `handler` of each administrator with the
row it has read, and who has a `cookie`. An administrator may go to another node
with every request.

| Action | Code |
|---|---|
| `Begin` | a handler up to its submission: session, state of the row, password, validation, all from the node's replica (`Accepted`); requests that are refused change nothing and are left out |
| `SubmitSettings` | `Submitter.Apply` of the whole row, changed by `Updated` |
| `CreateSession`, `DeleteSession` | the session's command and the cookie |
| `ExpireSession` | 24 hours later |
| `CatchUp`, `Crash`, `ElectLeader`, `HearLeadership` | as in `IncidentAlerts` |

`Serves` says where a command goes: to this node's own raft if it takes itself for
the leader, and else in one HTTP request to some node, which must take itself for
it. `FailsCommitted` is an error for a command that is committed all the same; it
is by the time the handler gives up. Sessions are not ended by a new password, in
the code as in the model. A channel is complete if its required fields and, for
Telegram, a token are there; the token may come from the environment of the node
that validates, and nothing asks whether the leader that will send has it too.

### HealthAssessment

One target and its possible observers. Collector, probers and engine each run
once per interval, in any order (`SubmitHeartbeat`, `ProbeTarget`,
`EvaluateNodes`, then `NextRound`); each run may fail or not happen. `Verdict` is
`assessNode`: the value of `rule` is the rule key, except that `agentStale`,
`healthyLocal`, ... stand for `agent-stale`, `healthy-local`, ... The ages of
heartbeat and reports are counted in intervals, and what is exactly `Window`
intervals old may already be over 45 s or not. `stale` is the state that ties
the verdicts of different nodes together: an observer whose row is not fresh is
not assigned, so its probes stop and its earlier reports no longer count.

`IncidentAlerts` takes any verdict at any time, so nothing it shows depends on
this module.

### ReplicatedStore

State: the committed `log`, the SQLite `file` of each node, how much of the log
its Raft has `applied` and how much the file has `reached` at any time, its
newest `snapshot`, and the claim whose answer its engine `awaits`.

| Action | Code |
|---|---|
| `Put`, `Remove`, `CompleteDelivery`, `ClaimDelivery` | `Manager.Apply` with one of the 16 commands |
| `ApplyEntry` | `FSM.Apply` and the statement it executes |
| `TakeSnapshot`, `InstallSnapshot` | `FSM.Snapshot`, `FSM.Restore` |
| `RestartNode` | `NewRaft`: the newest snapshot, or the file as it is and the log from its start |
| `PruneOldData` | `PruneOldData` at the end of a tick |

All tables with a primary key are alike: an upsert that leaves some columns of a
row alone (`opened_at`, `created_at`), or a deletion. Two of them stand for all:
incidents, which are never deleted and are also changed by completions, and
`Others`. The answer to a claim is that of the claimant's own file, so whether a
key is granted depends on what this file has forgotten. Any node may lead, and
any node whose engine waits for nothing may prune, also one that was deposed.

## 4. What TLC checks

Deadlock is checked except in `admin_settings`, `cluster_start` and
`membership_truth`: there requests are bounded and a cluster that has formed has
nothing left to do.

| Run | Instance | Shows |
|---|---|---|
| `alerts_failover` | 2 nodes, 1 rule, 1 channel, 2 elections | `NoDuplicateSend`, `AlertsHaveIncident`, `NotifiedNeverSetBack`, and that the loops implement `DeliveryLedger` |
| `alerts_reminders` | 1 node, clock of 3 quarters of an hour, fair | `NotifiedNeverSetBack` as time passes, `SilentIncidentIsRetried`: a claim whose claimant died, or a failed send, is made up for by a reminder |
| `incidents_failover` | 2 nodes, 2 rules, no channel, 2 elections | `OneActiveIncident`, `IncidentsFollowState` |
| `incidents_converge` | 1 node, 2 rules, 4 elections, fair | `RecoveryIsRecorded`, `FailureIsRecorded`, with interrupted ticks and another incident to be superseded |
| `ingress_sync` | 2 candidates of equal priority, one unseen by observers, 2 elections, 2 attempts, fair | `SyncedMeansPointed`, `IngressKept`, `RecordFollowsUnlessStraddled` |
| `ingress_handoff` | 2 candidates, fair | violates `RecordFollowsIngress` (finding 1) |
| `membership_changes` | 2 founders, a third node that wants the address of one of them, 2 requests at a time, 2 elections | `AgreeUndisturbed`, `AddressesDistinct`, `RemovedComesBackByJoin` |
| `cluster_start` | 2 static founders, a third node with an address of its own or a taken one, 2 elections, fair | `SeededInFull`, `JoinedIsMember`, `JoinsInTheEnd` |
| `membership_truth` | 1 dynamic founder, a joiner, 2 handlers at a time, 2 elections | violates `DirectoryIsTruth` (finding 2) |
| `admin_settings` | 2 administrators, 2 nodes with different environments, 2 channels, 4 requests, 2 elections | `EditsSurvive`, `EnabledIsComplete`, `TakeoverNeedsPassword` |
| `health_rounds` | 2 observers, both needed, 45 s = 3 intervals | `GlitchIsTolerated`, `OutageIsDetected` |
| `replicated_store` | 2 nodes, 1 incident, 1 other row, 2 keys, snapshots of 1 delivery | `ReplicasAgree`, `ClaimsKept`, `GrantedOnce` |

Histories in the properties:

- `straddled`: some tick committed a write (or moved the record) in a later term
  than it began in. `OneActiveIncident`, `IncidentsFollowState`,
  `NotifiedNeverSetBack`, `SyncedMeansPointed` and `IngressKept` hold up to
  that. They do cover leaders that crash, lagging replicas, failed Applies, and
  deposed leaders as long as what these still try is refused. The alert ledger
  has no such exception.
- `torn` in `Membership`: members that a handler left between its two writes, and
  for which none has succeeded since. `raced`: members whose last handlers
  overlapped or read a lagging replica. It ends when the next handler begins alone;
  the member is `torn` then, until one succeeds.
- `cut` in `ClusterStart`: a seeding ended before its last peer.
- `promised` in `AdminSettings` is what the committed edits, one after another,
  make of the settings; `raced` says that a handler has read a row that was not
  the last one, or that two handlers overlapped. With a race an edit can be
  undone, and a second bootstrap can replace the first administrator: nothing
  compares the row with the one it replaces. The next edit that begins alone and
  reads the last row ends the race, and `promised` counts from that row.
- `calm`, `dark`, `spell` in `HealthAssessment`: rounds in a row in which all went
  well, or the target was down. `spoilt` says what the present round cannot be
  counted as any more.

What these exceptions leave out is in the code, and no property says that it does
not happen:

| Hazard | What does happen | What the properties say |
|---|---|---|
| a stale incident is written back (`engine.go:415`) | a deposed leader that is elected again while it resolves may set `LastNotifiedAt` back | `NotifiedNeverSetBack`: resolving and superseding within one term do not |
| a seeding is cut off (`membership.go:178`, `181`) | founders vote without a row | `SeededInFull`: nothing else leaves a peer out |
| a role is changed while its member is removed (`membership.go:265`) | the member has a row again, and may be in raft again | `RemovedComesBackByJoin`: nothing else but a join brings it back; `AgreeUndisturbed`: a success on its own mends it |
| a handler loses leadership between its two writes (`membership.go:315`), or demotes itself (`265`) | directory and raft differ | `AgreeUndisturbed`: they do not if the handler gets an answer to both, and the next success mends it |
| a removal meets a new leader that lags (`members.go:74`) | as with overlapping handlers | as above |
| two edits of the settings overlap (`admin.go:266`, `108`) | one is lost; one of two bootstraps replaces the other's password | `EditsSurvive`, `TakeoverNeedsPassword`: not otherwise, and not after the next edit on its own |
| a join is asked for again while its handler works (`join.go:95`) | the directory shows a member as removed | `DirectoryIsTruth` is violated (finding 2); `JoinedIsMember` leaves it out |

### Findings

1. `RecordFollowsIngress`. `syncIngress` does not look at leadership between its
   attempts. A leader that is deposed while it sleeps in its backoff updates the
   record to its old target after the successor has moved it and has written the
   row as synced. As the row says synced, no later tick does anything: the public
   name points at the wrong node until the next change of ingress.
2. `DirectoryIsTruth`. The client of a join waits 10 s, and so may its handler for
   raft. A client that asks again meets its own first handler: the second one writes
   the row once more, the call of the first fails and it rolls back to a removed
   row, the call of the second succeeds and the node is told that it has joined. The
   directory shows it as removed while raft replicates to it, and as it has raft
   state now it does not join again. Handlers of a removal and of a join, or of a
   change of role, that overlap end the same way. Nothing compares the two stores.

### Bounds, and why they are enough

- `MaxTerm` (2 to 4): a first leader, its successor, and with 2 nodes the first
  one again. One deposed and one current leader are what the hazards need. After
  the last election nothing is lost any more (no crash, no deposition, no
  lagging replica), which is also what lets liveness be checked: the model says
  "if leadership is stable in the end".
- 2 nodes: more followers do not write. 3 where a third address matters.
- `MaxTime`, `HalfHour`: reminders need two half-hour slots and a moment within
  each; the failover runs do not need the clock.
- `StreakCap = 2` as above. One monitored node: incidents of different nodes
  share no row.
- Snapshots: a restarted node is at the state it had or at the empty one. The
  states in between are those of a lagging replica.
- `Attempts = 2` of 4: the first attempt, one more, and the end of the list.
- `Window = 3`: 45 s with the default interval of 15 s. `Settle = 2` and `Detect = 4`
  are the smallest values for which the two properties hold: an outage is found
  in its fourth whole interval at the latest, and after an outage of the observers
  two calm rounds are needed until rows, assignments and probes agree again. That
  they suffice for every number of observers is proved. Two observers are what the
  threshold of two reports tells apart from one.
- `MaxLog = 3`: first claim, one that displaces it from a snapshot, and the first key
  again; or put, delete and put, or put, completion and put of one row, with
  restarts and snapshots before, between and after. `Limit = 1` for 300,
  `Retention = 0` and `MaxTime = 1`: a claim of the day before is expired.
- `incidents_converge` has one node: with two nodes and two rules its liveness takes
  several times as long, and what two nodes do to each other is in `incidents_failover`.
- `cluster_start` composes static founders (whose seeding takes two Applies) with a
  newcomer in dynamic mode, which the code allows; `membership_truth` is dynamic
  throughout (`Peers` is empty, the one founder seeds itself). `cluster_start` has one request at a time: handlers of one join that overlap are
  what finding 2 is about, and what `JoinedIsMember` and `JoinsInTheEnd` leave out
  by `Disturbed`. A client gives up, and a process dies, only while leadership may
  still move; a node that takes itself for the leader does not die there, as ticks
  and handlers that end with it are in `CrashNode`.
- `MaxRequests = 4`: a bootstrap, and three requests of which any two may overlap,
  be served by a lagging replica or lose their answer.
- `membership_changes`: one of the founders, which may lead, is demoted, removed and
  joins again; the third node wants the address of that one, so that both joins can
  pass the check while it is removed. Two requests overlap, which is what every
  hazard of membership needs, and requests are alike (symmetry). The other founder
  always votes, so the refusal to demote or remove the last voter is not reached
  here (raft refuses it as well); that is in the proofs only. `ToldApart` is the VIEW: states
  that differ in whether a raced member is torn, too, are one. That is sound, as
  the properties name both histories only as `torn \cup raced` or `raced`, and
  what of a raced member is torn makes no difference to the next value of either.
- `Fitness`, `Commands`: which conditions and requests occur in a run.

### Fairness

`FairSpec` assumes weak fairness of each node's loop (`engine.Run` ticks for
ever, and each step of a tick returns: SQLite calls, Apply with its timeout, HTTP
with its timeout), of the FSM goroutine, of the goroutine that drains
`NotifyCh`, and of an election while nobody leads. `IngressSync` adds strong
fairness of a successful DNS update: attempts are made again every tick, and
Cloudflare is assumed to answer some of them. Nothing is assumed of crashes, of
elections while somebody leads, or of `notifier.Send`.

`FairStartSpec` assumes weak fairness of ticks, of handlers that have begun and of
the next start of a process (systemd, `Restart=always`), and strong fairness of
three things that are tried over and over: a new node's request is sent (`AutoJoin`
loops), it reaches a leader that handles it (`HandleJoin`), and a configuration
change that a handler waits for is carried out (`CallGoesThrough`). The last two
say that the network and raft do not fail for ever; each single one may fail.

## 5. What is proved

Every invariant and every action property that a run checks is stated by a
theorem, for all sets of nodes, rules, channels, members, requests, rows and so
on, finite or not, and all values of the bounds. Only liveness is left to TLC.

Each invariant was strengthened until it was inductive, and TLC checked the
strengthening on small instances before it was proved. A bound such as `MaxTerm` is
an arbitrary natural number in a theorem, so no theorem depends on how often
leadership moves.

The assumptions are the ASSUMEs of the modules, by name, and TLC evaluates them in
every run. `NodesAssumption` and `MaxTermAssumption` of `Leadership` are common to
all modules but `HealthAssessment` and `ReplicatedStore`: `None` is not a node, and
the bound is a natural number.

### IncidentAlerts

| Theorem | States |
|---|---|
| `TypeCorrect` | `Spec => []TypeOK` |
| `AtMostOneSend` | `Spec => []NoDuplicateSend` |
| `LedgerImplemented` | `Spec => Ledger!LedgerSpec` |
| `AlertsAreAboutIncidents` | `Spec => []AlertsHaveIncident` |
| `OneIncidentAtATime` | `Spec => []OneActiveIncident` |
| `IncidentsFollowTheState` | `Spec => IncidentsFollowState` |
| `NotificationsAreKept` | `Spec => NotifiedNeverSetBack` |

Assumptions: `RulesAssumption`, `HalfHourAssumption`, `MaxTimeAssumption`,
`StreakCapAssumption`: the bounds are natural numbers, the half hour is not zero,
streaks reach two, and `Healthy` is not a rule.

- `TypeInv` adds to `TypeOK` what the place of a tick says about its locals (a
  tick at `send` has a key, one at `open` an unhealthy verdict). `TypeOK` alone is
  not inductive: the key it claims would not be known to be one.
- `NoDuplicateSend` is not inductive either: a tick about to send might find its
  key already sent. `LedgerInv` has three parts. `HolderInv`: the key of a tick
  that delivers is pending, and was sent exactly if the tick is past the call.
  `ExclusiveInv`: no two ticks hold one key; it follows from the claim being
  decided by the committed log and not by a replica. `CallsInv`: an unclaimed
  key was never sent, a claimed one at most once. A crash only drops a holder.
  Every step of the loop is then a step of `DeliveryLedger` or a stutter.
- `RecInv`: a row of `incidents` never disappears, no replica shows one that is
  not in the log, and the rules a tick still has to deal with have one.
- `FollowInv` is about the tick that may write: its node leads, in the term in
  which the tick began, and it has had an Apply committed (`Writer`). Such a tick
  knows the rows: its replica is up to date and the stored node state is the one it
  has written (`KnowsOf`), and what it is about to open, supersede or resolve is
  what that state asks for, with no other incident left active by the time it
  opens one (`PlanOf`). The first Apply of a tick is what makes this true of a
  lagging replica. `NotifiedInv`: no row or local has a time of notification
  that is later than now. `ListInv`: what the writer's list says of notifications
  is what the store has, so that a row that is resolved from the list loses
  nothing; it needs `PlaceInv`, which says where in the loop there is a list, and
  that the incident being told of is no longer in it.

### AdminSettings

| Theorem | States |
|---|---|
| `AdminTypes` | `Spec => []TypeOK` |
| `EnabledChannelsCanSend` | `Spec => []EnabledIsComplete` |
| `NoEditIsLost` | `Spec => []EditsSurvive` |
| `PasswordIsGiven` | `Spec => TakeoverNeedsPassword` |

Assumptions: `NonesAssumption`, `RequestsAssumption`, `SecretsAssumption` and
`MaxRequestsAssumption`: the bound is a natural number, `None` is not a password
or a set of fields, the requests are of the six kinds there are, and only channels
need or have secrets.

All four follow from `IInv`, which is inductive (`AdminInvariant`):

- `RowsInv`: every row is sound, be it the one that is stored, that of a replica
  or that of a handler: what is enabled in it can send, and without a password
  there is nothing else in it. `EnabledIsComplete` says so of the stored row only
  and is not inductive, since that row is replaced by one that a handler holds.
- `CheckedInv`: a handler that is about to submit has checked its request against
  the row it holds, not against the one it will replace.
- `RaceInv`: unless there was a race, whoever edits holds the stored row, and no
  one else edits. What it writes is then what `promised` becomes. An edit that
  ends a race begins in such a state, by what is read and who is at work.

Most steps neither write a row nor start an edit. They are one lemma,
`QuietStep`: handlers go on or stop (`HandlerStep`), replicas have the row they
had, the new one or none (`ViewStep`). Only `Begin` and a committed
`SubmitSettings` (`WritesRow`) need an argument of their own.

### IngressSync

| Theorem | States |
|---|---|
| `IngressTypes` | `Spec => []TypeOK` |
| `SyncedIsTrue` | `Spec => []SyncedMeansPointed` |
| `IngressStays` | `Spec => IngressKept` |

Assumptions: `CandidatesAssumption`, `AttemptsAssumption`: candidates are nodes,
and there is at least one attempt. Any order and any priorities will do.

`SyncedMeansPointed` is not inductive: a tick at its last Apply writes `synced`,
and the record has to be at its target by then. `IInv` says, as long as no tick
straddled terms: a tick that has announced its target in the present term is the
only one (`LateAlone`), the row is as it announced it, and the record points at
the target once it is about to confirm (`LateOf`); and a leader in its own term
chooses by rows that are still what they were when it read them (`ViewOf`). What
carries it is that a term has one leader and only a leader writes, so the others
can neither announce nor confirm in it.

### Membership

| Theorem | States |
|---|---|
| `MemberTypes` | `Spec => []TypeOK` |
| `DirectoryMatchesRaft` | `Spec => []AgreeUndisturbed` |
| `AddressesToldApart` | `Spec => []AddressesDistinct` |
| `RemovedStaysRemoved` | `Spec => RemovedComesBackByJoin` |

Assumptions: `CommandsAssumption`, `AddressesAssumption`, `FoundersAssumption`:
requests are of the three kinds, only joins bring an address, `None` is not one, and
there are founders, with addresses of their own.

`AgreeUndisturbed` says nothing while a handler is at work. `IInv` says what the
handler of a member knows at each of its places (`HandlerOf`), in two layers. Of a
member that is not raced for, torn or not, the part that lets a success mend it: a
join has its row in the directory once it is written, the others have raft say
what they are about to write. Of one that is not torn either, in addition: a join
that it can go back to the row it has read, since raft still says what that row
says, and that its own row is the one in the directory from the write to the
rollback; a change of role or a removal that raft says what the old row says until
its call, and what the new one says afterwards; and that the call it has decided
upon leads there (`Suits`). `OneHandler`: it is the only handler of this member.
`RestInv` is `Agree` for members that nobody handles. `AddressInv`: raft has no
address twice, which is what tells joins apart that both passed the check of the
directory.

### ClusterStart

| Theorem | States |
|---|---|
| `StartTypes` | `StartSpec => []StartTypeOK` |
| `PeersSeededInFull` | `StartSpec => []SeededInFull` |
| `JoinersAreMembers` | `StartSpec => []JoinedIsMember` |
| `JoinersToldApart` | `StartSpec => []AddressesDistinct` |

Assumptions besides those of `Membership`: `PeersAssumption` (the peers are the
founders, or there are none), `JoinersAssumption` (founders do not join),
`SeedersAssumption` (a request is not a node).

- `RowsOf`: nobody changes its address, so a node has one row and one server that
  it can be given; a founder is in raft from the beginning, only members of raft
  lead, and a replica shows nobody who is not in the directory.
- `SeedingOf`, `SeedInv`: a seeding writes rows of members of raft only. As long as
  the directory is empty nobody has joined, no handler has got beyond its seeding,
  and every seeding is at its start: so whoever writes the first row of all is
  seeding the peers, and every peer has a row or is still to be written by
  somebody. That is why it does no harm that each seeding looks at a replica of its
  own.
- `HandlerOf`, `OneWorker`, `RestOf`: what the handler of a join knows of an
  undisturbed joiner, as in `Membership`. New is that a seeding may write the
  joiner's row under the handler's hands: a joiner with a lagging replica that is
  elected seeds itself. It is in raft then, and the row it writes is the one it
  has (`SeedingStep`).
- `JoinerOf`: a client waits for a handler of its own, and who was told that it
  has joined is in raft.

### HealthAssessment

| Theorem | States |
|---|---|
| `HealthTypes` | `Spec => []TypeOK` |
| `OneGlitchIsTolerated` | `Window >= 3`, `Settle >= 2`: `Spec => []GlitchIsTolerated` |
| `OutageIsFound` | `Window >= 2`, `Detect > Window`: `Spec => []OutageIsDetected` |

Assumptions: `ObserversAssumption` (finitely many, none of them the collector or
the engine),
`PerTargetAssumption`, `RankAssumption` (digests are numbers),
`WindowAssumption`, `SymptomsAssumption`, `RoundsAssumption`.

The two results have hypotheses of their own, and TLC finds each violated without
them. `Window` is what 45 s are in loop intervals: 3 with the default of 15 s,
fewer with an interval that is set to more. So the first one says up to which
interval the fixed windows of the engine do what they are for.

- `GlitchInv`: as long as the round goes well what was heard in it is good
  (`RoundGoesWell`); after a calm round the good reports and the heartbeat are at
  most one round old, and one glitch makes them two (`KnownBefore`), which is
  still in time; the rows follow one round behind (`RowFollows`).
- `OutageInv`: while the target is down, nothing that was heard of it is younger
  than the outage, and every observer's last probe is of the present round or the
  one before (`DarkSince`). `AllAreEnough` and `SomebodyObserves` say that these
  are as many reports as are required, whatever the number of observers and of
  observers per target.

### ReplicatedStore

| Theorem | States |
|---|---|
| `StoreTypes` | `Spec => []TypeOK` |
| `CaughtUpReplicasAgree` | `Spec => []ReplicasAgree` |
| `ClaimsAreKept` | `Spec => []ClaimsKept` |
| `DeliveriesGrantedOnce` | `Spec => []GrantedOnce` |

Assumptions: `LimitAssumption`, `RetentionAssumption`, `BoundsAssumption`: numbers;
`NoTimeAssumption`, `NoRowAssumption`: `None` is not a time and not a row.

What a file holds depends on the whole log and on where it has been, so the
invariant says, for each row and entry by entry, what a file *must* show when `a`
entries have been applied since the last restart and `R` have been seen in all
(`RowOf`): nothing that was never put; nothing after a last deletion among the
first `a`; after a last put its value, and the stamp if a completion followed; and
the column that an upsert leaves alone as it was at the first put after the last
deletion. For a file that is level (`a = R`) these facts determine the row, which is
`ReplicasAgree`. Snapshots are files, with the same invariant.

`KnownAt` says of claims what `ClaimsKept` says, but at the time at which this
file was last pruned (a node that waits for the answer to a claim prunes nothing),
and of snapshots too. `GrantInv`: a claim that was granted had none before it
that the granting file could still have known. That a snapshot keeps the newest
`Limit` claims is a fact about cardinalities, from the library's theorems on
finite sets.

### What the proofs changed

- Tests that overlapped in a `CASE` (in `CallFor` of `Membership` and in `Verdict`
  of `HealthAssessment`): TLC takes the first that holds, the logic any of them. They
  are disjoint now, as the code's `if` and `else if` are.
- `ClusterStart` let a joiner that is elected with an empty replica seed the
  founders' peers, which its configuration does not have; the proof of `StartTypes`
  failed on it. It now seeds itself.
- `Settle` was 3 in the run of `HealthAssessment`; the proof needed 2, and so does
  the run.

### What is only model-checked

- Liveness: `RecoveryIsRecorded`, `FailureIsRecorded`, `SilentIncidentIsRetried`,
  `RecordFollowsUnlessStraddled`, `JoinsInTheEnd`. They need fairness and ENABLED,
  which the prover does not handle.
- The two violations of section 4: a counterexample is a finding of TLC's.

## 6. What is not modelled

- Errors of SQLite and a full disk; Raft's enqueue timeout in `Apply` while the
  leader stays (a `Refused` with the same effect is modelled when leadership is
  lost).
- Forgotten claims in `IncidentAlerts`: it speaks of a cluster in which no claim
  is forgotten. `GrantedOnce` says when that is so: within the retention time of
  the first claim of a key and before 300 others.
- Files that are behind and ahead at once: before its first snapshot a restarted
  node replays the log onto its full file, and shows old rows of one table next
  to new rows of another until it is level. `ReplicatedStore` has these files;
  the nodes that decide in `IncidentAlerts` read a state the log once had.
- Samples and events, which only grow, and expired sessions.
- Errors of the alert resolver (settings that cannot be read): `sendAlert` returns
  them and its caller logs them and goes on, so that nobody is told, as with no
  channel.
- `Membership`, `ClusterStart`: API addresses apart from Raft addresses, events, a
  new voter that cannot be reached and so costs the quorum, the order in which seeds
  are asked and the delays between rounds, and changes by administrators while the
  cluster is being started.
- `AdminSettings`: runtime checks and node names (rows of their own, which a handler
  writes without having read them), a command that is committed only after its
  handler has given up, the merging of a channel with the configuration file, and
  guesses of passwords.
- `HealthAssessment`: clocks of nodes that differ, a loop interval of more than a
  third of the window, and rows that reach the probers late.
- The inventory and the configuration file: pure, sequential functions of one file
  with unit tests; `ClusterStart` takes what they produce as constants. An
  inventory whose first node is to be a nonvoter is outside of the runs: the code
  bootstraps it as a voter and gives it a row that says nonvoter.
- Sampling, the single probes, notifiers, password hashing, configuration, rendering, pages
  and frontend: no interleaving of their own; the unit tests cover them.
