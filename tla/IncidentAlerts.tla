--------------------------- MODULE IncidentAlerts ---------------------------
(***************************************************************************)
(* The leader loop of internal/engine for one monitored node: evaluate it, *)
(* record its state, reconcile its incidents and deliver their alerts.     *)
(* Every node of the cluster runs the loop; each write is one Manager.Apply*)
(* and may fail, and leadership may move between any two of them.          *)
(*                                                                         *)
(* nodeState, incidents and deliveries are the rows that the committed log *)
(* gives.  A node reads its own SQLite file, view[n], which holds an       *)
(* earlier prefix of the log until n applies one of its own commands.      *)
(* Events are written and never read back by the engine: only the Apply of *)
(* an event, which can fail, is kept.                                      *)
(***************************************************************************)
EXTENDS Leadership, Integers, FiniteSets

CONSTANTS
    Rules,      \* rule keys of the unhealthy verdicts of assessNode
    Healthy,    \* the healthy verdict
    Channels,   \* the notifiers that the alert resolver builds
    HalfHour,   \* clock units in 30 minutes
    MaxTime,    \* bound of the clock
    StreakCap   \* bound of the streaks; only "at least two" is ever asked

ASSUME RulesAssumption == Healthy \notin Rules
ASSUME HalfHourAssumption == HalfHour \in Nat \ {0}
ASSUME MaxTimeAssumption == MaxTime \in Nat
ASSUME StreakCapAssumption == StreakCap \in Nat /\ StreakCap >= 2

VARIABLES
    clock,
    nodeState,  \* node_states row: rule and the two streaks
    incidents,  \* incidents row of every rule (its id is node:rule)
    deliveries, \* alert_deliveries: status by delivery key
    view,       \* each node's replica of nodeState and incidents
    tick,       \* the loop goroutine of each node: where it is, its locals
    sends,      \* history: calls of notifier.Send by delivery key
    straddled   \* history: some tick wrote in a later term than it began in

storeVars == <<nodeState, incidents, deliveries>>
vars == <<leadershipVars, clock, storeVars, view, tick, sends, straddled>>

Verdicts == Rules \cup {Healthy}
NoState == [rule |-> None, bad |-> 0, good |-> 0]
NodeStates == [rule : Verdicts, bad : 0..StreakCap, good : 0..StreakCap]
                  \cup {NoState}

Never == -1                       \* LastNotifiedAt = nil
Incidents == [status : {"absent", "active", "resolved"},
              notified : -1..MaxTime]
Views == [node : NodeStates, incidents : [Rules -> Incidents]]

\* deliverySlot: one slot for opened, one for resolved, one per half hour.
Slots == {<<"opened", 0>>, <<"resolved", 0>>}
             \cup ({"reminder"} \X (0..(MaxTime \div HalfHour)))
Keys == [rule : Rules, channel : Channels, slot : Slots]
NoKey == [rule |-> None, channel |-> None, slot |-> <<"opened", 0>>]
Statuses == {"unclaimed", "pending", "sent", "failed"}

Steps == {"idle", "applyState", "applyEvent", "reconcile", "resolve",
          "supersede", "check", "open", "alert", "send", "complete"}
Ticks == [pc : Steps,
          term : 0..MaxTerm,      \* history: the term in which it began
          next : NodeStates,      \* the state it computed
          announce : BOOLEAN,     \* whether that differs from the one before
          todo : SUBSET [rule : Rules, notified : -1..MaxTime],
                                  \* incidents still to resolve
          action : {"none", "opened", "resolved", "reminder"},
          rule : Rules \cup {None},
          channels : SUBSET Channels,
                                  \* sendAlert: action, incident, channels left
          key : Keys \cup {NoKey},
          outcome : {"none", "sent", "failed"}]
                                  \* claimAndSend: key, what Send returned
NoTick == [pc |-> "idle", term |-> 0, next |-> NoState, announce |-> FALSE,
           todo |-> {}, action |-> "none", rule |-> None, channels |-> {},
           key |-> NoKey, outcome |-> "none"]

TypeOK ==
    /\ LeadershipTypeOK
    /\ clock \in 0..MaxTime
    /\ nodeState \in NodeStates
    /\ incidents \in [Rules -> Incidents]
    /\ deliveries \in [Keys -> Statuses]
    /\ view \in [Nodes -> Views]
    /\ tick \in [Nodes -> Ticks]
    /\ sends \in [Keys -> Nat]
    /\ straddled \in BOOLEAN

Init ==
    /\ LeadershipInit
    /\ clock = 0
    /\ nodeState = NoState
    /\ incidents = [r \in Rules |-> [status |-> "absent", notified |-> Never]]
    /\ deliveries = [k \in Keys |-> "unclaimed"]
    /\ view = [n \in Nodes |-> [node |-> nodeState, incidents |-> incidents]]
    /\ tick = [n \in Nodes |-> NoTick]
    /\ sends = [k \in Keys |-> 0]
    /\ straddled = FALSE

-----------------------------------------------------------------------------
(* Manager.Apply and the FSM                                               *)

\* A command is committed.  The nodes of first have applied it by then; each of
\* the others has or has not.  After the last election their lag can matter to
\* no writer, and all have (a bound, as MaxTerm is).
Replicates(first) ==
    \E behind \in SUBSET (Nodes \ first) :
        /\ behind = {} \/ LeadershipMayMove
        /\ view' = [n \in Nodes |->
                       IF n \in behind THEN view[n]
                       ELSE [node |-> nodeState', incidents |-> incidents']]

NotesTerm(n) == straddled' = (straddled \/ tick[n].term # term)

\* Apply answered without error: the command is in the log, n has applied it.
Succeeds(n) == Committed(n) /\ Replicates({n}) /\ NotesTerm(n)

\* Apply answered with an error and nothing was written ...
Fails(n) ==
    /\ Refused(n) \/ Deposed(n)
    /\ UNCHANGED <<storeVars, view, straddled>>

\* ... or the entry was already on its way and is committed after all.
FailsCommitted(n) == Deposed(n) /\ Replicates({}) /\ NotesTerm(n)

\* Reads and local work between two Applies.
NoApply == UNCHANGED <<leadershipVars, storeVars, view, straddled>>

\* UpsertIncident
PutIncident(r, status, notified) ==
    /\ incidents' = [incidents EXCEPT
                        ![r] = [status |-> status, notified |-> notified]]
    /\ UNCHANGED <<nodeState, deliveries>>

\* Mutants: a failed delivery may be claimed again; a status nobody knows.
ClaimableAgain(k) == deliveries[k] \in {"unclaimed", "failed"}
PutUnknownClaim(k) ==
    deliveries' = [deliveries EXCEPT ![k] = "claimed"]
        /\ UNCHANGED <<nodeState, incidents>>

\* ClaimAlertDelivery: INSERT OR IGNORE of a pending row; the claimant is told
\* whether a row was inserted.
Claimable(k) == deliveries[k] = "unclaimed"

PutClaim(k) ==
    /\ deliveries' = [deliveries EXCEPT
                         ![k] = IF Claimable(k) THEN "pending" ELSE @]
    /\ UNCHANGED <<nodeState, incidents>>

\* Mutant: a failed delivery gives its key back.
PutCompletionOrRelease(k, status) ==
    /\ deliveries' = [deliveries EXCEPT
                         ![k] = IF status = "sent" THEN "sent" ELSE "unclaimed"]
    /\ UNCHANGED <<nodeState, incidents>>

\* CompleteAlertDelivery, then UpdateIncidentLastNotified if it was sent.
PutCompletion(k, status) ==
    /\ deliveries' = [deliveries EXCEPT ![k] = status]
    /\ incidents' = IF status = "sent" /\ incidents[k.rule].status # "absent"
                    THEN [incidents EXCEPT ![k.rule].notified = clock]
                    ELSE incidents
    /\ UNCHANGED nodeState

-----------------------------------------------------------------------------
(* The loop                                                                *)

At(n, step) == tick[n].pc = step

Goto(n, step) == tick' = [tick EXCEPT ![n].pc = step]

\* evaluateNode returns: its locals are gone.
Return(n) == tick' = [tick EXCEPT ![n] = NoTick]

\* sendAlert(action, incident of rule r) begins with every channel to do.
BeginAlert(n, action, r) ==
    tick' = [tick EXCEPT ![n].pc = "alert", ![n].action = action,
                         ![n].rule = r, ![n].channels = Channels]

Capped(streak) == IF streak < StreakCap THEN streak + 1 ELSE StreakCap

\* Mutants: the bad, the good streak restarts with every evaluation.
RestartBadStreak(verdict, prev) ==
    IF verdict = Healthy THEN [rule |-> Healthy, bad |-> 0, good |-> 2]
                         ELSE [rule |-> verdict, bad |-> 1, good |-> 0]
RestartGoodStreak(verdict, prev) ==
    IF verdict = Healthy THEN [rule |-> Healthy, bad |-> 0, good |-> 1]
                         ELSE [rule |-> verdict, bad |-> 2, good |-> 0]

\* updateStreaks
UpdateStreaks(verdict, prev) ==
    IF verdict = Healthy
    THEN [rule |-> Healthy, bad |-> 0,
          good |-> IF prev.rule = Healthy THEN Capped(prev.good) ELSE 1]
    ELSE [rule |-> verdict, good |-> 0,
          bad |-> IF prev.rule = verdict THEN Capped(prev.bad) ELSE 1]

\* tick and the first half of evaluateNode: read the replica and assess it; the
\* verdict depends on heartbeats and probes, which may say anything; a rule fixes
\* the status, but some come with two reasons, so a state may be reworded.  A
\* streak always moves, so stateChanged holds and the state is always written.
Evaluate(n) ==
    /\ At(n, "idle")
    /\ isLeader[n]
    /\ \E verdict \in Verdicts, reworded \in BOOLEAN :
         LET prev == view[n].node
         IN  tick' = [tick EXCEPT ![n].pc = "applyState",
                                  ![n].term = term,
                                  ![n].next = UpdateStreaks(verdict, prev),
                                  ![n].announce = (reworded \/ verdict # prev.rule)]
    /\ NoApply
    /\ UNCHANGED <<clock, sends>>

ApplyNodeState(n) ==
    /\ At(n, "applyState")
    /\ \/ /\ nodeState' = tick[n].next
          /\ UNCHANGED <<incidents, deliveries>>
          /\ \/ /\ Succeeds(n)
                /\ Goto(n, IF tick[n].announce THEN "applyEvent" ELSE "reconcile")
             \/ FailsCommitted(n) /\ Return(n)
       \/ Fails(n) /\ Return(n)
    /\ UNCHANGED <<clock, sends>>

\* recordStateChangeEvent: an error leaves evaluateNode before the incidents.
RecordStateChangeEvent(n) ==
    /\ At(n, "applyEvent")
    /\ \/ UNCHANGED storeVars /\ Succeeds(n) /\ Goto(n, "reconcile")
       \/ Fails(n) /\ Return(n)
    /\ UNCHANGED <<clock, sends>>

\* Mutants: the list leaves out when they were notified; only the healthy branch
\* lists them, nothing is superseded.
ActiveIncidentsUntold(n, rules) ==
    {[rule |-> r, notified |-> Never] :
        r \in {q \in rules : view[n].incidents[q].status = "active"}}
ActiveIncidentsIfHealthy(n, rules) ==
    {[rule |-> r, notified |-> view[n].incidents[r].notified] :
        r \in {q \in Rules : rules = Rules
                                 /\ view[n].incidents[q].status = "active"}}

\* The incidents of the given rules that the store of n shows as active.
ActiveIncidents(n, rules) ==
    {[rule |-> r, notified |-> view[n].incidents[r].notified] :
        r \in {q \in rules : view[n].incidents[q].status = "active"}}

\* reconcileIncidents, the reads: which active incidents are to be resolved.
ReconcileIncidents(n) ==
    LET state == tick[n].next
    IN  /\ At(n, "reconcile")
        /\ \/ /\ state.rule = Healthy /\ state.good < 2
              /\ Return(n)
           \/ /\ state.rule = Healthy /\ state.good >= 2
              /\ tick' = [tick EXCEPT ![n].pc = "resolve",
                                      ![n].todo = ActiveIncidents(n, Rules)]
           \/ /\ state.rule # Healthy
              /\ tick' = [tick EXCEPT ![n].pc = "supersede",
                     ![n].todo = ActiveIncidents(n, Rules \ {state.rule})]
        /\ NoApply
        /\ UNCHANGED <<clock, sends>>

\* The healthy branch: resolve one incident, then tell every channel.
ResolveIncident(n) ==
    /\ At(n, "resolve")
    /\ \/ \E inc \in tick[n].todo :
            /\ PutIncident(inc.rule, "resolved", inc.notified)
            /\ \/ /\ Succeeds(n)
                  /\ tick' = [tick EXCEPT ![n].pc = "alert",
                                 ![n].todo = @ \ {inc},
                                 ![n].action = "resolved",
                                 ![n].rule = inc.rule,
                                 ![n].channels = Channels]
               \/ FailsCommitted(n) /\ Return(n)
       \/ tick[n].todo # {} /\ Fails(n) /\ Return(n)
       \/ tick[n].todo = {} /\ NoApply /\ Return(n)
    /\ UNCHANGED <<clock, sends>>

\* The unhealthy branch: incidents of other rules are resolved without a word.
SupersedeIncident(n) ==
    /\ At(n, "supersede")
    /\ \/ \E inc \in tick[n].todo :
            /\ PutIncident(inc.rule, "resolved", inc.notified)
            /\ \/ /\ Succeeds(n)
                  /\ tick' = [tick EXCEPT ![n].todo = @ \ {inc}]
               \/ FailsCommitted(n) /\ Return(n)
       \/ tick[n].todo # {} /\ Fails(n) /\ Return(n)
       \/ tick[n].todo = {} /\ NoApply /\ Goto(n, "check")
    /\ UNCHANGED <<clock, sends>>

\* Mutant: an incident that was never notified is not due.
ShouldRepeatKnown(notified) == notified # Never /\ clock - notified >= HalfHour

ShouldRepeat(notified) == notified = Never \/ clock - notified >= HalfHour

\* Mutants: opened on the first failure; opened although it is open already.
ShouldOpenAtOnce(state, active) == ~active
ShouldOpenAgain(state, active) == state.bad >= 2

ShouldOpen(state, active) == ~active /\ state.bad >= 2

\* ActiveIncidentByRule, and what follows from it: open, remind, or nothing.
CheckIncident(n) ==
    LET state == tick[n].next
        incident == view[n].incidents[state.rule]
        active == incident.status = "active"
        opens == ShouldOpen(state, active)
        reminds == active /\ ShouldRepeat(incident.notified)
    IN  /\ At(n, "check")
        /\ \/ opens /\ Goto(n, "open")
           \/ reminds /\ BeginAlert(n, "reminder", state.rule)
           \/ ~opens /\ ~reminds /\ Return(n)
        /\ NoApply
        /\ UNCHANGED <<clock, sends>>

\* Mutant: the alert goes out whether or not the incident was committed.
OpenIncidentAnyway(n) ==
    /\ At(n, "open")
    /\ \/ PutIncident(tick[n].next.rule, "active", Never) /\ Succeeds(n)
       \/ Fails(n)
    /\ BeginAlert(n, "opened", tick[n].next.rule)
    /\ UNCHANGED <<clock, sends>>

OpenIncident(n) ==
    /\ At(n, "open")
    /\ \/ /\ PutIncident(tick[n].next.rule, "active", Never)
          /\ \/ Succeeds(n) /\ BeginAlert(n, "opened", tick[n].next.rule)
             \/ FailsCommitted(n) /\ Return(n)
       \/ Fails(n) /\ Return(n)
    /\ UNCHANGED <<clock, sends>>

-----------------------------------------------------------------------------
(* sendAlert and claimAndSend                                              *)

DeliverySlot(action) ==
    IF action = "reminder" THEN <<"reminder", clock \div HalfHour>>
                           ELSE <<action, 0>>

DeliveryKey(n, c) == [rule |-> tick[n].rule, channel |-> c,
                      slot |-> DeliverySlot(tick[n].action)]

\* claimAndSend up to the claim.  Whatever keeps this channel from being sent
\* to (an error, a key that is taken) moves sendAlert on to the next one.
ClaimDelivery(n) ==
    /\ At(n, "alert")
    /\ \E c \in tick[n].channels :
         LET k == DeliveryKey(n, c)
             Skip == tick' = [tick EXCEPT ![n].channels = @ \ {c}]
         IN  \/ /\ PutClaim(k)
                /\ \/ ~Claimable(k) /\ Succeeds(n) /\ Skip
                   \/ /\ Claimable(k)
                      /\ Succeeds(n)
                      /\ tick' = [tick EXCEPT ![n].channels = @ \ {c},
                                              ![n].pc = "send", ![n].key = k]
                   \/ FailsCommitted(n) /\ Skip
             \/ Fails(n) /\ Skip
    /\ UNCHANGED <<clock, sends>>

\* notifier.Send leaves the cluster; an error says nothing about arrival.
Send(n) ==
    /\ At(n, "send")
    /\ sends' = [sends EXCEPT ![tick[n].key] = @ + 1]
    /\ \E result \in {"sent", "failed"} :
         tick' = [tick EXCEPT ![n].pc = "complete", ![n].outcome = result]
    /\ NoApply
    /\ UNCHANGED clock

\* The completion.  Its error is logged by sendAlert and otherwise dropped.
CompleteDelivery(n) ==
    /\ At(n, "complete")
    /\ \/ /\ PutCompletion(tick[n].key, tick[n].outcome)
          /\ Succeeds(n) \/ FailsCommitted(n)
       \/ Fails(n)
    /\ tick' = [tick EXCEPT ![n].pc = "alert", ![n].key = NoKey,
                            ![n].outcome = "none"]
    /\ UNCHANGED <<clock, sends>>

\* Every channel is done.  opened and resolved add an incident event; after a
\* resolved one the loop over the active incidents goes on.
FinishAlert(n) ==
    /\ At(n, "alert")
    /\ tick[n].channels = {}
    /\ \/ /\ tick[n].action = "resolved"
          /\ UNCHANGED storeVars /\ Succeeds(n)
          /\ tick' = [tick EXCEPT ![n].pc = "resolve", ![n].action = "none",
                                  ![n].rule = None]
       \/ /\ tick[n].action = "opened"
          /\ UNCHANGED storeVars /\ Succeeds(n)
          /\ Return(n)
       \/ tick[n].action # "reminder" /\ Fails(n) /\ Return(n)
       \/ tick[n].action = "reminder" /\ NoApply /\ Return(n)
    /\ UNCHANGED <<clock, sends>>

-----------------------------------------------------------------------------
(* The surroundings                                                        *)

\* The FSM of n applies the log as far as it is committed now.
CatchUp(n) ==
    /\ view[n] # [node |-> nodeState, incidents |-> incidents]
    /\ view' = [view EXCEPT ![n] = [node |-> nodeState, incidents |-> incidents]]
    /\ UNCHANGED <<leadershipVars, clock, storeVars, tick, sends, straddled>>

EmptyView == [node |-> NoState,
              incidents |-> [r \in Rules |-> [status |-> "absent",
                                              notified |-> Never]]]

\* A crash loses the tick.  The store of n is a file and survives, but raft
\* restores its last snapshot into it and replays the log from there.  Of the
\* moments at which it may have been taken we keep the extremes (a bound):
\* just now, and before the first row about the monitored node.
Crash(n) ==
    /\ ~At(n, "idle")
    /\ Restart(n)
    /\ Return(n)
    /\ \E restored \in {view[n], EmptyView} :
         view' = [view EXCEPT ![n] = restored]
    /\ UNCHANGED <<clock, storeVars, sends, straddled>>

ElectLeader(n) ==
    /\ Elect(n)
    /\ UNCHANGED <<clock, storeVars, view, tick, sends, straddled>>

HearLeadership(n) ==
    /\ WatchLeadership(n)
    /\ UNCHANGED <<clock, storeVars, view, tick, sends, straddled>>

Advance ==
    /\ clock < MaxTime
    /\ clock' = clock + 1
    /\ UNCHANGED <<leadershipVars, storeVars, view, tick, sends, straddled>>

\* One step of the tick of n.
Loop(n) ==
    \/ Evaluate(n)
    \/ ApplyNodeState(n)
    \/ RecordStateChangeEvent(n)
    \/ ReconcileIncidents(n)
    \/ ResolveIncident(n)
    \/ SupersedeIncident(n)
    \/ CheckIncident(n)
    \/ OpenIncident(n)
    \/ ClaimDelivery(n)
    \/ Send(n)
    \/ CompleteDelivery(n)
    \/ FinishAlert(n)

Next ==
    \/ \E n \in Nodes :
         \/ Loop(n)
         \/ CatchUp(n)
         \/ Crash(n)
         \/ ElectLeader(n)
         \/ HearLeadership(n)
    \/ Advance

Spec == Init /\ [][Next]_vars

\* The ticker runs the loop again and again; the FSM goroutine applies what is
\* committed; NotifyCh is drained; raft elects somebody when nobody leads.
Fairness ==
    /\ \A n \in Nodes :
         /\ WF_vars(Loop(n))
         /\ WF_vars(CatchUp(n))
         /\ WF_vars(HearLeadership(n))
    /\ WF_vars(raftLeader = None /\ \E n \in Nodes : ElectLeader(n))

FairSpec == Spec /\ Fairness

-----------------------------------------------------------------------------
(* Properties                                                              *)

Active(r) == incidents[r].status = "active"

\* Whatever leaders come and go, and however often the engine of one of them
\* is interrupted, a delivery key is handed to notifier.Send at most once.
NoDuplicateSend == \A k \in Keys : sends[k] <= 1

\* An alert, be it only claimed, is about an incident that is in the store:
\* the incident is committed before sendAlert is called.
AlertsHaveIncident ==
    \A k \in Keys :
        deliveries[k] # "unclaimed" => incidents[k.rule].status # "absent"

\* Two incidents of one node are active together only if a tick that began in
\* one term went on writing in a later one.  A new leader whose replica lags
\* does not cause it: its first Apply brings the replica up to date.
OneActiveIncident ==
    \/ \A q, r \in Rules : Active(q) /\ Active(r) => q = r
    \/ straddled

\* Incidents follow the recorded node state, with the same exception: one is
\* opened only while the store shows its rule twice in a row, and closed only
\* while the store shows two good evaluations or another rule.
IncidentsFollowState ==
    [][ \/ straddled'
        \/ \A r \in Rules :
             /\ ~Active(r) /\ Active(r)'
                  => nodeState.rule = r /\ nodeState.bad >= 2
             /\ Active(r) /\ ~Active(r)'
                  => \/ nodeState.rule = Healthy /\ nodeState.good >= 2
                     \/ nodeState.rule \in Rules \ {r} ]_vars

\* The LastNotifiedAt of an active incident is never set back or cleared, so that
\* a later leader does not remind too early: not by a completion, and not by a row
\* that is written back as resolved or superseded as it was read some steps
\* before, unless the tick went on from an earlier term.
NotifiedNeverSetBack ==
    [][ \/ straddled'
        \/ \A r \in Rules :
             Active(r) => incidents[r].notified <= incidents'[r].notified ]_vars

\* The rows of alert_deliveries and the calls of the notifiers go through the
\* steps of DeliveryLedger and no others.
Ledger == INSTANCE DeliveryLedger WITH status <- deliveries, calls <- sends
ImplementsLedger == Ledger!LedgerSpec

\* Once every verdict is that the node is healthy, every incident is resolved and stays so, no
\* matter which leaders crashed in the middle of reconciling.
RecoveryIsRecorded ==
    <>[](\A n \in Nodes : tick[n].next.rule \in {Healthy, None})
        => <>[](\A r \in Rules : ~Active(r))

\* Once a rule keeps failing, its incident and no other is active for good.
FailureIsRecorded ==
    \A r \in Rules :
        <>[](\A n \in Nodes : tick[n].next.rule \in {r, None})
            => <>[](\A q \in Rules : Active(q) <=> q = r)

\* An active incident of which no notification is known does not stay silent:
\* it ends, is notified, or the reminder of this half hour is claimed for
\* every channel.
SilentIncidentIsRetried ==
    \A r \in Rules :
        Active(r) /\ incidents[r].notified = Never
            ~> \/ ~Active(r)
               \/ incidents[r].notified # Never
               \/ \A c \in Channels :
                    deliveries[[rule |-> r, channel |-> c,
                                slot |-> DeliverySlot("reminder")]] # "unclaimed"

=============================================================================
