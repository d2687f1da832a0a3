------------------------ MODULE IncidentAlertsProofs ------------------------
(***************************************************************************)
(* Theorems about IncidentAlerts, for every set of nodes, rules and        *)
(* channels and every value of the bounds.                                 *)
(***************************************************************************)
EXTENDS IncidentAlerts, TLAPS

(***************************************************************************)
(* What the place of a tick says about its locals.                         *)
(***************************************************************************)
Delivering(n) == tick[n].pc \in {"send", "complete"}

ShapeOf(t) ==
    /\ t.pc # "idle" => t.next.rule \in Verdicts
    /\ t.pc \in {"alert", "send", "complete"}
         => t.rule \in Rules /\ t.action # "none"
    /\ t.pc \in {"supersede", "check", "open"} => t.next.rule \in Rules
    /\ t.pc \in {"send", "complete"} => t.key \in Keys
    /\ t.pc = "complete" => t.outcome # "none"

TickShape == \A n \in Nodes : ShapeOf(tick[n])

(***************************************************************************)
(* Who holds a key: the row it claimed is pending, nobody else holds it,   *)
(* and Send was called for it exactly if its tick is past the call.        *)
(***************************************************************************)
HolderInv ==
    \A n \in Nodes :
        /\ Delivering(n) => deliveries[tick[n].key] = "pending"
        /\ tick[n].pc = "send" => sends[tick[n].key] = 0
        /\ tick[n].pc = "complete" => sends[tick[n].key] = 1

ExclusiveInv ==
    \A m, n \in Nodes :
        Delivering(m) /\ Delivering(n) /\ tick[m].key = tick[n].key => m = n

CallsInv ==
    \A k \in Keys :
        /\ sends[k] \in {0, 1}
        /\ deliveries[k] = "unclaimed" => sends[k] = 0

LedgerInv == HolderInv /\ ExclusiveInv /\ CallsInv

(***************************************************************************)
(* An incident row never goes away, no replica is ahead of the log, and    *)
(* every alert under way is about a row that is there.                     *)
(***************************************************************************)
Recorded(r) == incidents[r].status # "absent"

RecordedInv ==
    /\ \A n \in Nodes, r \in Rules :
         view[n].incidents[r].status # "absent" => Recorded(r)
    /\ \A n \in Nodes : \A inc \in tick[n].todo : Recorded(inc.rule)
    /\ \A n \in Nodes :
         tick[n].pc \in {"alert", "send", "complete"} => Recorded(tick[n].rule)

-----------------------------------------------------------------------------
USE NodesAssumption, MaxTermAssumption, RulesAssumption, HalfHourAssumption,
    MaxTimeAssumption, StreakCapAssumption
  DEF NodesAssumption, MaxTermAssumption, RulesAssumption, HalfHourAssumption,
      MaxTimeAssumption, StreakCapAssumption

\* The half hour of a moment within the bound is within the bound.
LEMMA SlotInRange ==
    ASSUME NEW c \in 0..MaxTime
    PROVE  c \div HalfHour \in 0..(MaxTime \div HalfHour)
<1> DEFINE q == c \div HalfHour
           p == MaxTime \div HalfHour
<1>1. /\ q \in Int /\ HalfHour * q <= c /\ c < HalfHour * (q + 1)
      /\ p \in Int /\ HalfHour * p <= MaxTime /\ MaxTime < HalfHour * (p + 1)
  OBVIOUS
<1>2. q >= 0
  BY <1>1
<1>3. q <= p
  BY <1>1
<1> QED
  BY <1>1, <1>2, <1>3

-----------------------------------------------------------------------------
(* Type correctness                                                        *)

TypeInv == TypeOK /\ TickShape

\* A tick that is replaced by a well-formed one keeps all ticks well-formed.
LEMMA TickStep ==
    ASSUME TypeInv, NEW n \in Nodes, NEW t \in Ticks, ShapeOf(t),
           tick' = [tick EXCEPT ![n] = t]
    PROVE  tick' \in [Nodes -> Ticks] /\ TickShape'
BY DEF TypeInv, TypeOK, TickShape, ShapeOf

LEMMA NoTickType == NoTick \in Ticks /\ ShapeOf(NoTick)
BY DEF NoTick, Ticks, ShapeOf, Steps, NodeStates, NoState

\* Returning from evaluateNode leaves a well-formed tick.
LEMMA ReturnType ==
    ASSUME TypeInv, NEW n \in Nodes, Return(n)
    PROVE  tick' \in [Nodes -> Ticks] /\ TickShape'
BY NoTickType, TickStep DEF Return

\* Whatever an Apply ends with, leadership, replicas and history stay typed.
LEMMA ApplyType ==
    ASSUME TypeOK, NEW n \in Nodes,
           nodeState' \in NodeStates, incidents' \in [Rules -> Incidents],
           Succeeds(n) \/ FailsCommitted(n) \/ Fails(n) \/ NoApply
    PROVE  /\ LeadershipTypeOK'
           /\ view' \in [Nodes -> Views]
           /\ straddled' \in BOOLEAN
<1>1. LeadershipTypeOK'
  BY DEF TypeOK, Succeeds, FailsCommitted, Fails, NoApply, Committed, Refused,
         Deposed, leadershipVars, LeadershipTypeOK
<1>2. view' \in [Nodes -> Views]
  <2>1. CASE UNCHANGED view
    BY <2>1 DEF TypeOK
  <2>2. CASE Replicates({n}) \/ Replicates({})
    BY <2>2 DEF TypeOK, Replicates, Views
  <2> QED
    BY <2>1, <2>2 DEF Succeeds, FailsCommitted, Fails, NoApply
<1>3. straddled' \in BOOLEAN
  BY DEF TypeOK, Succeeds, FailsCommitted, Fails, NoApply, NotesTerm
<1> QED
  BY <1>1, <1>2, <1>3

\* updateStreaks yields a node state within the bound.
LEMMA StreaksType ==
    ASSUME NEW verdict \in Verdicts, NEW prev \in NodeStates
    PROVE  UpdateStreaks(verdict, prev) \in NodeStates
<1>1. prev.good \in 0..StreakCap /\ prev.bad \in 0..StreakCap
  BY DEF NodeStates, NoState
<1>2. Capped(prev.good) \in 0..StreakCap /\ Capped(prev.bad) \in 0..StreakCap
  BY <1>1 DEF Capped
<1>3. 1 \in 0..StreakCap /\ 0 \in 0..StreakCap
  OBVIOUS
<1> QED
  BY <1>2, <1>3 DEF UpdateStreaks, NodeStates, Verdicts

LEMMA EvaluateType ==
    ASSUME TypeInv, NEW n \in Nodes, Evaluate(n)
    PROVE  TypeInv'
<1>1. PICK verdict \in Verdicts, reworded \in BOOLEAN :
        tick' = [tick EXCEPT ![n].pc = "applyState", ![n].term = term,
                    ![n].next = UpdateStreaks(verdict, view[n].node),
                    ![n].announce = (reworded \/ verdict # view[n].node.rule)]
  BY DEF Evaluate
<1> DEFINE t == [tick[n] EXCEPT !.pc = "applyState", !.term = term,
                    !.next = UpdateStreaks(verdict, view[n].node),
                    !.announce = (reworded \/ verdict # view[n].node.rule)]
<1>2. UpdateStreaks(verdict, view[n].node) \in NodeStates
  BY StreaksType DEF TypeInv, TypeOK, Views
<1>3. t \in Ticks /\ ShapeOf(t)
  <2>1. tick[n] \in Ticks /\ term \in 0..MaxTerm
    BY DEF TypeInv, TypeOK, LeadershipTypeOK
  <2>2. t \in Ticks
    BY <1>2, <2>1 DEF Ticks, Steps
  <2>3. t.pc = "applyState" /\ t.next = UpdateStreaks(verdict, view[n].node)
    BY <2>1 DEF Ticks
  <2>4. t.next.rule \in Verdicts
    BY <2>3 DEF UpdateStreaks, Verdicts
  <2> HIDE DEF t
  <2> QED
    BY <2>2, <2>3, <2>4 DEF ShapeOf
<1>4. tick' = [tick EXCEPT ![n] = t]
  BY <1>1 DEF TypeInv, TypeOK
<1>5. tick' \in [Nodes -> Ticks] /\ TickShape'
  BY <1>3, <1>4, TickStep
<1>6. UNCHANGED <<leadershipVars, storeVars, view, straddled, clock, sends>>
  BY DEF Evaluate, NoApply
<1> QED
  BY <1>5, <1>6 DEF TypeInv, TypeOK, LeadershipTypeOK, leadershipVars, storeVars

\* A tick that moves to another step keeps its locals typed.
LEMMA StepType ==
    ASSUME NEW t \in Ticks, NEW step \in Steps
    PROVE  /\ [t EXCEPT !.pc = step] \in Ticks
           /\ [t EXCEPT !.pc = step].pc = step
           /\ [t EXCEPT !.pc = step].next = t.next
BY DEF Ticks

\* sendAlert begins with a well-formed tick.
LEMMA BeginAlertType ==
    ASSUME TypeInv, NEW n \in Nodes, NEW action \in {"opened", "reminder"},
           NEW r \in Rules, BeginAlert(n, action, r),
           tick[n].next.rule \in Verdicts
    PROVE  tick' \in [Nodes -> Ticks] /\ TickShape'
<1> DEFINE t == [tick[n] EXCEPT !.pc = "alert", !.action = action,
                                !.rule = r, !.channels = Channels]
<1>1. tick[n] \in Ticks
  BY DEF TypeInv, TypeOK
<1>2. t \in Ticks
  BY <1>1 DEF Ticks, Steps
<1>3. t.pc = "alert" /\ t.rule = r /\ t.action = action /\ t.next = tick[n].next
  BY <1>1 DEF Ticks
<1>4. tick' = [tick EXCEPT ![n] = t]
  BY DEF TypeInv, TypeOK, BeginAlert
<1> HIDE DEF t
<1> QED
  BY <1>2, <1>3, <1>4, TickStep DEF ShapeOf

\* Goto keeps ticks well-formed if the step asks nothing of the locals.
LEMMA GotoType ==
    ASSUME TypeInv, NEW n \in Nodes, NEW step \in Steps, Goto(n, step),
           ShapeOf([tick[n] EXCEPT !.pc = step])
    PROVE  tick' \in [Nodes -> Ticks] /\ TickShape'
<1> DEFINE t == [tick[n] EXCEPT !.pc = step]
<1>1. t \in Ticks
  BY StepType DEF TypeInv, TypeOK
<1>2. tick' = [tick EXCEPT ![n] = t]
  BY DEF TypeInv, TypeOK, Goto
<1> HIDE DEF t
<1> QED
  BY <1>1, <1>2, TickStep DEF t

\* A step that asks nothing of the locals.
PlainSteps == {"applyState", "applyEvent", "reconcile", "resolve"}

LEMMA PlainStepShape ==
    ASSUME NEW t \in Ticks, t.next.rule \in Verdicts, NEW step \in PlainSteps
    PROVE  ShapeOf([t EXCEPT !.pc = step]) /\ step \in Steps
<1>1. step \in Steps
  BY DEF PlainSteps, Steps
<1>2. [t EXCEPT !.pc = step].pc = step /\ [t EXCEPT !.pc = step].next = t.next
  BY <1>1, StepType
<1> QED
  BY <1>1, <1>2 DEF ShapeOf, PlainSteps

LEMMA ApplyNodeStateType ==
    ASSUME TypeInv, NEW n \in Nodes, ApplyNodeState(n)
    PROVE  TypeInv'
<1>1. /\ tick[n] \in Ticks /\ tick[n].next \in NodeStates
      /\ tick[n].next.rule \in Verdicts
  BY DEF TypeInv, TypeOK, Ticks, TickShape, ShapeOf, ApplyNodeState, At
<1>2. /\ nodeState' \in NodeStates
      /\ incidents' \in [Rules -> Incidents]
      /\ deliveries' \in [Keys -> Statuses]
      /\ clock' \in 0..MaxTime /\ sends' \in [Keys -> Nat]
  BY <1>1 DEF TypeInv, TypeOK, ApplyNodeState, Fails, storeVars
<1>3. LeadershipTypeOK' /\ view' \in [Nodes -> Views] /\ straddled' \in BOOLEAN
  BY <1>2, ApplyType DEF TypeInv, ApplyNodeState
<1>4. tick' \in [Nodes -> Ticks] /\ TickShape'
  <2>1. CASE Return(n)
    BY <2>1, ReturnType
  <2>2. CASE Goto(n, "applyEvent") \/ Goto(n, "reconcile")
    BY <1>1, <2>2, GotoType, PlainStepShape DEF PlainSteps
  <2> QED
    BY <2>1, <2>2 DEF ApplyNodeState
<1> QED
  BY <1>2, <1>3, <1>4 DEF TypeInv, TypeOK

LEMMA RecordStateChangeEventType ==
    ASSUME TypeInv, NEW n \in Nodes, RecordStateChangeEvent(n)
    PROVE  TypeInv'
<1>1. UNCHANGED <<storeVars, clock, sends>>
  BY DEF RecordStateChangeEvent, Fails
<1>2. LeadershipTypeOK' /\ view' \in [Nodes -> Views] /\ straddled' \in BOOLEAN
  BY <1>1, ApplyType DEF TypeInv, TypeOK, RecordStateChangeEvent, storeVars
<1>3. tick' \in [Nodes -> Ticks] /\ TickShape'
  <2>1. CASE Return(n)
    BY <2>1, ReturnType
  <2>2. CASE Goto(n, "reconcile")
    <3>1. tick[n] \in Ticks /\ tick[n].next.rule \in Verdicts
      BY DEF TypeInv, TypeOK, TickShape, ShapeOf, RecordStateChangeEvent, At
    <3> QED
      BY <2>2, <3>1, GotoType, PlainStepShape DEF PlainSteps
  <2> QED
    BY <2>1, <2>2 DEF RecordStateChangeEvent
<1> QED
  BY <1>1, <1>2, <1>3 DEF TypeInv, TypeOK, storeVars

\* Steps of the loop that apply nothing: only the tick moves.
LEMMA LocalType ==
    ASSUME TypeInv, NoApply, UNCHANGED <<clock, sends>>,
           tick' \in [Nodes -> Ticks] /\ TickShape'
    PROVE  TypeInv'
BY DEF TypeInv, TypeOK, NoApply, LeadershipTypeOK, leadershipVars, storeVars

\* What the store shows as active fits the list of incidents to resolve.
LEMMA ActiveIncidentsType ==
    ASSUME TypeInv, NEW n \in Nodes, NEW rules \in SUBSET Rules
    PROVE  ActiveIncidents(n, rules)
               \in SUBSET [rule : Rules, notified : -1..MaxTime]
<1>1. view[n].incidents \in [Rules -> Incidents]
  BY DEF TypeInv, TypeOK, Views
<1>2. \A r \in Rules : view[n].incidents[r].notified \in -1..MaxTime
  BY <1>1 DEF Incidents
<1> QED
  BY <1>2 DEF ActiveIncidents

LEMMA ReconcileIncidentsType ==
    ASSUME TypeInv, NEW n \in Nodes, ReconcileIncidents(n)
    PROVE  TypeInv'
<1> DEFINE state == tick[n].next
<1>1. tick[n] \in Ticks /\ state.rule \in Verdicts
  BY DEF TypeInv, TypeOK, TickShape, ShapeOf, ReconcileIncidents, At
<1>2. ASSUME NEW rules \in SUBSET Rules, NEW step \in {"resolve", "supersede"},
             step = "supersede" => state.rule \in Rules,
             tick' = [tick EXCEPT ![n].pc = step,
                                  ![n].todo = ActiveIncidents(n, rules)]
      PROVE  tick' \in [Nodes -> Ticks] /\ TickShape'
  <2> DEFINE t == [tick[n] EXCEPT !.pc = step,
                                  !.todo = ActiveIncidents(n, rules)]
  <2>1. t \in Ticks
    BY <1>1, ActiveIncidentsType DEF Ticks, Steps
  <2>2. t.pc = step /\ t.next = state
    BY <1>1 DEF Ticks
  <2>3. tick' = [tick EXCEPT ![n] = t]
    BY <1>2 DEF TypeInv, TypeOK
  <2> HIDE DEF t
  <2> QED
    BY <1>1, <1>2, <2>1, <2>2, <2>3, TickStep DEF ShapeOf
<1>3. tick' \in [Nodes -> Ticks] /\ TickShape'
  <2>1. CASE Return(n)
    BY <2>1, ReturnType
  <2>2. CASE tick' = [tick EXCEPT ![n].pc = "resolve",
                                  ![n].todo = ActiveIncidents(n, Rules)]
    BY <1>2, <2>2
  <2>3. CASE /\ state.rule # Healthy
             /\ tick' = [tick EXCEPT ![n].pc = "supersede",
                            ![n].todo = ActiveIncidents(n, Rules \ {state.rule})]
    <3>1. state.rule \in Rules
      BY <1>1, <2>3 DEF Verdicts
    <3> QED
      BY <1>2, <2>3, <3>1
  <2> QED
    BY <2>1, <2>2, <2>3 DEF ReconcileIncidents
<1> QED
  BY <1>3, LocalType DEF ReconcileIncidents

\* UpsertIncident of a typed row gives typed rows.
LEMMA PutIncidentType ==
    ASSUME TypeOK, NEW r, NEW status \in {"active", "resolved"},
           NEW notified \in -1..MaxTime, PutIncident(r, status, notified)
    PROVE  /\ incidents' \in [Rules -> Incidents]
           /\ UNCHANGED <<nodeState, deliveries>>
BY DEF TypeOK, PutIncident, Incidents

LEMMA ResolveIncidentType ==
    ASSUME TypeInv, NEW n \in Nodes, ResolveIncident(n)
    PROVE  TypeInv'
<1>1. /\ tick[n] \in Ticks /\ tick[n].next.rule \in Verdicts
      /\ tick[n].todo \in SUBSET [rule : Rules, notified : -1..MaxTime]
  BY DEF TypeInv, TypeOK, Ticks, TickShape, ShapeOf, ResolveIncident, At
<1>2. /\ incidents' \in [Rules -> Incidents]
      /\ UNCHANGED <<nodeState, deliveries, clock, sends>>
  <2>1. ASSUME NEW inc \in tick[n].todo,
               PutIncident(inc.rule, "resolved", inc.notified)
        PROVE  /\ incidents' \in [Rules -> Incidents]
               /\ UNCHANGED <<nodeState, deliveries>>
    <3>1. inc.notified \in -1..MaxTime
      BY <1>1
    <3> QED
      BY <2>1, <3>1, PutIncidentType DEF TypeInv
  <2>2. CASE UNCHANGED storeVars
    BY <2>2 DEF TypeInv, TypeOK, ResolveIncident, storeVars
  <2> QED
    BY <2>1, <2>2 DEF ResolveIncident, Fails, NoApply
<1>3. LeadershipTypeOK' /\ view' \in [Nodes -> Views] /\ straddled' \in BOOLEAN
  <2>1. nodeState' \in NodeStates
    BY <1>2 DEF TypeInv, TypeOK
  <2> QED
    BY <1>2, <2>1, ApplyType DEF TypeInv, ResolveIncident
<1>4. tick' \in [Nodes -> Ticks] /\ TickShape'
  <2>1. CASE Return(n)
    BY <2>1, ReturnType
  <2>2. ASSUME NEW inc \in tick[n].todo,
               tick' = [tick EXCEPT ![n].pc = "alert", ![n].todo = @ \ {inc},
                                    ![n].action = "resolved",
                                    ![n].rule = inc.rule,
                                    ![n].channels = Channels]
        PROVE  tick' \in [Nodes -> Ticks] /\ TickShape'
    <3> DEFINE t == [tick[n] EXCEPT !.pc = "alert", !.todo = @ \ {inc},
                                    !.action = "resolved", !.rule = inc.rule,
                                    !.channels = Channels]
    <3>1. inc.rule \in Rules
      BY <1>1
    <3>2. t \in Ticks
      BY <1>1, <3>1 DEF Ticks, Steps
    <3>3. /\ t.pc = "alert" /\ t.rule = inc.rule /\ t.action = "resolved"
          /\ t.next = tick[n].next
      BY <1>1 DEF Ticks
    <3>4. tick' = [tick EXCEPT ![n] = t]
      BY <2>2 DEF TypeInv, TypeOK
    <3> HIDE DEF t
    <3> QED
      BY <1>1, <3>1, <3>2, <3>3, <3>4, TickStep DEF ShapeOf
  <2> QED
    BY <2>1, <2>2 DEF ResolveIncident
<1> QED
  BY <1>2, <1>3, <1>4 DEF TypeInv, TypeOK

LEMMA SupersedeIncidentType ==
    ASSUME TypeInv, NEW n \in Nodes, SupersedeIncident(n)
    PROVE  TypeInv'
<1>1. /\ tick[n] \in Ticks /\ tick[n].next.rule \in Rules
      /\ tick[n].pc = "supersede"
      /\ tick[n].todo \in SUBSET [rule : Rules, notified : -1..MaxTime]
  BY DEF TypeInv, TypeOK, Ticks, TickShape, ShapeOf, SupersedeIncident, At
<1>2. /\ incidents' \in [Rules -> Incidents]
      /\ UNCHANGED <<nodeState, deliveries, clock, sends>>
  <2>1. ASSUME NEW inc \in tick[n].todo,
               PutIncident(inc.rule, "resolved", inc.notified)
        PROVE  /\ incidents' \in [Rules -> Incidents]
               /\ UNCHANGED <<nodeState, deliveries>>
    <3>1. inc.notified \in -1..MaxTime
      BY <1>1
    <3> QED
      BY <2>1, <3>1, PutIncidentType DEF TypeInv
  <2>2. CASE UNCHANGED storeVars
    BY <2>2 DEF TypeInv, TypeOK, SupersedeIncident, storeVars
  <2> QED
    BY <2>1, <2>2 DEF SupersedeIncident, Fails, NoApply
<1>3. LeadershipTypeOK' /\ view' \in [Nodes -> Views] /\ straddled' \in BOOLEAN
  <2>1. nodeState' \in NodeStates
    BY <1>2 DEF TypeInv, TypeOK
  <2> QED
    BY <1>2, <2>1, ApplyType DEF TypeInv, SupersedeIncident
<1>4. tick' \in [Nodes -> Ticks] /\ TickShape'
  <2>1. CASE Return(n)
    BY <2>1, ReturnType
  <2>2. ASSUME NEW inc \in tick[n].todo,
               tick' = [tick EXCEPT ![n].todo = @ \ {inc}]
        PROVE  tick' \in [Nodes -> Ticks] /\ TickShape'
    <3> DEFINE t == [tick[n] EXCEPT !.todo = @ \ {inc}]
    <3>1. t \in Ticks
      BY <1>1 DEF Ticks
    <3>2. t.pc = "supersede" /\ t.next = tick[n].next
      BY <1>1 DEF Ticks
    <3>3. tick' = [tick EXCEPT ![n] = t]
      BY <2>2 DEF TypeInv, TypeOK
    <3> HIDE DEF t
    <3> QED
      BY <1>1, <3>1, <3>2, <3>3, TickStep DEF ShapeOf, Verdicts
  <2>3. CASE Goto(n, "check")
    <3>1. ShapeOf([tick[n] EXCEPT !.pc = "check"]) /\ "check" \in Steps
      BY <1>1, StepType DEF ShapeOf, Verdicts, Steps
    <3> QED
      BY <2>3, <3>1, GotoType
  <2> QED
    BY <2>1, <2>2, <2>3 DEF SupersedeIncident
<1> QED
  BY <1>2, <1>3, <1>4 DEF TypeInv, TypeOK

LEMMA CheckIncidentType ==
    ASSUME TypeInv, NEW n \in Nodes, CheckIncident(n)
    PROVE  TypeInv'
<1>1. /\ tick[n] \in Ticks
      /\ tick[n].next.rule \in Rules /\ tick[n].next.rule \in Verdicts
  BY DEF TypeInv, TypeOK, TickShape, ShapeOf, CheckIncident, At, Verdicts
<1>2. tick' \in [Nodes -> Ticks] /\ TickShape'
  <2>1. CASE Return(n)
    BY <2>1, ReturnType
  <2>2. CASE Goto(n, "open")
    <3>1. ShapeOf([tick[n] EXCEPT !.pc = "open"]) /\ "open" \in Steps
      BY <1>1, StepType DEF ShapeOf, Steps
    <3> QED
      BY <2>2, <3>1, GotoType
  <2>3. CASE BeginAlert(n, "reminder", tick[n].next.rule)
    BY <1>1, <2>3, BeginAlertType
  <2> QED
    BY <2>1, <2>2, <2>3 DEF CheckIncident
<1> QED
  BY <1>2, LocalType DEF CheckIncident

LEMMA OpenIncidentType ==
    ASSUME TypeInv, NEW n \in Nodes, OpenIncident(n)
    PROVE  TypeInv'
<1>1. /\ tick[n] \in Ticks
      /\ tick[n].next.rule \in Rules /\ tick[n].next.rule \in Verdicts
  BY DEF TypeInv, TypeOK, TickShape, ShapeOf, OpenIncident, At, Verdicts
<1>2. /\ incidents' \in [Rules -> Incidents]
      /\ UNCHANGED <<nodeState, deliveries, clock, sends>>
  <2>1. CASE PutIncident(tick[n].next.rule, "active", Never)
    BY <2>1, PutIncidentType DEF TypeInv, OpenIncident, Never
  <2>2. CASE Fails(n)
    BY <2>2 DEF TypeInv, TypeOK, OpenIncident, Fails, storeVars
  <2> QED
    BY <2>1, <2>2 DEF OpenIncident
<1>3. LeadershipTypeOK' /\ view' \in [Nodes -> Views] /\ straddled' \in BOOLEAN
  <2>1. nodeState' \in NodeStates
    BY <1>2 DEF TypeInv, TypeOK
  <2> QED
    BY <1>2, <2>1, ApplyType DEF TypeInv, OpenIncident
<1>4. tick' \in [Nodes -> Ticks] /\ TickShape'
  <2>1. CASE Return(n)
    BY <2>1, ReturnType
  <2>2. CASE BeginAlert(n, "opened", tick[n].next.rule)
    BY <1>1, <2>2, BeginAlertType
  <2> QED
    BY <2>1, <2>2 DEF OpenIncident
<1> QED
  BY <1>2, <1>3, <1>4 DEF TypeInv, TypeOK

\* sendAlert asks for a key of the ledger.
LEMMA DeliveryKeyType ==
    ASSUME TypeInv, NEW n \in Nodes, tick[n].pc = "alert", NEW c \in tick[n].channels
    PROVE  DeliveryKey(n, c) \in Keys
<1>1. /\ tick[n].rule \in Rules
      /\ tick[n].action \in {"opened", "resolved", "reminder"}
      /\ c \in Channels
  BY DEF TypeInv, TypeOK, Ticks, TickShape, ShapeOf
<1>2. clock \div HalfHour \in 0..(MaxTime \div HalfHour)
  BY SlotInRange DEF TypeInv, TypeOK
<1>3. DeliverySlot(tick[n].action) \in Slots
  BY <1>1, <1>2 DEF DeliverySlot, Slots
<1> QED
  BY <1>1, <1>3 DEF DeliveryKey, Keys

LEMMA ClaimDeliveryType ==
    ASSUME TypeInv, NEW n \in Nodes, ClaimDelivery(n)
    PROVE  TypeInv'
<1>1. PICK c \in tick[n].channels :
        LET k == DeliveryKey(n, c)
            Skip == tick' = [tick EXCEPT ![n].channels = @ \ {c}]
        IN  \/ /\ PutClaim(k)
               /\ \/ deliveries[k] # "unclaimed" /\ Succeeds(n) /\ Skip
                  \/ /\ deliveries[k] = "unclaimed"
                     /\ Succeeds(n)
                     /\ tick' = [tick EXCEPT ![n].channels = @ \ {c},
                                             ![n].pc = "send", ![n].key = k]
                  \/ FailsCommitted(n) /\ Skip
            \/ Fails(n) /\ Skip
  BY DEF ClaimDelivery, Claimable
<1> DEFINE k == DeliveryKey(n, c)
<1>2. /\ tick[n] \in Ticks /\ tick[n].pc = "alert"
      /\ tick[n].rule \in Rules /\ tick[n].action # "none"
      /\ tick[n].next.rule \in Verdicts
  BY DEF TypeInv, TypeOK, TickShape, ShapeOf, ClaimDelivery, At
<1>3. k \in Keys
  BY <1>2, DeliveryKeyType
<1>4. /\ deliveries' \in [Keys -> Statuses]
      /\ nodeState' \in NodeStates /\ incidents' \in [Rules -> Incidents]
      /\ clock' \in 0..MaxTime /\ sends' \in [Keys -> Nat]
  <2>1. CASE PutClaim(k)
    BY <2>1 DEF TypeInv, TypeOK, PutClaim, Statuses, ClaimDelivery
  <2>2. CASE Fails(n)
    BY <2>2 DEF TypeInv, TypeOK, Fails, storeVars, ClaimDelivery
  <2> QED
    BY <1>1, <2>1, <2>2
<1>5. LeadershipTypeOK' /\ view' \in [Nodes -> Views] /\ straddled' \in BOOLEAN
  BY <1>1, <1>4, ApplyType DEF TypeInv
<1>6. tick' \in [Nodes -> Ticks] /\ TickShape'
  <2>1. CASE tick' = [tick EXCEPT ![n].channels = @ \ {c}]
    <3> DEFINE t == [tick[n] EXCEPT !.channels = @ \ {c}]
    <3>1. t \in Ticks
      BY <1>2 DEF Ticks
    <3>2. /\ t.pc = "alert" /\ t.rule = tick[n].rule
          /\ t.action = tick[n].action /\ t.next = tick[n].next
      BY <1>2 DEF Ticks
    <3>3. tick' = [tick EXCEPT ![n] = t]
      BY <2>1 DEF TypeInv, TypeOK
    <3> HIDE DEF t
    <3> QED
      BY <1>2, <3>1, <3>2, <3>3, TickStep DEF ShapeOf
  <2>2. CASE tick' = [tick EXCEPT ![n].channels = @ \ {c},
                                  ![n].pc = "send", ![n].key = k]
    <3> HIDE DEF k
    <3> DEFINE t == [tick[n] EXCEPT !.channels = @ \ {c}, !.pc = "send", !.key = k]
    <3>1. t \in Ticks
      BY <1>2, <1>3 DEF Ticks, Steps
    <3>2. /\ t.pc = "send" /\ t.rule = tick[n].rule /\ t.key = k
          /\ t.action = tick[n].action /\ t.next = tick[n].next
      BY <1>2 DEF Ticks
    <3>3. tick' = [tick EXCEPT ![n] = t]
      BY <2>2 DEF TypeInv, TypeOK
    <3> HIDE DEF t
    <3> QED
      BY <1>2, <1>3, <3>1, <3>2, <3>3, TickStep DEF ShapeOf
  <2> QED
    BY <1>1, <2>1, <2>2
<1> QED
  BY <1>4, <1>5, <1>6 DEF TypeInv, TypeOK

LEMMA SendType ==
    ASSUME TypeInv, NEW n \in Nodes, Send(n)
    PROVE  TypeInv'
<1>1. PICK result \in {"sent", "failed"} :
        tick' = [tick EXCEPT ![n].pc = "complete", ![n].outcome = result]
  BY DEF Send
<1>2. /\ tick[n] \in Ticks /\ tick[n].rule \in Rules /\ tick[n].action # "none"
      /\ tick[n].next.rule \in Verdicts /\ tick[n].key \in Keys
  BY DEF TypeInv, TypeOK, TickShape, ShapeOf, Send, At
<1> DEFINE t == [tick[n] EXCEPT !.pc = "complete", !.outcome = result]
<1>3. t \in Ticks
  BY <1>2 DEF Ticks, Steps
<1>4. /\ t.pc = "complete" /\ t.rule = tick[n].rule /\ t.key = tick[n].key
      /\ t.action = tick[n].action /\ t.next = tick[n].next /\ t.outcome = result
  BY <1>2 DEF Ticks
<1>5. tick' = [tick EXCEPT ![n] = t]
  BY <1>1 DEF TypeInv, TypeOK
<1>6. tick' \in [Nodes -> Ticks] /\ TickShape'
  <2> HIDE DEF t
  <2> QED
    BY <1>2, <1>3, <1>4, <1>5, TickStep DEF ShapeOf
<1>7. sends' \in [Keys -> Nat]
  BY <1>2 DEF TypeInv, TypeOK, Send
<1> QED
  BY <1>6, <1>7 DEF TypeInv, TypeOK, Send, NoApply, LeadershipTypeOK,
                    leadershipVars, storeVars

LEMMA CompleteDeliveryType ==
    ASSUME TypeInv, NEW n \in Nodes, CompleteDelivery(n)
    PROVE  TypeInv'
<1>1. /\ tick[n] \in Ticks /\ tick[n].rule \in Rules /\ tick[n].action # "none"
      /\ tick[n].next.rule \in Verdicts /\ tick[n].key \in Keys
      /\ tick[n].outcome \in {"sent", "failed"}
  BY DEF TypeInv, TypeOK, Ticks, TickShape, ShapeOf, CompleteDelivery, At
<1>2. /\ deliveries' \in [Keys -> Statuses]
      /\ nodeState' \in NodeStates /\ incidents' \in [Rules -> Incidents]
      /\ clock' \in 0..MaxTime /\ sends' \in [Keys -> Nat]
  <2>1. CASE PutCompletion(tick[n].key, tick[n].outcome)
    <3>1. deliveries' \in [Keys -> Statuses]
      BY <1>1, <2>1 DEF TypeInv, TypeOK, PutCompletion, Statuses
    <3>2. incidents' \in [Rules -> Incidents]
      <4>1. clock \in -1..MaxTime
        BY DEF TypeInv, TypeOK
      <4> QED
        BY <2>1, <4>1 DEF TypeInv, TypeOK, PutCompletion, Incidents
    <3> QED
      BY <2>1, <3>1, <3>2 DEF TypeInv, TypeOK, PutCompletion, CompleteDelivery
  <2>2. CASE Fails(n)
    BY <2>2 DEF TypeInv, TypeOK, Fails, storeVars, CompleteDelivery
  <2> QED
    BY <2>1, <2>2 DEF CompleteDelivery
<1>3. LeadershipTypeOK' /\ view' \in [Nodes -> Views] /\ straddled' \in BOOLEAN
  BY <1>2, ApplyType DEF TypeInv, CompleteDelivery
<1>4. tick' \in [Nodes -> Ticks] /\ TickShape'
  <2> DEFINE t == [tick[n] EXCEPT !.pc = "alert", !.key = NoKey,
                                  !.outcome = "none"]
  <2>1. t \in Ticks
    BY <1>1 DEF Ticks, Steps
  <2>2. /\ t.pc = "alert" /\ t.rule = tick[n].rule
        /\ t.action = tick[n].action /\ t.next = tick[n].next
    BY <1>1 DEF Ticks
  <2>3. tick' = [tick EXCEPT ![n] = t]
    BY DEF TypeInv, TypeOK, CompleteDelivery
  <2> HIDE DEF t
  <2> QED
    BY <1>1, <2>1, <2>2, <2>3, TickStep DEF ShapeOf
<1> QED
  BY <1>2, <1>3, <1>4 DEF TypeInv, TypeOK

LEMMA FinishAlertType ==
    ASSUME TypeInv, NEW n \in Nodes, FinishAlert(n)
    PROVE  TypeInv'
<1>1. UNCHANGED <<storeVars, clock, sends>>
  BY DEF FinishAlert, Fails, NoApply
<1>2. LeadershipTypeOK' /\ view' \in [Nodes -> Views] /\ straddled' \in BOOLEAN
  BY <1>1, ApplyType DEF TypeInv, TypeOK, FinishAlert, storeVars
<1>3. tick' \in [Nodes -> Ticks] /\ TickShape'
  <2>1. CASE Return(n)
    BY <2>1, ReturnType
  <2>2. CASE tick' = [tick EXCEPT ![n].pc = "resolve", ![n].action = "none",
                                  ![n].rule = None]
    <3>1. tick[n] \in Ticks /\ tick[n].next.rule \in Verdicts
      BY DEF TypeInv, TypeOK, TickShape, ShapeOf, FinishAlert, At
    <3> DEFINE t == [tick[n] EXCEPT !.pc = "resolve", !.action = "none",
                                    !.rule = None]
    <3>2. t \in Ticks
      BY <3>1 DEF Ticks, Steps
    <3>3. t.pc = "resolve" /\ t.next = tick[n].next
      BY <3>1 DEF Ticks
    <3>4. tick' = [tick EXCEPT ![n] = t]
      BY <2>2 DEF TypeInv, TypeOK
    <3> HIDE DEF t
    <3> QED
      BY <3>1, <3>2, <3>3, <3>4, TickStep DEF ShapeOf
  <2> QED
    BY <2>1, <2>2 DEF FinishAlert
<1> QED
  BY <1>1, <1>2, <1>3 DEF TypeInv, TypeOK, storeVars

\* The surroundings: replication, crashes, elections.
LEMMA SurroundingsType ==
    ASSUME TypeInv, NEW n \in Nodes,
           CatchUp(n) \/ Crash(n) \/ ElectLeader(n) \/ HearLeadership(n)
    PROVE  TypeInv'
<1>1. CASE CatchUp(n)
  <2>1. view' \in [Nodes -> Views]
    BY <1>1 DEF TypeInv, TypeOK, CatchUp, Views
  <2> QED
    BY <1>1, <2>1 DEF TypeInv, TypeOK, TickShape, CatchUp, storeVars,
                      LeadershipTypeOK, leadershipVars
<1>2. CASE Crash(n)
  <2>1. tick' \in [Nodes -> Ticks] /\ TickShape'
    BY <1>2, ReturnType DEF Crash
  <2>2. LeadershipTypeOK'
    BY <1>2 DEF TypeInv, TypeOK, Crash, Restart, LeadershipTypeOK
  <2>3. EmptyView \in Views
    BY DEF EmptyView, Views, NodeStates, Incidents, Never
  <2>4. view' \in [Nodes -> Views]
    BY <1>2, <2>3 DEF TypeInv, TypeOK, Crash
  <2> QED
    BY <1>2, <2>1, <2>2, <2>4 DEF TypeInv, TypeOK, Crash, storeVars
<1>3. CASE ElectLeader(n) \/ HearLeadership(n)
  <2>1. ASSUME ElectLeader(n) PROVE LeadershipTypeOK'
    BY <2>1 DEF TypeInv, TypeOK, ElectLeader, Elect, LeadershipMayMove,
                LeadershipTypeOK
  <2>2. ASSUME HearLeadership(n) PROVE LeadershipTypeOK'
    BY <2>2 DEF TypeInv, TypeOK, HearLeadership, WatchLeadership,
                LeadershipTypeOK
  <2>3. LeadershipTypeOK'
    BY <1>3, <2>1, <2>2
  <2> QED
    BY <1>3, <2>3 DEF TypeInv, TypeOK, TickShape, ElectLeader, HearLeadership,
                      storeVars
<1> QED
  BY <1>1, <1>2, <1>3

LEMMA TypeInit == Init => TypeInv
<1> SUFFICES ASSUME Init PROVE TypeInv
  OBVIOUS
<1>1. LeadershipTypeOK
  BY DEF Init, LeadershipInit, LeadershipTypeOK
<1>2. tick \in [Nodes -> Ticks] /\ TickShape
  BY NoTickType DEF Init, TickShape
<1>3. NoState \in NodeStates
  BY DEF NodeStates
<1>4. incidents \in [Rules -> Incidents]
  BY DEF Init, Incidents, Never
<1>5. view \in [Nodes -> Views]
  BY <1>3, <1>4 DEF Init, Views
<1>6. deliveries \in [Keys -> Statuses] /\ sends \in [Keys -> Nat]
  BY DEF Init, Statuses
<1>7. clock = 0 /\ nodeState = NoState /\ straddled = FALSE
  BY DEF Init
<1>8. clock \in 0..MaxTime
  BY <1>7
<1> QED
  BY <1>1, <1>2, <1>3, <1>4, <1>5, <1>6, <1>7, <1>8 DEF TypeInv, TypeOK

LEMMA TypeStep == TypeInv /\ [Next]_vars => TypeInv'
<1> SUFFICES ASSUME TypeInv, [Next]_vars PROVE TypeInv'
  OBVIOUS
<1>1. ASSUME NEW n \in Nodes, Loop(n) PROVE TypeInv'
  BY <1>1, EvaluateType, ApplyNodeStateType, RecordStateChangeEventType,
     ReconcileIncidentsType, ResolveIncidentType, SupersedeIncidentType,
     CheckIncidentType, OpenIncidentType, ClaimDeliveryType, SendType,
     CompleteDeliveryType, FinishAlertType DEF Loop
<1>2. ASSUME NEW n \in Nodes,
             CatchUp(n) \/ Crash(n) \/ ElectLeader(n) \/ HearLeadership(n)
      PROVE  TypeInv'
  BY <1>2, SurroundingsType
<1>3. CASE Advance
  BY <1>3 DEF TypeInv, TypeOK, TickShape, Advance, storeVars,
              LeadershipTypeOK, leadershipVars
<1>4. CASE UNCHANGED vars
  BY <1>4 DEF TypeInv, TypeOK, TickShape, vars, storeVars, LeadershipTypeOK,
              leadershipVars
<1> QED
  BY <1>1, <1>2, <1>3, <1>4 DEF Next

\* Every row, replica and local of the loop keeps its type, whatever the nodes,
\* rules, channels and bounds are, and the place of a tick determines which of
\* its locals are set.
THEOREM TypeCorrect == Spec => []TypeOK
<1>1. Spec => []TypeInv
  BY TypeInit, TypeStep, PTL DEF Spec
<1>2. TypeInv => TypeOK
  BY DEF TypeInv
<1> QED
  BY <1>1, <1>2, PTL

-----------------------------------------------------------------------------
(* A key is sent to at most once, and the ledger is implemented            *)

\* A step of n that leaves the ledger alone and after which n holds no key.
Quiet(n) ==
    /\ UNCHANGED <<deliveries, sends>>
    /\ \A m \in Nodes \ {n} : tick'[m] = tick[m]
    /\ tick'[n].pc \notin {"send", "complete"}

LEMMA QuietKeepsLedger ==
    ASSUME TypeInv, LedgerInv, NEW n \in Nodes, Quiet(n)
    PROVE  LedgerInv'
<1>1. \A m \in Nodes : Delivering(m)' => m # n /\ tick'[m] = tick[m]
  BY DEF Quiet, Delivering
<1> QED
  BY <1>1 DEF Quiet, LedgerInv, HolderInv, ExclusiveInv, CallsInv, Delivering

LEMMA QuietTick ==
    ASSUME TypeInv, NEW n \in Nodes, UNCHANGED <<deliveries, sends>>,
           NEW t, t.pc \notin {"send", "complete"},
           tick' = [tick EXCEPT ![n] = t]
    PROVE  Quiet(n)
BY DEF TypeInv, TypeOK, Quiet

\* Moves of a tick to a step where no key is held.
LEMMA QuietMoves ==
    ASSUME TypeInv, NEW n \in Nodes, UNCHANGED <<deliveries, sends>>,
           \/ Return(n)
           \/ \E step \in PlainSteps \cup {"check", "open"} : Goto(n, step)
           \/ \E action, r : BeginAlert(n, action, r)
    PROVE  Quiet(n)
<1>1. tick[n] \in Ticks /\ tick \in [Nodes -> Ticks]
  BY DEF TypeInv, TypeOK
<1>2. CASE Return(n)
  BY <1>1, <1>2 DEF Quiet, Return, NoTick
<1>3. CASE \E step \in PlainSteps \cup {"check", "open"} : Goto(n, step)
  BY <1>1, <1>3 DEF Quiet, Goto, PlainSteps, Ticks
<1>4. CASE \E action, r : BeginAlert(n, action, r)
  <2>1. PICK action, r : BeginAlert(n, action, r)
    BY <1>4
  <2> DEFINE t == [tick[n] EXCEPT !.pc = "alert", !.action = action,
                                  !.rule = r, !.channels = Channels]
  <2>2. t.pc = "alert"
    BY <1>1 DEF Ticks
  <2>3. tick' = [tick EXCEPT ![n] = t]
    BY <1>1, <2>1 DEF BeginAlert
  <2> HIDE DEF t
  <2> QED
    BY <2>2, <2>3, QuietTick
<1> QED
  BY <1>2, <1>3, <1>4

LEMMA QuietActions ==
    ASSUME TypeInv, NEW n \in Nodes,
           \/ Evaluate(n) \/ ApplyNodeState(n) \/ RecordStateChangeEvent(n)
           \/ ReconcileIncidents(n) \/ ResolveIncident(n)
           \/ SupersedeIncident(n) \/ CheckIncident(n) \/ OpenIncident(n)
           \/ FinishAlert(n) \/ Crash(n)
    PROVE  Quiet(n)
<1>1. tick[n] \in Ticks /\ tick \in [Nodes -> Ticks]
  BY DEF TypeInv, TypeOK
<1>2. UNCHANGED <<deliveries, sends>>
  BY DEF Evaluate, ApplyNodeState, RecordStateChangeEvent, ReconcileIncidents,
         ResolveIncident, SupersedeIncident, CheckIncident, OpenIncident,
         FinishAlert, Crash, Fails, NoApply, PutIncident, storeVars
<1>3. CASE Evaluate(n)
  <2>1. PICK verdict \in Verdicts, reworded \in BOOLEAN :
          tick' = [tick EXCEPT ![n].pc = "applyState", ![n].term = term,
                      ![n].next = UpdateStreaks(verdict, view[n].node),
                      ![n].announce = (reworded \/ verdict # view[n].node.rule)]
    BY <1>3 DEF Evaluate
  <2> DEFINE t == [tick[n] EXCEPT !.pc = "applyState", !.term = term,
                      !.next = UpdateStreaks(verdict, view[n].node),
                      !.announce = (reworded \/ verdict # view[n].node.rule)]
  <2>2. t.pc = "applyState"
    BY <1>1 DEF Ticks
  <2>3. tick' = [tick EXCEPT ![n] = t]
    BY <1>1, <2>1
  <2> HIDE DEF t
  <2> QED
    BY <1>2, <2>2, <2>3, QuietTick
<1>4. CASE ApplyNodeState(n)
  BY <1>2, <1>4, QuietMoves DEF ApplyNodeState, PlainSteps
<1>5. CASE RecordStateChangeEvent(n)
  BY <1>2, <1>5, QuietMoves DEF RecordStateChangeEvent, PlainSteps
<1>6. CASE ReconcileIncidents(n)
  <2>1. CASE Return(n)
    BY <1>2, <2>1, QuietMoves
  <2>2. CASE ~Return(n)
    BY <1>1, <1>2, <1>6, <2>2 DEF ReconcileIncidents, Quiet, Ticks
  <2> QED
    BY <2>1, <2>2
<1>7. CASE ResolveIncident(n)
  <2>1. CASE Return(n)
    BY <1>2, <2>1, QuietMoves
  <2>2. CASE ~Return(n)
    <3>1. PICK inc \in tick[n].todo :
            tick' = [tick EXCEPT ![n].pc = "alert", ![n].todo = @ \ {inc},
                                 ![n].action = "resolved",
                                 ![n].rule = inc.rule,
                                 ![n].channels = Channels]
      BY <1>7, <2>2 DEF ResolveIncident
    <3> DEFINE t == [tick[n] EXCEPT !.pc = "alert", !.todo = @ \ {inc},
                                    !.action = "resolved", !.rule = inc.rule,
                                    !.channels = Channels]
    <3>2. t.pc = "alert"
      BY <1>1 DEF Ticks
    <3>3. tick' = [tick EXCEPT ![n] = t]
      BY <1>1, <3>1
    <3> HIDE DEF t
    <3> QED
      BY <1>2, <3>2, <3>3, QuietTick
  <2> QED
    BY <2>1, <2>2
<1>8. CASE SupersedeIncident(n)
  <2>1. CASE Return(n) \/ Goto(n, "check")
    BY <1>2, <2>1, QuietMoves
  <2>2. CASE ~(Return(n) \/ Goto(n, "check"))
    BY <1>1, <1>2, <1>8, <2>2 DEF SupersedeIncident, Quiet, Ticks, At
  <2> QED
    BY <2>1, <2>2
<1>9. CASE CheckIncident(n)
  BY <1>2, <1>9, QuietMoves DEF CheckIncident
<1>10. CASE OpenIncident(n)
  BY <1>2, <1>10, QuietMoves DEF OpenIncident
<1>11. CASE FinishAlert(n)
  <2>1. CASE Return(n)
    BY <1>2, <2>1, QuietMoves
  <2>2. CASE ~Return(n)
    BY <1>1, <1>2, <1>11, <2>2 DEF FinishAlert, Quiet, Ticks
  <2> QED
    BY <2>1, <2>2
<1>12. CASE Crash(n)
  BY <1>2, <1>12, QuietMoves DEF Crash
<1> QED
  BY <1>3, <1>4, <1>5, <1>6, <1>7, <1>8, <1>9, <1>10, <1>11, <1>12

\* The holder of a key stays its only holder through the call and the record.
LEMMA ClaimKeepsLedger ==
    ASSUME TypeInv, LedgerInv, NEW n \in Nodes, ClaimDelivery(n)
    PROVE  LedgerInv' /\ [Ledger!LedgerNext]_<<deliveries, sends>>
<1>1. PICK c \in tick[n].channels :
        LET k == DeliveryKey(n, c)
            Skip == tick' = [tick EXCEPT ![n].channels = @ \ {c}]
        IN  \/ /\ PutClaim(k)
               /\ \/ deliveries[k] # "unclaimed" /\ Succeeds(n) /\ Skip
                  \/ /\ deliveries[k] = "unclaimed"
                     /\ Succeeds(n)
                     /\ tick' = [tick EXCEPT ![n].channels = @ \ {c},
                                             ![n].pc = "send", ![n].key = k]
                  \/ FailsCommitted(n) /\ Skip
            \/ Fails(n) /\ Skip
  BY DEF ClaimDelivery, Claimable
<1> DEFINE k == DeliveryKey(n, c)
<1>2. /\ tick[n] \in Ticks /\ tick[n].pc = "alert" /\ UNCHANGED sends
      /\ tick \in [Nodes -> Ticks] /\ deliveries \in [Keys -> Statuses]
  BY DEF TypeInv, TypeOK, ClaimDelivery, At
<1>3. k \in Keys
  BY <1>2, DeliveryKeyType
<1> HIDE DEF k
<1>4. \/ UNCHANGED deliveries
      \/ deliveries[k] = "unclaimed"
         /\ deliveries' = [deliveries EXCEPT ![k] = "pending"]
  <2>1. CASE PutClaim(k)
    BY <1>2, <1>3, <2>1 DEF PutClaim, Claimable
  <2>2. CASE Fails(n)
    BY <2>2 DEF Fails, storeVars
  <2> QED
    BY <1>1, <2>1, <2>2 DEF k
<1>5. [Ledger!LedgerNext]_<<deliveries, sends>>
  <2>1. CASE UNCHANGED deliveries
    BY <1>2, <2>1
  <2>2. CASE ~UNCHANGED deliveries
    <3>1. Ledger!Claim(k)
      BY <1>2, <1>4, <2>2 DEF Ledger!Claim
    <3> QED
      BY <1>3, <3>1 DEF Ledger!LedgerNext
  <2> QED
    BY <2>1, <2>2
<1>6. \A q \in Keys : deliveries[q] # "unclaimed" => deliveries'[q] = deliveries[q]
  BY <1>2, <1>3, <1>4
<1>7. \A m \in Nodes \ {n} : tick'[m] = tick[m]
  BY <1>1, <1>2
<1>8. CASE tick' = [tick EXCEPT ![n].channels = @ \ {c}]
  <2>1. tick'[n].pc = "alert"
    BY <1>2, <1>8 DEF Ticks
  <2>2. \A m \in Nodes : Delivering(m)' => /\ m # n /\ tick'[m] = tick[m]
                                           /\ tick[m].key \in Keys
    BY <1>7, <2>1 DEF Delivering, TypeInv, TickShape, ShapeOf
  <2> QED
    BY <1>2, <1>5, <1>6, <2>2, <1>4
       DEF LedgerInv, HolderInv, ExclusiveInv, CallsInv, Delivering
<1>9. CASE /\ deliveries[k] = "unclaimed"
           /\ PutClaim(k)
           /\ tick' = [tick EXCEPT ![n].channels = @ \ {c},
                                   ![n].pc = "send", ![n].key = k]
  <2>1. tick'[n].pc = "send" /\ tick'[n].key = k
    <3> DEFINE t == [tick[n] EXCEPT !.channels = @ \ {c}, !.pc = "send",
                                    !.key = k]
    <3>1. t.pc = "send" /\ t.key = k
      BY <1>2 DEF Ticks
    <3>2. tick'[n] = t
      BY <1>2, <1>9
    <3> HIDE DEF t
    <3> QED
      BY <3>1, <3>2
  <2>2. deliveries'[k] = "pending" /\ sends'[k] = 0
    BY <1>2, <1>3, <1>9 DEF PutClaim, Claimable, LedgerInv, CallsInv
  <2>3. \A m \in Nodes \ {n} :
          Delivering(m)' => /\ tick'[m] = tick[m] /\ Delivering(m)
                            /\ tick[m].key \in Keys /\ tick[m].key # k
    BY <1>7, <1>9 DEF Delivering, TypeInv, TickShape, ShapeOf, LedgerInv, HolderInv
  <2>4. HolderInv'
    BY <1>2, <1>6, <2>1, <2>2, <2>3 DEF LedgerInv, HolderInv, Delivering
  <2>5. ExclusiveInv'
    BY <2>1, <2>3 DEF LedgerInv, ExclusiveInv
  <2>6. CallsInv'
    BY <1>2, <1>4 DEF LedgerInv, CallsInv
  <2> QED
    BY <1>5, <2>4, <2>5, <2>6 DEF LedgerInv
<1> QED
  BY <1>1, <1>8, <1>9 DEF k

LEMMA SendKeepsLedger ==
    ASSUME TypeInv, LedgerInv, NEW n \in Nodes, Send(n)
    PROVE  LedgerInv' /\ Ledger!LedgerNext
<1> DEFINE k == tick[n].key
<1>1. /\ tick[n] \in Ticks /\ tick \in [Nodes -> Ticks] /\ tick[n].pc = "send"
      /\ sends \in [Keys -> Nat] /\ k \in Keys /\ UNCHANGED deliveries
  BY DEF TypeInv, TypeOK, TickShape, ShapeOf, Send, At, NoApply, storeVars
<1>2. deliveries[k] = "pending" /\ sends[k] = 0
  BY <1>1 DEF LedgerInv, HolderInv, Delivering
<1>3. sends' = [sends EXCEPT ![k] = 1]
  BY <1>1, <1>2 DEF Send
<1>4. \A m \in Nodes \ {n} : tick'[m] = tick[m]
  BY <1>1 DEF Send
<1>5. tick'[n].pc = "complete" /\ tick'[n].key = k
  <2>1. PICK result :
          tick' = [tick EXCEPT ![n].pc = "complete", ![n].outcome = result]
    BY DEF Send
  <2> QED
    BY <1>1, <2>1 DEF Ticks
<1>6. \A m \in Nodes \ {n} :
        Delivering(m)' => /\ tick'[m] = tick[m] /\ Delivering(m)
                          /\ tick[m].key \in Keys /\ tick[m].key # k
  BY <1>1, <1>4 DEF Delivering, TypeInv, TickShape, ShapeOf, LedgerInv, ExclusiveInv
<1> HIDE DEF k
<1>7. HolderInv'
  BY <1>1, <1>2, <1>3, <1>5, <1>6 DEF LedgerInv, HolderInv, Delivering
<1>8. ExclusiveInv'
  BY <1>5, <1>6 DEF LedgerInv, ExclusiveInv
<1>9. CallsInv'
  BY <1>1, <1>2, <1>3 DEF LedgerInv, CallsInv
<1>10. Ledger!Call(k)
  BY <1>1, <1>2, <1>3 DEF Ledger!Call
<1> QED
  BY <1>1, <1>7, <1>8, <1>9, <1>10 DEF LedgerInv, Ledger!LedgerNext

LEMMA CompleteKeepsLedger ==
    ASSUME TypeInv, LedgerInv, NEW n \in Nodes, CompleteDelivery(n)
    PROVE  LedgerInv' /\ [Ledger!LedgerNext]_<<deliveries, sends>>
<1> DEFINE k == tick[n].key
           status == tick[n].outcome
<1>1. /\ tick[n] \in Ticks /\ tick \in [Nodes -> Ticks]
      /\ tick[n].pc = "complete" /\ UNCHANGED sends
      /\ deliveries \in [Keys -> Statuses]
      /\ k \in Keys /\ status \in {"sent", "failed"}
  BY DEF TypeInv, TypeOK, Ticks, TickShape, ShapeOf, CompleteDelivery, At
<1>2. deliveries[k] = "pending" /\ sends[k] = 1
  BY <1>1 DEF LedgerInv, HolderInv, Delivering
<1>3. \A m \in Nodes \ {n} : tick'[m] = tick[m]
  BY <1>1 DEF CompleteDelivery
<1>4. tick'[n].pc = "alert"
  BY <1>1 DEF CompleteDelivery, Ticks
<1>5. \A m \in Nodes :
        Delivering(m)' => /\ m # n /\ tick'[m] = tick[m] /\ Delivering(m)
                          /\ tick[m].key \in Keys /\ tick[m].key # k
  BY <1>1, <1>3, <1>4
     DEF Delivering, TypeInv, TickShape, ShapeOf, LedgerInv, ExclusiveInv
<1>6. UNCHANGED deliveries \/ deliveries' = [deliveries EXCEPT ![k] = status]
  BY DEF CompleteDelivery, PutCompletion, Fails, storeVars
<1> HIDE DEF k, status
<1>7. HolderInv'
  BY <1>1, <1>5, <1>6 DEF LedgerInv, HolderInv, Delivering
<1>8. ExclusiveInv'
  BY <1>5 DEF LedgerInv, ExclusiveInv
<1>9. CallsInv'
  BY <1>1, <1>2, <1>6 DEF LedgerInv, CallsInv
<1>10. [Ledger!LedgerNext]_<<deliveries, sends>>
  <2>1. CASE UNCHANGED deliveries
    BY <1>1, <2>1
  <2>2. CASE deliveries' = [deliveries EXCEPT ![k] = status]
    <3>1. Ledger!Record(k)
      BY <1>1, <1>2, <2>2 DEF Ledger!Record
    <3> QED
      BY <1>1, <3>1 DEF Ledger!LedgerNext
  <2> QED
    BY <1>6, <2>1, <2>2
<1> QED
  BY <1>7, <1>8, <1>9, <1>10 DEF LedgerInv

LEMMA LedgerInit == Init => LedgerInv /\ Ledger!LedgerInit
<1> SUFFICES ASSUME Init PROVE LedgerInv /\ Ledger!LedgerInit
  OBVIOUS
<1>1. \A n \in Nodes : tick[n].pc = "idle"
  BY DEF Init, NoTick
<1>2. /\ deliveries = [k \in Keys |-> "unclaimed"]
      /\ sends = [k \in Keys |-> 0]
  BY DEF Init
<1> QED
  BY <1>1, <1>2 DEF LedgerInv, HolderInv, ExclusiveInv, CallsInv, Delivering,
                    Ledger!LedgerInit

LEMMA LedgerStep ==
    TypeInv /\ LedgerInv /\ [Next]_vars
        => LedgerInv' /\ [Ledger!LedgerNext]_<<deliveries, sends>>
<1> SUFFICES ASSUME TypeInv, LedgerInv, [Next]_vars
             PROVE  LedgerInv' /\ [Ledger!LedgerNext]_<<deliveries, sends>>
  OBVIOUS
<1>1. ASSUME NEW n \in Nodes, Quiet(n)
      PROVE  LedgerInv' /\ [Ledger!LedgerNext]_<<deliveries, sends>>
  BY <1>1, QuietKeepsLedger DEF Quiet
<1>2. ASSUME NEW n \in Nodes, Loop(n) \/ Crash(n)
      PROVE  LedgerInv' /\ [Ledger!LedgerNext]_<<deliveries, sends>>
  BY <1>1, <1>2, QuietActions, ClaimKeepsLedger, SendKeepsLedger,
     CompleteKeepsLedger DEF Loop
<1>3. CASE UNCHANGED <<deliveries, tick, sends>>
  BY <1>3 DEF LedgerInv, HolderInv, ExclusiveInv, CallsInv, Delivering
<1>4. CASE \/ Advance
           \/ \E n \in Nodes : CatchUp(n) \/ ElectLeader(n) \/ HearLeadership(n)
  BY <1>3, <1>4 DEF Advance, CatchUp, ElectLeader, HearLeadership, storeVars
<1>5. CASE UNCHANGED vars
  BY <1>3, <1>5 DEF vars, storeVars
<1> QED
  BY <1>2, <1>4, <1>5 DEF Next

LEMMA LedgerInvariant == Spec => [](TypeInv /\ LedgerInv)
<1>1. Init => TypeInv /\ LedgerInv
  BY TypeInit, LedgerInit
<1>2. TypeInv /\ LedgerInv /\ [Next]_vars => (TypeInv /\ LedgerInv)'
  BY TypeStep, LedgerStep
<1> QED
  BY <1>1, <1>2, PTL DEF Spec

\* No notifier is called twice for one delivery key, however many engines take
\* themselves for the leader and wherever they are interrupted.
THEOREM AtMostOneSend == Spec => []NoDuplicateSend
<1>1. LedgerInv => NoDuplicateSend
  BY DEF LedgerInv, CallsInv, NoDuplicateSend
<1> QED
  BY <1>1, LedgerInvariant, PTL

\* The loop implements the ledger: every step that touches alert_deliveries or
\* calls a notifier is a claim, a call or a record of DeliveryLedger.
THEOREM LedgerImplemented == Spec => ImplementsLedger
<1>1. Init => Ledger!LedgerInit
  BY LedgerInit
<1>2. TypeInv /\ LedgerInv /\ [Next]_vars
        => [Ledger!LedgerNext]_<<deliveries, sends>>
  BY LedgerStep
<1> QED
  BY <1>1, <1>2, LedgerInvariant, PTL
     DEF Spec, ImplementsLedger, Ledger!LedgerSpec

-----------------------------------------------------------------------------
(* Every alert is about an incident that is in the store                   *)

RecInv == RecordedInv /\ AlertsHaveIncident

\* A write of the loop never removes an incident row.
RowsStay == \A r \in Rules : Recorded(r) => Recorded(r)'

\* The replicas after a step are old ones, the log as it is then, or empty.
ViewsFollow ==
    \A n \in Nodes :
        \/ view'[n] = view[n]
        \/ view'[n].incidents = incidents'
        \/ view'[n] = EmptyView

LEMMA PutIncidentRows ==
    ASSUME TypeInv, NEW r \in Rules, NEW status \in {"active", "resolved"},
           NEW notified, PutIncident(r, status, notified)
    PROVE  RowsStay /\ Recorded(r)'
BY DEF TypeInv, TypeOK, PutIncident, RowsStay, Recorded

LEMMA UnchangedRows ==
    ASSUME UNCHANGED incidents
    PROVE  RowsStay
BY DEF RowsStay, Recorded

LEMMA ApplyViews ==
    ASSUME TypeInv, NEW n \in Nodes,
           Succeeds(n) \/ FailsCommitted(n) \/ Fails(n) \/ NoApply
    PROVE  ViewsFollow
<1>1. CASE UNCHANGED view
  BY <1>1 DEF ViewsFollow
<1>2. CASE Replicates({n}) \/ Replicates({})
  BY <1>2 DEF Replicates, ViewsFollow
<1> QED
  BY <1>1, <1>2 DEF Succeeds, FailsCommitted, Fails, NoApply

\* The invariant after a step in which rows stay, replicas follow and only the
\* tick of n moves.
LEMMA RecordedStep ==
    ASSUME TypeInv, RecordedInv, NEW n \in Nodes, RowsStay, ViewsFollow,
           \A m \in Nodes \ {n} : tick'[m] = tick[m],
           \A inc \in tick'[n].todo : inc.rule \in Rules /\ Recorded(inc.rule)',
           tick'[n].pc \in {"alert", "send", "complete"}
               => tick'[n].rule \in Rules /\ Recorded(tick[n].rule)'
    PROVE  RecordedInv'
<1>1. \A m \in Nodes, r \in Rules :
        view'[m].incidents[r].status # "absent" => Recorded(r)'
  BY DEF RecordedInv, RowsStay, ViewsFollow, Recorded, EmptyView
<1>2. \A m \in Nodes : \A inc \in tick[m].todo : inc.rule \in Rules
  BY DEF TypeInv, TypeOK, Ticks
<1>3. \A m \in Nodes : \A inc \in tick'[m].todo : Recorded(inc.rule)'
  BY <1>2 DEF RecordedInv, RowsStay
<1>4. ASSUME NEW m \in Nodes, tick'[m].pc \in {"alert", "send", "complete"}
      PROVE  Recorded(tick[m].rule)'
  <2>1. CASE m = n
    BY <1>4, <2>1
  <2>2. CASE m # n
    <3>1. /\ tick'[m] = tick[m] /\ tick[m].rule \in Rules
          /\ Recorded(tick[m].rule)
      BY <1>4, <2>2 DEF RecordedInv, TypeInv, TickShape, ShapeOf
    <3> QED
      BY <3>1 DEF RowsStay, Recorded
  <2> QED
    BY <2>1, <2>2
<1> QED
  BY <1>1, <1>3, <1>4 DEF RecordedInv, Recorded

\* Steps after which the tick holds only what it held before.
LEMMA RecordedTick ==
    ASSUME TypeInv, RecordedInv, NEW n \in Nodes, RowsStay, ViewsFollow,
           NEW t \in Ticks, tick' = [tick EXCEPT ![n] = t],
           t.todo \subseteq tick[n].todo,
           t.pc \in {"alert", "send", "complete"}
               => t.rule \in Rules /\ Recorded(t.rule)'
    PROVE  RecordedInv'
<1>1. tick \in [Nodes -> Ticks] /\ tick'[n] = t
  BY DEF TypeInv, TypeOK
<1>2. \A inc \in tick'[n].todo : inc.rule \in Rules /\ Recorded(inc.rule)'
  BY <1>1 DEF RecordedInv, RowsStay, Ticks
<1>3. tick'[n].pc \in {"alert", "send", "complete"}
        => tick'[n].rule \in Rules /\ Recorded(tick[n].rule)'
  BY <1>1 DEF Recorded
<1>4. \A m \in Nodes \ {n} : tick'[m] = tick[m]
  BY <1>1
<1> QED
  BY <1>2, <1>3, <1>4, RecordedStep

LEMMA RecordedReturn ==
    ASSUME TypeInv, RecordedInv, NEW n \in Nodes, RowsStay, ViewsFollow,
           Return(n)
    PROVE  RecordedInv'
<1>1. NoTick.todo = {} /\ NoTick.pc = "idle"
  BY DEF NoTick
<1> QED
  BY <1>1, NoTickType, RecordedTick DEF Return

LEMMA RecordedGoto ==
    ASSUME TypeInv, RecordedInv, NEW n \in Nodes, RowsStay, ViewsFollow,
           NEW step \in PlainSteps \cup {"check", "open"}, Goto(n, step)
    PROVE  RecordedInv'
<1> DEFINE t == [tick[n] EXCEPT !.pc = step]
<1>1. tick[n] \in Ticks /\ tick \in [Nodes -> Ticks] /\ step \in Steps
  BY DEF TypeInv, TypeOK, PlainSteps, Steps
<1>2. t \in Ticks /\ t.pc = step /\ t.todo = tick[n].todo
  BY <1>1 DEF Ticks
<1>3. tick' = [tick EXCEPT ![n] = t]
  BY <1>1 DEF Goto
<1> HIDE DEF t
<1> QED
  BY <1>2, <1>3, RecordedTick DEF PlainSteps

LEMMA RecordedBegin ==
    ASSUME TypeInv, RecordedInv, NEW n \in Nodes, RowsStay, ViewsFollow,
           NEW action \in {"opened", "reminder"}, NEW r \in Rules,
           Recorded(r)', BeginAlert(n, action, r)
    PROVE  RecordedInv'
<1> DEFINE t == [tick[n] EXCEPT !.pc = "alert", !.action = action,
                                !.rule = r, !.channels = Channels]
<1>1. tick[n] \in Ticks /\ tick \in [Nodes -> Ticks]
  BY DEF TypeInv, TypeOK
<1>2. t \in Ticks
  BY <1>1 DEF Ticks, Steps
<1>3. t.rule = r /\ t.todo = tick[n].todo
  BY <1>1 DEF Ticks
<1>4. tick' = [tick EXCEPT ![n] = t]
  BY <1>1 DEF BeginAlert
<1> HIDE DEF t
<1> QED
  BY <1>2, <1>3, <1>4, RecordedTick

LEMMA RecordedEvaluate ==
    ASSUME TypeInv, RecordedInv, NEW n \in Nodes, Evaluate(n)
    PROVE  RowsStay /\ RecordedInv'
<1>1. RowsStay /\ ViewsFollow
  BY UnchangedRows, ApplyViews DEF Evaluate, NoApply, storeVars
<1>2. PICK verdict \in Verdicts, reworded \in BOOLEAN :
        tick' = [tick EXCEPT ![n].pc = "applyState", ![n].term = term,
                    ![n].next = UpdateStreaks(verdict, view[n].node),
                    ![n].announce = (reworded \/ verdict # view[n].node.rule)]
  BY DEF Evaluate
<1> DEFINE t == [tick[n] EXCEPT !.pc = "applyState", !.term = term,
                    !.next = UpdateStreaks(verdict, view[n].node),
                    !.announce = (reworded \/ verdict # view[n].node.rule)]
<1>3. tick[n] \in Ticks /\ tick \in [Nodes -> Ticks] /\ term \in 0..MaxTerm
  BY DEF TypeInv, TypeOK, LeadershipTypeOK
<1>4. UpdateStreaks(verdict, view[n].node) \in NodeStates
  BY StreaksType DEF TypeInv, TypeOK, Views
<1>5. t \in Ticks
  BY <1>3, <1>4 DEF Ticks, Steps
<1>6. t.pc = "applyState" /\ t.todo = tick[n].todo
  BY <1>3 DEF Ticks
<1>7. tick' = [tick EXCEPT ![n] = t]
  BY <1>2, <1>3
<1> HIDE DEF t
<1> QED
  BY <1>1, <1>5, <1>6, <1>7, RecordedTick

LEMMA RecordedApplyState ==
    ASSUME TypeInv, RecordedInv, NEW n \in Nodes,
           ApplyNodeState(n) \/ RecordStateChangeEvent(n)
    PROVE  RowsStay /\ RecordedInv'
<1>1. RowsStay
  BY UnchangedRows DEF ApplyNodeState, RecordStateChangeEvent, Fails, storeVars
<1>2. ViewsFollow
  BY ApplyViews DEF ApplyNodeState, RecordStateChangeEvent
<1>3. Return(n) \/ Goto(n, "applyEvent") \/ Goto(n, "reconcile")
  BY DEF ApplyNodeState, RecordStateChangeEvent
<1> QED
  BY <1>1, <1>2, <1>3, RecordedReturn, RecordedGoto DEF PlainSteps

LEMMA RecordedReconcile ==
    ASSUME TypeInv, RecordedInv, NEW n \in Nodes, ReconcileIncidents(n)
    PROVE  RowsStay /\ RecordedInv'
<1>1. RowsStay /\ ViewsFollow
  BY UnchangedRows, ApplyViews DEF ReconcileIncidents, NoApply, storeVars
<1>2. CASE Return(n)
  BY <1>1, <1>2, RecordedReturn
<1>3. CASE ~Return(n)
  <2>1. PICK rules \in SUBSET Rules, step \in {"resolve", "supersede"} :
          tick' = [tick EXCEPT ![n].pc = step,
                               ![n].todo = ActiveIncidents(n, rules)]
    BY <1>3 DEF ReconcileIncidents
  <2>2. tick[n] \in Ticks /\ tick \in [Nodes -> Ticks]
    BY DEF TypeInv, TypeOK
  <2>3. \A inc \in ActiveIncidents(n, rules) :
          inc.rule \in Rules /\ Recorded(inc.rule)
    BY DEF ActiveIncidents, RecordedInv
  <2>4. tick'[n].pc = step /\ tick'[n].todo = ActiveIncidents(n, rules)
    BY <2>1, <2>2 DEF Ticks
  <2>5. \A m \in Nodes \ {n} : tick'[m] = tick[m]
    BY <2>1, <2>2
  <2>6. \A inc \in tick'[n].todo : inc.rule \in Rules /\ Recorded(inc.rule)'
    BY <1>1, <2>3, <2>4 DEF RowsStay
  <2> QED
    BY <1>1, <2>4, <2>5, <2>6, RecordedStep
<1> QED
  BY <1>2, <1>3

LEMMA RecordedResolve ==
    ASSUME TypeInv, RecordedInv, NEW n \in Nodes,
           ResolveIncident(n) \/ SupersedeIncident(n)
    PROVE  RowsStay /\ RecordedInv'
<1>1. /\ tick[n] \in Ticks /\ tick \in [Nodes -> Ticks]
      /\ \A inc \in tick[n].todo : inc.rule \in Rules
  BY DEF TypeInv, TypeOK, Ticks
<1>2. RowsStay
  <2>1. ASSUME NEW inc \in tick[n].todo,
               PutIncident(inc.rule, "resolved", inc.notified)
        PROVE  RowsStay
    BY <1>1, <2>1, PutIncidentRows
  <2>2. CASE UNCHANGED incidents
    BY <2>2, UnchangedRows
  <2> QED
    BY <2>1, <2>2 DEF ResolveIncident, SupersedeIncident, Fails, NoApply, storeVars
<1>3. ViewsFollow
  BY ApplyViews DEF ResolveIncident, SupersedeIncident
<1>4. CASE Return(n) \/ Goto(n, "check")
  BY <1>2, <1>3, <1>4, RecordedReturn, RecordedGoto
<1>5. ASSUME NEW inc \in tick[n].todo,
             tick' = [tick EXCEPT ![n].pc = "alert", ![n].todo = @ \ {inc},
                                  ![n].action = "resolved",
                                  ![n].rule = inc.rule,
                                  ![n].channels = Channels]
      PROVE  RecordedInv'
  <2> DEFINE t == [tick[n] EXCEPT !.pc = "alert", !.todo = @ \ {inc},
                                  !.action = "resolved", !.rule = inc.rule,
                                  !.channels = Channels]
  <2>1. t \in Ticks
    BY <1>1 DEF Ticks, Steps
  <2>2. t.rule = inc.rule /\ t.todo \subseteq tick[n].todo
    BY <1>1 DEF Ticks
  <2>3. tick' = [tick EXCEPT ![n] = t]
    BY <1>1, <1>5
  <2>4. Recorded(inc.rule)'
    BY <1>1, <1>2 DEF RecordedInv, RowsStay
  <2> HIDE DEF t
  <2> QED
    BY <1>1, <1>2, <1>3, <2>1, <2>2, <2>3, <2>4, RecordedTick
<1>6. ASSUME NEW inc \in tick[n].todo, tick[n].pc = "supersede",
             tick' = [tick EXCEPT ![n].todo = @ \ {inc}]
      PROVE  RecordedInv'
  <2> DEFINE t == [tick[n] EXCEPT !.todo = @ \ {inc}]
  <2>1. t \in Ticks /\ t.pc = "supersede" /\ t.todo \subseteq tick[n].todo
    BY <1>1, <1>6 DEF Ticks
  <2>2. tick' = [tick EXCEPT ![n] = t]
    BY <1>1, <1>6
  <2> HIDE DEF t
  <2> QED
    BY <1>2, <1>3, <2>1, <2>2, RecordedTick
<1> QED
  BY <1>2, <1>4, <1>5, <1>6 DEF ResolveIncident, SupersedeIncident, At

LEMMA RecordedCheck ==
    ASSUME TypeInv, RecordedInv, NEW n \in Nodes, CheckIncident(n)
    PROVE  RowsStay /\ RecordedInv'
<1>1. RowsStay /\ ViewsFollow
  BY UnchangedRows, ApplyViews DEF CheckIncident, NoApply, storeVars
<1>2. tick[n].next.rule \in Rules
  BY DEF TypeInv, TickShape, ShapeOf, CheckIncident, At
<1>3. CASE Return(n) \/ Goto(n, "open")
  BY <1>1, <1>3, RecordedReturn, RecordedGoto
<1>4. CASE /\ view[n].incidents[tick[n].next.rule].status = "active"
           /\ BeginAlert(n, "reminder", tick[n].next.rule)
  <2>1. PICK r \in Rules : r = tick[n].next.rule
    BY <1>2
  <2>2. Recorded(r)
    BY <1>4, <2>1 DEF RecordedInv
  <2>3. Recorded(r)'
    BY <1>1, <2>2 DEF RowsStay
  <2> QED
    BY <1>1, <1>4, <2>1, <2>3, RecordedBegin
<1> QED
  BY <1>1, <1>3, <1>4 DEF CheckIncident

LEMMA RecordedOpen ==
    ASSUME TypeInv, RecordedInv, NEW n \in Nodes, OpenIncident(n)
    PROVE  RowsStay /\ RecordedInv'
<1>1. PICK r \in Rules : r = tick[n].next.rule
  BY DEF TypeInv, TickShape, ShapeOf, OpenIncident, At
<1>2. ViewsFollow
  BY ApplyViews DEF OpenIncident
<1>3. CASE PutIncident(r, "active", Never)
  <2>1. RowsStay /\ Recorded(r)'
    BY <1>3, PutIncidentRows
  <2> QED
    BY <1>1, <1>2, <2>1, RecordedBegin, RecordedReturn DEF OpenIncident
<1>4. CASE Fails(n) /\ Return(n)
  <2>1. RowsStay
    BY <1>4, UnchangedRows DEF Fails, storeVars
  <2> QED
    BY <1>2, <1>4, <2>1, RecordedReturn
<1> QED
  BY <1>1, <1>3, <1>4 DEF OpenIncident

\* Claims, calls and records leave the rows and what the tick is about alone.
LEMMA RecordedDelivery ==
    ASSUME TypeInv, RecordedInv, NEW n \in Nodes,
           ClaimDelivery(n) \/ Send(n) \/ CompleteDelivery(n)
    PROVE  RowsStay /\ RecordedInv'
<1>1. /\ tick[n] \in Ticks /\ tick \in [Nodes -> Ticks]
      /\ tick[n].rule \in Rules /\ Recorded(tick[n].rule)
  BY DEF TypeInv, TypeOK, TickShape, ShapeOf, RecordedInv, ClaimDelivery, Send,
         CompleteDelivery, At
<1>2. RowsStay
  <2>1. CASE UNCHANGED incidents
    BY <2>1, UnchangedRows
  <2>2. CASE PutCompletion(tick[n].key, tick[n].outcome)
    BY <2>2 DEF TypeInv, TypeOK, PutCompletion, RowsStay, Recorded, Incidents
  <2> QED
    BY <2>1, <2>2 DEF ClaimDelivery, Send, CompleteDelivery, PutClaim, Fails,
                      NoApply, storeVars
<1>3. ViewsFollow
  BY ApplyViews DEF ClaimDelivery, Send, CompleteDelivery
<1>4. tick'[n].todo = tick[n].todo /\ tick'[n].rule = tick[n].rule
  <2>1. CASE ClaimDelivery(n)
    <3>1. PICK c, k :
            \/ tick' = [tick EXCEPT ![n].channels = @ \ {c}]
            \/ tick' = [tick EXCEPT ![n].channels = @ \ {c},
                                    ![n].pc = "send", ![n].key = k]
      BY <2>1 DEF ClaimDelivery
    <3> QED
      BY <1>1, <3>1 DEF Ticks
  <2>2. CASE Send(n)
    <3>1. PICK result :
            tick' = [tick EXCEPT ![n].pc = "complete", ![n].outcome = result]
      BY <2>2 DEF Send
    <3> QED
      BY <1>1, <3>1 DEF Ticks
  <2>3. CASE CompleteDelivery(n)
    BY <1>1, <2>3 DEF CompleteDelivery, Ticks
  <2> QED
    BY <2>1, <2>2, <2>3
<1>5. \A m \in Nodes \ {n} : tick'[m] = tick[m]
  BY <1>1 DEF ClaimDelivery, Send, CompleteDelivery
<1>6. PICK r \in Rules : r = tick[n].rule
  BY <1>1
<1>7. Recorded(tick[n].rule)'
  <2>1. Recorded(r)'
    BY <1>1, <1>2, <1>6 DEF RowsStay
  <2> QED
    BY <1>4, <1>6, <2>1 DEF Recorded
<1>8. \A inc \in tick'[n].todo : inc.rule \in Rules /\ Recorded(inc.rule)'
  BY <1>1, <1>2, <1>4 DEF RecordedInv, RowsStay, Ticks
<1> QED
  BY <1>1, <1>2, <1>3, <1>4, <1>5, <1>7, <1>8, RecordedStep

LEMMA RecordedFinish ==
    ASSUME TypeInv, RecordedInv, NEW n \in Nodes, FinishAlert(n) \/ Crash(n)
    PROVE  RowsStay /\ RecordedInv'
<1>1. tick[n] \in Ticks /\ tick \in [Nodes -> Ticks]
  BY DEF TypeInv, TypeOK
<1>2. RowsStay
  BY UnchangedRows DEF FinishAlert, Crash, Fails, NoApply, storeVars
<1>3. ViewsFollow
  <2>1. CASE FinishAlert(n)
    BY <2>1, ApplyViews DEF FinishAlert
  <2>2. CASE Crash(n)
    BY <2>2 DEF Crash, ViewsFollow, TypeInv, TypeOK
  <2> QED
    BY <2>1, <2>2
<1>4. CASE Return(n)
  BY <1>2, <1>3, <1>4, RecordedReturn
<1>5. CASE tick' = [tick EXCEPT ![n].pc = "resolve", ![n].action = "none",
                                ![n].rule = None]
  <2> DEFINE t == [tick[n] EXCEPT !.pc = "resolve", !.action = "none",
                                  !.rule = None]
  <2>1. t \in Ticks
    BY <1>1 DEF Ticks, Steps
  <2>2. t.pc = "resolve" /\ t.todo = tick[n].todo
    BY <1>1 DEF Ticks
  <2>3. tick' = [tick EXCEPT ![n] = t]
    BY <1>1, <1>5
  <2> HIDE DEF t
  <2> QED
    BY <1>2, <1>3, <2>1, <2>2, <2>3, RecordedTick
<1> QED
  BY <1>4, <1>5 DEF FinishAlert, Crash

LEMMA RecordedLoop ==
    ASSUME TypeInv, RecordedInv, NEW n \in Nodes, Loop(n) \/ Crash(n)
    PROVE  RowsStay /\ RecordedInv'
BY RecordedEvaluate, RecordedApplyState, RecordedReconcile, RecordedResolve,
   RecordedCheck, RecordedOpen, RecordedDelivery, RecordedFinish DEF Loop

LEMMA RecordedNext == TypeInv /\ RecordedInv /\ [Next]_vars => RowsStay /\ RecordedInv'
<1> SUFFICES ASSUME TypeInv, RecordedInv, [Next]_vars
             PROVE  RowsStay /\ RecordedInv'
  OBVIOUS
<1>1. CASE \E n \in Nodes : Loop(n) \/ Crash(n)
  BY <1>1, RecordedLoop
<1>2. CASE UNCHANGED <<incidents, tick>> /\ ViewsFollow
  <2>1. RowsStay
    BY <1>2, UnchangedRows
  <2> QED
    BY <1>2, <2>1 DEF RecordedInv, ViewsFollow, Recorded, EmptyView
<1>3. CASE \E n \in Nodes : CatchUp(n)
  <2>1. ViewsFollow
    BY <1>3 DEF CatchUp, ViewsFollow, TypeInv, TypeOK, storeVars
  <2> QED
    BY <1>2, <1>3, <2>1 DEF CatchUp, storeVars
<1>4. CASE \/ \E n \in Nodes : ElectLeader(n) \/ HearLeadership(n)
           \/ Advance
           \/ UNCHANGED vars
  <2>1. UNCHANGED <<incidents, tick, view>>
    BY <1>4 DEF ElectLeader, HearLeadership, Advance, vars, storeVars
  <2>2. ViewsFollow
    BY <2>1 DEF ViewsFollow
  <2> QED
    BY <1>2, <2>1, <2>2
<1> QED
  BY <1>1, <1>3, <1>4 DEF Next

\* What is claimed is about a row, as the tick that claims is.
LEMMA AlertsHaveIncidentStep ==
    TypeInv /\ LedgerInv /\ RecInv /\ [Next]_vars => AlertsHaveIncident'
<1> SUFFICES ASSUME TypeInv, LedgerInv, RecInv, [Next]_vars
             PROVE  AlertsHaveIncident'
  OBVIOUS
<1>1. RowsStay
  BY RecordedNext DEF RecInv
<1>2. \A k \in Keys : k.rule \in Rules
  BY DEF Keys
<1>3. SUFFICES ASSUME NEW k \in Keys, deliveries[k] = "unclaimed",
                      deliveries'[k] # "unclaimed"
               PROVE  Recorded(k.rule)
  BY <1>1, <1>2 DEF RecInv, AlertsHaveIncident, RowsStay, Recorded
<1>4. PICK n \in Nodes : ClaimDelivery(n) \/ Send(n) \/ CompleteDelivery(n)
  <2>1. ASSUME NEW n \in Nodes, Quiet(n) PROVE FALSE
    BY <1>3, <2>1 DEF Quiet
  <2>2. ASSUME NEW n \in Nodes,
               CatchUp(n) \/ ElectLeader(n) \/ HearLeadership(n)
        PROVE  FALSE
    BY <1>3, <2>2 DEF CatchUp, ElectLeader, HearLeadership, storeVars
  <2>3. CASE Advance \/ UNCHANGED vars
    BY <1>3, <2>3 DEF Advance, vars, storeVars
  <2> QED
    BY <2>1, <2>2, <2>3, QuietActions DEF Next, Loop
<1>5. CASE ClaimDelivery(n)
  <2>1. tick[n].pc = "alert" /\ Recorded(tick[n].rule)
    BY <1>5 DEF ClaimDelivery, At, RecInv, RecordedInv
  <2>2. PICK c \in tick[n].channels :
          PutClaim(DeliveryKey(n, c)) \/ UNCHANGED deliveries
    BY <1>5 DEF ClaimDelivery, Fails, storeVars
  <2>3. k = DeliveryKey(n, c)
    BY <1>3, <2>2 DEF PutClaim, TypeInv, TypeOK
  <2> QED
    BY <2>1, <2>3 DEF DeliveryKey
<1>6. CASE Send(n)
  BY <1>3, <1>6 DEF Send, NoApply, storeVars
<1>7. CASE CompleteDelivery(n)
  <2>1. deliveries[tick[n].key] = "pending"
    BY <1>7 DEF LedgerInv, HolderInv, Delivering, CompleteDelivery, At
  <2>2. \/ UNCHANGED deliveries
        \/ deliveries' = [deliveries EXCEPT ![tick[n].key] = tick[n].outcome]
    BY <1>7 DEF CompleteDelivery, PutCompletion, Fails, storeVars
  <2> QED
    BY <1>3, <2>1, <2>2 DEF TypeInv, TypeOK
<1> QED
  BY <1>4, <1>5, <1>6, <1>7

\* Whatever fails on the way, an alert is claimed only for an incident that the
\* log already holds: the loop commits the incident before it calls sendAlert,
\* and no replica is ahead of the log.
THEOREM AlertsAreAboutIncidents == Spec => []AlertsHaveIncident
<1>1. Init => RecInv
  BY DEF Init, RecInv, RecordedInv, AlertsHaveIncident, NoTick
<1>2. TypeInv /\ LedgerInv /\ RecInv /\ [Next]_vars => RecInv'
  BY RecordedNext, AlertsHaveIncidentStep DEF RecInv
<1>3. Spec => []RecInv
  BY <1>1, <1>2, LedgerInvariant, PTL DEF Spec
<1>4. RecInv => AlertsHaveIncident
  BY DEF RecInv
<1> QED
  BY <1>3, <1>4, PTL

-----------------------------------------------------------------------------
(* What a leader knows whose tick began in its term                        *)

\* Only this tick can commit anything now without being straddled.
Writer(n) ==
    raftLeader = n /\ tick[n].term = term /\ tick[n].pc \notin {"idle", "applyState"}

KnowsOf(n) ==
    /\ view[n] = [node |-> nodeState, incidents |-> incidents]
    /\ nodeState = tick[n].next

PlanOf(n) ==
    LET t == tick[n]
    IN  /\ t.pc = "supersede" =>
               /\ \A q \in Rules \ {t.next.rule} :
                      Active(q) => \E inc \in t.todo : inc.rule = q
               /\ \A inc \in t.todo : inc.rule # t.next.rule
        /\ t.pc \in {"check", "open"} => \A q \in Rules \ {t.next.rule} : ~Active(q)
        /\ t.pc = "open" => ~Active(t.next.rule) /\ t.next.bad >= 2
        /\ \/ t.pc = "resolve"
           \/ t.pc \in {"alert", "send", "complete"} /\ t.action = "resolved"
           => t.next.rule = Healthy /\ t.next.good >= 2

TermInv == \A n \in Nodes : tick[n].term <= term

WriterInv == \A n \in Nodes : Writer(n) => KnowsOf(n) /\ PlanOf(n)

NotifiedInv ==
    /\ \A r \in Rules : incidents[r].notified <= clock
    /\ \A n \in Nodes, r \in Rules : view[n].incidents[r].notified <= clock
    /\ \A n \in Nodes : \A inc \in tick[n].todo : inc.notified <= clock

\* What an Apply, or a step without one, leaves behind.
LEMMA ApplyOutcome ==
    ASSUME TypeInv, NEW n \in Nodes,
           Succeeds(n) \/ FailsCommitted(n) \/ Fails(n) \/ NoApply
    PROVE  /\ term' = term /\ raftLeader' \in {raftLeader, None}
           /\ ~Accepts(n) => UNCHANGED <<raftLeader, nodeState, incidents, view, straddled>>
           /\ \/ raftLeader' = None
              \/ view'[n] = [node |-> nodeState', incidents |-> incidents']
              \/ UNCHANGED <<nodeState, incidents, view>>
           /\ \/ UNCHANGED <<nodeState, incidents, straddled>>
              \/ Accepts(n) /\ straddled' = (straddled \/ tick[n].term # term)
<1>1. CASE Succeeds(n)
  <2>1. view'[n] = [node |-> nodeState', incidents |-> incidents']
    BY <1>1 DEF Succeeds, Replicates
  <2> QED
    BY <1>1, <2>1 DEF Succeeds, Committed, NotesTerm, leadershipVars
<1>2. CASE FailsCommitted(n)
  BY <1>2 DEF FailsCommitted, Deposed, NotesTerm
<1>3. CASE Fails(n)
  BY <1>3 DEF Fails, Refused, Deposed, leadershipVars, storeVars
<1>4. CASE NoApply
  BY <1>4 DEF NoApply, leadershipVars, storeVars
<1> QED
  BY <1>1, <1>2, <1>3, <1>4

LEMMA LoopApplies ==
    ASSUME TypeInv, NEW n \in Nodes, Loop(n)
    PROVE  /\ Succeeds(n) \/ FailsCommitted(n) \/ Fails(n) \/ NoApply
           /\ \A m \in Nodes \ {n} : tick'[m] = tick[m]
           /\ clock' = clock
<1>1. tick \in [Nodes -> Ticks]
  BY DEF TypeInv, TypeOK
<1>2. CASE Evaluate(n) \/ ApplyNodeState(n) \/ RecordStateChangeEvent(n) \/ ReconcileIncidents(n)
  BY <1>1, <1>2 DEF Evaluate, ApplyNodeState, RecordStateChangeEvent, ReconcileIncidents,
                    Goto, Return
<1>3. CASE ResolveIncident(n) \/ SupersedeIncident(n) \/ CheckIncident(n) \/ OpenIncident(n)
  BY <1>1, <1>3 DEF ResolveIncident, SupersedeIncident, CheckIncident, OpenIncident,
                    Goto, Return, BeginAlert
<1>4. CASE ClaimDelivery(n) \/ Send(n) \/ CompleteDelivery(n) \/ FinishAlert(n)
  BY <1>1, <1>4 DEF ClaimDelivery, Send, CompleteDelivery, FinishAlert, Return
<1> QED
  BY <1>2, <1>3, <1>4 DEF Loop

\* Nobody else writes while n leads.
LEMMA OthersKnow ==
    ASSUME TypeInv, WriterInv, NEW n \in Nodes, NEW m \in Nodes, m # n,
           Succeeds(n) \/ FailsCommitted(n) \/ Fails(n) \/ NoApply,
           tick'[m] = tick[m], Writer(m)'
    PROVE  KnowsOf(m)' /\ PlanOf(m)'
<1>1. raftLeader = m /\ term' = term
  BY ApplyOutcome DEF Writer
<1>2. UNCHANGED <<raftLeader, nodeState, incidents, view>>
  BY <1>1, ApplyOutcome DEF Accepts
<1>3. KnowsOf(m) /\ PlanOf(m)
  BY <1>1 DEF Writer, WriterInv
<1> QED
  BY <1>2, <1>3 DEF KnowsOf, PlanOf, Active

\* A tick that goes on after an Apply of its own goes on knowing.
LEMMA GoesOnKnowing ==
    ASSUME TypeInv, WriterInv, NEW n \in Nodes, ~At(n, "idle"), ~At(n, "applyState"),
           Succeeds(n) \/ FailsCommitted(n) \/ Fails(n) \/ NoApply,
           nodeState' = nodeState,
           tick'[n].next = tick[n].next, tick'[n].term = tick[n].term,
           Writer(n)'
    PROVE  KnowsOf(n)' /\ Writer(n) /\ PlanOf(n) /\ KnowsOf(n)
<1>1. raftLeader = n /\ term' = term /\ raftLeader' # None
  BY ApplyOutcome DEF Writer
<1>2. Writer(n) /\ KnowsOf(n) /\ PlanOf(n)
  BY <1>1 DEF Writer, WriterInv, At
<1>3. \/ view'[n] = [node |-> nodeState', incidents |-> incidents']
      \/ UNCHANGED <<nodeState, incidents, view>>
  BY <1>1, ApplyOutcome
<1> QED
  BY <1>2, <1>3 DEF KnowsOf

\* Returned, or about to record the state: nothing is claimed.
LEMMA NotWriting ==
    ASSUME TypeInv, NEW n \in Nodes, Return(n)
    PROVE  ~Writer(n)'
BY DEF TypeInv, TypeOK, Return, NoTick, Writer

LEMMA ApplyNodeStateKnows ==
    ASSUME TypeInv, WriterInv, NEW n \in Nodes, ApplyNodeState(n), Writer(n)'
    PROVE  KnowsOf(n)' /\ PlanOf(n)'
<1>1. tick[n] \in Ticks /\ tick \in [Nodes -> Ticks]
  BY DEF TypeInv, TypeOK
<1>2. /\ Succeeds(n) /\ nodeState' = tick[n].next
      /\ \E step \in {"applyEvent", "reconcile"} : Goto(n, step)
  BY NotWriting DEF ApplyNodeState
<1>3. tick'[n].next = tick[n].next /\ tick'[n].pc \in {"applyEvent", "reconcile"}
  BY <1>1, <1>2 DEF Goto, Ticks
<1>4. view'[n] = [node |-> nodeState', incidents |-> incidents']
  BY <1>2 DEF Succeeds, Replicates
<1> QED
  BY <1>2, <1>3, <1>4 DEF KnowsOf, PlanOf

LEMMA RecordStateChangeEventKnows ==
    ASSUME TypeInv, WriterInv, NEW n \in Nodes, RecordStateChangeEvent(n), Writer(n)'
    PROVE  KnowsOf(n)' /\ PlanOf(n)'
<1>1. tick[n] \in Ticks /\ tick \in [Nodes -> Ticks]
  BY DEF TypeInv, TypeOK
<1>2. Succeeds(n) /\ Goto(n, "reconcile") /\ nodeState' = nodeState
  BY NotWriting DEF RecordStateChangeEvent, storeVars
<1>3. /\ tick'[n].next = tick[n].next /\ tick'[n].pc = "reconcile"
      /\ tick'[n].term = tick[n].term
  BY <1>1, <1>2 DEF Goto, Ticks
<1>4. KnowsOf(n)'
  BY <1>2, <1>3, GoesOnKnowing DEF RecordStateChangeEvent, At
<1> QED
  BY <1>3, <1>4 DEF PlanOf

LEMMA ReconcileIncidentsKnows ==
    ASSUME TypeInv, WriterInv, NEW n \in Nodes, ReconcileIncidents(n), Writer(n)'
    PROVE  KnowsOf(n)' /\ PlanOf(n)'
<1>1. tick[n] \in Ticks /\ tick \in [Nodes -> Ticks]
  BY DEF TypeInv, TypeOK
<1>2. ~Return(n) /\ NoApply /\ UNCHANGED <<nodeState, incidents>> /\ At(n, "reconcile")
  BY NotWriting DEF ReconcileIncidents, NoApply, storeVars
<1>3. CASE /\ tick[n].next.rule = Healthy /\ tick[n].next.good >= 2
           /\ tick' = [tick EXCEPT ![n].pc = "resolve",
                                   ![n].todo = ActiveIncidents(n, Rules)]
  <2>1. /\ tick'[n].pc = "resolve" /\ tick'[n].next = tick[n].next
        /\ tick'[n].term = tick[n].term
    BY <1>1, <1>3 DEF Ticks
  <2>2. KnowsOf(n)'
    BY <1>2, <2>1, GoesOnKnowing DEF At
  <2> QED
    BY <1>3, <2>1, <2>2 DEF PlanOf
<1>4. CASE tick' = [tick EXCEPT ![n].pc = "supersede",
                        ![n].todo = ActiveIncidents(n, Rules \ {tick[n].next.rule})]
  <2>1. PICK todo : todo = ActiveIncidents(n, Rules \ {tick[n].next.rule})
    OBVIOUS
  <2>2. /\ tick'[n].pc = "supersede" /\ tick'[n].next = tick[n].next
        /\ tick'[n].term = tick[n].term /\ tick'[n].todo = todo
    BY <1>1, <1>4, <2>1 DEF Ticks
  <2>3. KnowsOf(n)' /\ KnowsOf(n)
    BY <1>2, <2>2, GoesOnKnowing DEF At
  <2>4. \A q \in Rules \ {tick[n].next.rule} : Active(q) => \E inc \in todo : inc.rule = q
    <3> SUFFICES ASSUME NEW q \in Rules \ {tick[n].next.rule}, Active(q)
                 PROVE  \E inc \in todo : inc.rule = q
      OBVIOUS
    <3>1. view[n].incidents[q].status = "active"
      BY <2>3 DEF KnowsOf, Active
    <3>2. [rule |-> q, notified |-> view[n].incidents[q].notified] \in todo
      BY <2>1, <3>1 DEF ActiveIncidents
    <3> QED
      BY <3>2
  <2>5. \A inc \in todo : inc.rule # tick[n].next.rule
    BY <2>1 DEF ActiveIncidents
  <2>6. \A q \in Rules : Active(q)' <=> Active(q)
    BY <1>2 DEF Active
  <2> QED
    BY <2>2, <2>3, <2>4, <2>5, <2>6 DEF PlanOf
<1> QED
  BY <1>2, <1>3, <1>4 DEF ReconcileIncidents

\* What UpsertIncident makes active or not.
LEMMA PutIncidentActive ==
    ASSUME TypeInv, NEW r \in Rules, NEW status, NEW notified, PutIncident(r, status, notified)
    PROVE  /\ \A q \in Rules \ {r} : Active(q)' <=> Active(q)
           /\ Active(r)' <=> status = "active"
           /\ nodeState' = nodeState
BY DEF TypeInv, TypeOK, PutIncident, Active

LEMMA ResolveIncidentKnows ==
    ASSUME TypeInv, WriterInv, NEW n \in Nodes, ResolveIncident(n), Writer(n)'
    PROVE  KnowsOf(n)' /\ PlanOf(n)'
<1>1. tick[n] \in Ticks /\ tick \in [Nodes -> Ticks]
  BY DEF TypeInv, TypeOK
<1>2. PICK inc \in tick[n].todo :
          /\ PutIncident(inc.rule, "resolved", inc.notified)
          /\ Succeeds(n)
          /\ tick' = [tick EXCEPT ![n].pc = "alert", ![n].todo = @ \ {inc},
                                  ![n].action = "resolved", ![n].rule = inc.rule,
                                  ![n].channels = Channels]
  BY NotWriting DEF ResolveIncident
<1>3. /\ tick'[n].pc = "alert" /\ tick'[n].next = tick[n].next
      /\ tick'[n].term = tick[n].term /\ At(n, "resolve") /\ nodeState' = nodeState
  BY <1>1, <1>2 DEF Ticks, PutIncident, ResolveIncident
<1>4. KnowsOf(n)' /\ PlanOf(n)
  BY <1>2, <1>3, GoesOnKnowing DEF At
<1> QED
  BY <1>3, <1>4 DEF PlanOf, At

LEMMA SupersedeIncidentKnows ==
    ASSUME TypeInv, WriterInv, NEW n \in Nodes, SupersedeIncident(n), Writer(n)'
    PROVE  KnowsOf(n)' /\ PlanOf(n)'
<1>1. tick[n] \in Ticks /\ tick \in [Nodes -> Ticks] /\ At(n, "supersede")
  BY DEF TypeInv, TypeOK, SupersedeIncident
<1>2. CASE \E inc \in tick[n].todo :
               /\ PutIncident(inc.rule, "resolved", inc.notified)
               /\ Succeeds(n)
               /\ tick' = [tick EXCEPT ![n].todo = @ \ {inc}]
  <2>1. PICK inc \in tick[n].todo :
            /\ PutIncident(inc.rule, "resolved", inc.notified)
            /\ Succeeds(n)
            /\ tick' = [tick EXCEPT ![n].todo = @ \ {inc}]
    BY <1>2
  <2>2. inc.rule \in Rules
    BY <1>1 DEF Ticks
  <2>3. /\ tick'[n].pc = "supersede" /\ tick'[n].next = tick[n].next
        /\ tick'[n].term = tick[n].term /\ tick'[n].todo = tick[n].todo \ {inc}
    BY <1>1, <2>1 DEF Ticks, At
  <2>4. /\ \A q \in Rules \ {inc.rule} : Active(q)' <=> Active(q)
        /\ ~Active(inc.rule)' /\ nodeState' = nodeState
    BY <2>1, <2>2, PutIncidentActive
  <2>5. KnowsOf(n)' /\ PlanOf(n)
    BY <1>1, <2>1, <2>3, <2>4, GoesOnKnowing DEF At
  <2>6. \A q \in Rules \ {tick[n].next.rule} :
            Active(q)' => \E other \in tick[n].todo \ {inc} : other.rule = q
    <3> SUFFICES ASSUME NEW q \in Rules \ {tick[n].next.rule}, Active(q)'
                 PROVE  \E other \in tick[n].todo \ {inc} : other.rule = q
      OBVIOUS
    <3>1. q # inc.rule
      BY <2>4
    <3>2. PICK other \in tick[n].todo : other.rule = q
      BY <1>1, <2>4, <2>5, <3>1 DEF PlanOf, At
    <3> QED
      BY <3>1, <3>2
  <2>7. \A other \in tick[n].todo \ {inc} : other.rule # tick[n].next.rule
    BY <1>1, <2>5 DEF PlanOf, At
  <2> QED
    BY <2>3, <2>5, <2>6, <2>7 DEF PlanOf
<1>3. CASE tick[n].todo = {} /\ NoApply /\ Goto(n, "check")
  <2>1. /\ tick'[n].pc = "check" /\ tick'[n].next = tick[n].next
        /\ tick'[n].term = tick[n].term
    BY <1>1, <1>3 DEF Ticks, Goto
  <2>2. UNCHANGED <<nodeState, incidents>>
    BY <1>3 DEF NoApply, storeVars
  <2>3. KnowsOf(n)' /\ PlanOf(n)
    BY <1>1, <1>3, <2>1, <2>2, GoesOnKnowing DEF At
  <2>4. \A q \in Rules \ {tick[n].next.rule} : ~Active(q)
    BY <1>1, <1>3, <2>3 DEF PlanOf, At
  <2> QED
    BY <2>1, <2>2, <2>3, <2>4 DEF PlanOf, Active
<1> QED
  BY <1>2, <1>3, NotWriting DEF SupersedeIncident

LEMMA CheckIncidentKnows ==
    ASSUME TypeInv, WriterInv, NEW n \in Nodes, CheckIncident(n), Writer(n)'
    PROVE  KnowsOf(n)' /\ PlanOf(n)'
<1>1. tick[n] \in Ticks /\ tick \in [Nodes -> Ticks] /\ At(n, "check")
  BY DEF TypeInv, TypeOK, CheckIncident
<1>2. NoApply /\ UNCHANGED <<nodeState, incidents>>
  BY DEF CheckIncident, NoApply, storeVars
<1>3. CASE /\ ShouldOpen(tick[n].next,
                         view[n].incidents[tick[n].next.rule].status = "active")
           /\ Goto(n, "open")
  <2>1. /\ tick'[n].pc = "open" /\ tick'[n].next = tick[n].next
        /\ tick'[n].term = tick[n].term
    BY <1>1, <1>3 DEF Ticks, Goto
  <2>2. KnowsOf(n)' /\ PlanOf(n) /\ KnowsOf(n)
    BY <1>1, <1>2, <2>1, GoesOnKnowing DEF At
  <2>3. ~Active(tick[n].next.rule) /\ tick[n].next.bad >= 2
    BY <1>3, <2>2 DEF ShouldOpen, KnowsOf, Active
  <2>4. \A q \in Rules \ {tick[n].next.rule} : ~Active(q)
    BY <1>1, <2>2 DEF PlanOf, At
  <2> QED
    BY <1>2, <2>1, <2>2, <2>3, <2>4 DEF PlanOf, Active
<1>4. CASE BeginAlert(n, "reminder", tick[n].next.rule)
  <2>1. /\ tick'[n].pc = "alert" /\ tick'[n].next = tick[n].next
        /\ tick'[n].term = tick[n].term /\ tick'[n].action = "reminder"
    BY <1>1, <1>4 DEF Ticks, BeginAlert
  <2>2. KnowsOf(n)'
    BY <1>1, <1>2, <2>1, GoesOnKnowing DEF At
  <2> QED
    BY <2>1, <2>2 DEF PlanOf
<1> QED
  BY <1>3, <1>4, NotWriting DEF CheckIncident

LEMMA OpenIncidentKnows ==
    ASSUME TypeInv, WriterInv, NEW n \in Nodes, OpenIncident(n), Writer(n)'
    PROVE  KnowsOf(n)' /\ PlanOf(n)'
<1>1. tick[n] \in Ticks /\ tick \in [Nodes -> Ticks] /\ At(n, "open")
  BY DEF TypeInv, TypeOK, OpenIncident
<1>2. /\ PutIncident(tick[n].next.rule, "active", Never) /\ Succeeds(n)
      /\ BeginAlert(n, "opened", tick[n].next.rule)
  BY NotWriting DEF OpenIncident
<1>3. /\ tick'[n].pc = "alert" /\ tick'[n].next = tick[n].next
      /\ tick'[n].term = tick[n].term /\ tick'[n].action = "opened"
  BY <1>1, <1>2 DEF Ticks, BeginAlert
<1>4. nodeState' = nodeState
  BY <1>2 DEF PutIncident
<1>5. KnowsOf(n)'
  BY <1>1, <1>2, <1>3, <1>4, GoesOnKnowing DEF At
<1> QED
  BY <1>3, <1>5 DEF PlanOf

\* How the tick moves while alerts are delivered.
LEMMA DeliveryMoves ==
    ASSUME TypeInv, NEW n \in Nodes, ClaimDelivery(n) \/ Send(n) \/ CompleteDelivery(n)
    PROVE  /\ tick[n].pc \in {"alert", "send", "complete"}
           /\ tick'[n].pc \in {"alert", "send", "complete"}
           /\ tick'[n].next = tick[n].next /\ tick'[n].term = tick[n].term
           /\ tick'[n].action = tick[n].action /\ tick'[n].todo = tick[n].todo
           /\ nodeState' = nodeState
<1>1. tick[n] \in Ticks /\ tick \in [Nodes -> Ticks]
  BY DEF TypeInv, TypeOK
<1>2. CASE ClaimDelivery(n)
  <2>1. PICK c, k :
          \/ tick' = [tick EXCEPT ![n].channels = @ \ {c}]
          \/ tick' = [tick EXCEPT ![n].channels = @ \ {c},
                                  ![n].pc = "send", ![n].key = k]
    BY <1>2 DEF ClaimDelivery
  <2>2. At(n, "alert") /\ nodeState' = nodeState
    BY <1>2 DEF ClaimDelivery, PutClaim, Fails, storeVars
  <2> QED
    BY <1>1, <2>1, <2>2 DEF Ticks, At
<1>3. CASE Send(n)
  <2>1. PICK result :
          tick' = [tick EXCEPT ![n].pc = "complete", ![n].outcome = result]
    BY <1>3 DEF Send
  <2>2. At(n, "send") /\ nodeState' = nodeState
    BY <1>3 DEF Send, NoApply, storeVars
  <2> QED
    BY <1>1, <2>1, <2>2 DEF Ticks, At
<1>4. CASE CompleteDelivery(n)
  <2>1. At(n, "complete") /\ nodeState' = nodeState
    BY <1>4 DEF CompleteDelivery, PutCompletion, Fails, storeVars
  <2> QED
    BY <1>1, <1>4, <2>1 DEF CompleteDelivery, Ticks, At
<1> QED
  BY <1>2, <1>3, <1>4

LEMMA DeliveryKnows ==
    ASSUME TypeInv, WriterInv, NEW n \in Nodes,
           ClaimDelivery(n) \/ Send(n) \/ CompleteDelivery(n), Writer(n)'
    PROVE  KnowsOf(n)' /\ PlanOf(n)'
<1>1. Succeeds(n) \/ FailsCommitted(n) \/ Fails(n) \/ NoApply
  BY DEF ClaimDelivery, Send, CompleteDelivery
<1>2. KnowsOf(n)' /\ PlanOf(n)
  BY <1>1, DeliveryMoves, GoesOnKnowing DEF At
<1>3. tick[n].action = "resolved" => tick[n].next.rule = Healthy /\ tick[n].next.good >= 2
  BY <1>2, DeliveryMoves DEF PlanOf
<1> QED
  BY <1>2, <1>3, DeliveryMoves DEF PlanOf

LEMMA FinishAlertKnows ==
    ASSUME TypeInv, WriterInv, NEW n \in Nodes, FinishAlert(n), Writer(n)'
    PROVE  KnowsOf(n)' /\ PlanOf(n)'
<1>1. tick[n] \in Ticks /\ tick \in [Nodes -> Ticks] /\ At(n, "alert")
  BY DEF TypeInv, TypeOK, FinishAlert
<1>2. /\ tick[n].action = "resolved" /\ Succeeds(n) /\ nodeState' = nodeState
      /\ tick' = [tick EXCEPT ![n].pc = "resolve", ![n].action = "none", ![n].rule = None]
  BY NotWriting DEF FinishAlert, storeVars
<1>3. /\ tick'[n].pc = "resolve" /\ tick'[n].next = tick[n].next
      /\ tick'[n].term = tick[n].term
  BY <1>1, <1>2 DEF Ticks
<1>4. KnowsOf(n)' /\ PlanOf(n)
  BY <1>1, <1>2, <1>3, GoesOnKnowing DEF At
<1> QED
  BY <1>1, <1>2, <1>3, <1>4 DEF PlanOf, At

LEMMA LoopKnows ==
    ASSUME TypeInv, WriterInv, NEW n \in Nodes, Loop(n)
    PROVE  WriterInv'
<1> SUFFICES ASSUME NEW m \in Nodes, Writer(m)'
             PROVE  KnowsOf(m)' /\ PlanOf(m)'
  BY DEF WriterInv
<1>1. CASE m # n
  BY <1>1, LoopApplies, OthersKnow
<1>2. CASE m = n
  <2>1. ~Evaluate(n)
    <3> SUFFICES ASSUME Evaluate(n)
                 PROVE  FALSE
      OBVIOUS
    <3>1. tick[n] \in Ticks /\ tick \in [Nodes -> Ticks]
      BY DEF TypeInv, TypeOK
    <3>2. PICK next, announce :
            tick' = [tick EXCEPT ![n].pc = "applyState", ![n].term = term,
                        ![n].next = next, ![n].announce = announce]
      BY DEF Evaluate
    <3>3. tick'[n].pc = "applyState"
      BY <3>1, <3>2 DEF Ticks
    <3> QED
      BY <1>2, <3>3 DEF Writer
  <2> QED
    BY <1>2, <2>1, ApplyNodeStateKnows, RecordStateChangeEventKnows,
       ReconcileIncidentsKnows, ResolveIncidentKnows, SupersedeIncidentKnows,
       CheckIncidentKnows, OpenIncidentKnows, DeliveryKnows, FinishAlertKnows DEF Loop
<1> QED
  BY <1>1, <1>2

\* Crashes, elections and late news take nothing from a leader that knows.
LEMMA SurroundingsKnow ==
    ASSUME TypeInv, TermInv, WriterInv,
           \/ \E n \in Nodes : CatchUp(n) \/ Crash(n) \/ ElectLeader(n) \/ HearLeadership(n)
           \/ Advance
           \/ UNCHANGED vars
    PROVE  TermInv' /\ WriterInv'
<1>1. tick \in [Nodes -> Ticks] /\ term \in Nat /\ view \in [Nodes -> Views]
      /\ incidents \in [Rules -> Incidents]
  BY DEF TypeInv, TypeOK, LeadershipTypeOK
<1>2. CASE \E n \in Nodes : ElectLeader(n)
  <2>1. PICK n \in Nodes : ElectLeader(n)
    BY <1>2
  <2>2. term' = term + 1 /\ UNCHANGED tick
    BY <2>1 DEF ElectLeader, Elect
  <2>3. \A m \in Nodes : tick[m].term \in Nat /\ tick[m].term <= term
    BY <1>1 DEF TermInv, Ticks
  <2>4. \A m \in Nodes : tick'[m].term <= term' /\ tick'[m].term # term'
    BY <1>1, <2>2, <2>3
  <2> QED
    BY <2>4 DEF TermInv, WriterInv, Writer
<1>3. CASE \E n \in Nodes : Crash(n)
  <2>1. PICK n \in Nodes : Crash(n)
    BY <1>3
  <2>2. /\ Return(n) /\ term' = term /\ raftLeader' \in {raftLeader, None}
        /\ UNCHANGED <<nodeState, incidents>>
        /\ \A m \in Nodes \ {n} : view'[m] = view[m]
    BY <1>1, <2>1 DEF Crash, Restart, storeVars
  <2>3. \A m \in Nodes \ {n} : tick'[m] = tick[m]
    BY <1>1, <2>2 DEF Return
  <2>4. tick'[n] = NoTick /\ ~Writer(n)'
    BY <1>1, <2>2, NotWriting DEF Return
  <2>5. TermInv'
    BY <1>1, <2>2, <2>3, <2>4 DEF TermInv, NoTick
  <2>6. ASSUME NEW m \in Nodes, Writer(m)'
        PROVE  KnowsOf(m)' /\ PlanOf(m)'
    <3>1. m # n /\ Writer(m)
      BY <2>2, <2>3, <2>4, <2>6 DEF Writer
    <3>2. KnowsOf(m) /\ PlanOf(m)
      BY <3>1 DEF WriterInv
    <3> QED
      BY <2>2, <2>3, <3>1, <3>2 DEF KnowsOf, PlanOf, Active
  <2> QED
    BY <2>5, <2>6 DEF WriterInv
<1>4. CASE /\ UNCHANGED <<raftLeader, term, nodeState, incidents, tick>>
           /\ \A m \in Nodes :
                  \/ view'[m] = view[m]
                  \/ view'[m] = [node |-> nodeState, incidents |-> incidents]
  <2>1. TermInv'
    BY <1>4 DEF TermInv
  <2>2. ASSUME NEW m \in Nodes, Writer(m)'
        PROVE  KnowsOf(m)' /\ PlanOf(m)'
    <3>1. Writer(m)
      BY <1>4, <2>2 DEF Writer
    <3>2. KnowsOf(m) /\ PlanOf(m)
      BY <3>1 DEF WriterInv
    <3> QED
      BY <1>4, <3>2 DEF KnowsOf, PlanOf, Active
  <2> QED
    BY <2>1, <2>2 DEF WriterInv
<1>5. CASE \E n \in Nodes : CatchUp(n)
  BY <1>1, <1>4, <1>5 DEF CatchUp, leadershipVars, storeVars
<1>6. CASE \E n \in Nodes : HearLeadership(n)
  BY <1>4, <1>6 DEF HearLeadership, WatchLeadership, storeVars
<1>7. CASE Advance \/ UNCHANGED vars
  BY <1>4, <1>7 DEF Advance, vars, leadershipVars, storeVars
<1> QED
  BY <1>2, <1>3, <1>5, <1>6, <1>7

\* A tick is of the term in which it was evaluated.
LEMMA KeepsTerm ==
    ASSUME TypeInv, NEW n \in Nodes, Loop(n), ~Evaluate(n), ~Return(n)
    PROVE  tick'[n].term = tick[n].term
<1>1. tick[n] \in Ticks /\ tick \in [Nodes -> Ticks]
  BY DEF TypeInv, TypeOK
<1>2. CASE \E step \in Steps : Goto(n, step)
  BY <1>1, <1>2 DEF Goto, Ticks
<1>3. CASE \E action, r : BeginAlert(n, action, r)
  BY <1>1, <1>3 DEF BeginAlert, Ticks
<1>4. CASE ApplyNodeState(n) \/ RecordStateChangeEvent(n) \/ CheckIncident(n) \/ OpenIncident(n)
  BY <1>2, <1>3, <1>4
     DEF ApplyNodeState, RecordStateChangeEvent, CheckIncident, OpenIncident, Steps
<1>5. CASE ReconcileIncidents(n)
  <2>1. PICK step, todo : tick' = [tick EXCEPT ![n].pc = step, ![n].todo = todo]
    BY <1>5 DEF ReconcileIncidents
  <2> QED
    BY <1>1, <2>1 DEF Ticks
<1>6. CASE ResolveIncident(n)
  <2>1. PICK inc :
          tick' = [tick EXCEPT ![n].pc = "alert", ![n].todo = @ \ {inc},
                               ![n].action = "resolved", ![n].rule = inc.rule,
                               ![n].channels = Channels]
    BY <1>6 DEF ResolveIncident
  <2> QED
    BY <1>1, <2>1 DEF Ticks
<1>7. CASE SupersedeIncident(n)
  <2>1. PICK inc : Goto(n, "check") \/ tick' = [tick EXCEPT ![n].todo = @ \ {inc}]
    BY <1>7 DEF SupersedeIncident
  <2> QED
    BY <1>1, <1>2, <2>1 DEF Ticks, Steps
<1>8. CASE ClaimDelivery(n) \/ Send(n) \/ CompleteDelivery(n)
  BY <1>8, DeliveryMoves
<1>9. CASE FinishAlert(n)
  <2>1. tick' = [tick EXCEPT ![n].pc = "resolve", ![n].action = "none", ![n].rule = None]
    BY <1>9 DEF FinishAlert
  <2> QED
    BY <1>1, <2>1 DEF Ticks
<1> QED
  BY <1>4, <1>5, <1>6, <1>7, <1>8, <1>9 DEF Loop

LEMMA LoopTerm ==
    ASSUME TypeInv, TermInv, NEW n \in Nodes, Loop(n)
    PROVE  TermInv'
<1>1. tick[n] \in Ticks /\ tick \in [Nodes -> Ticks] /\ term \in Nat
  BY DEF TypeInv, TypeOK, LeadershipTypeOK
<1>2. term' = term /\ \A m \in Nodes \ {n} : tick'[m] = tick[m]
  BY LoopApplies, ApplyOutcome
<1>3. tick'[n].term \in {tick[n].term, term, 0}
  <2>1. CASE Return(n)
    BY <1>1, <2>1 DEF Return, NoTick
  <2>2. CASE Evaluate(n)
    <3>1. PICK next, announce :
            tick' = [tick EXCEPT ![n].pc = "applyState", ![n].term = term,
                        ![n].next = next, ![n].announce = announce]
      BY <2>2 DEF Evaluate
    <3> QED
      BY <1>1, <3>1 DEF Ticks
  <2> QED
    BY <2>1, <2>2, KeepsTerm
<1>4. tick[n].term \in Nat /\ tick[n].term <= term
  BY <1>1 DEF TermInv, Ticks
<1>5. tick'[n].term <= term
  BY <1>1, <1>3, <1>4
<1> QED
  BY <1>2, <1>5 DEF TermInv

-----------------------------------------------------------------------------
(* No row, replica or list is notified later than now                      *)

\* The list of a tick shrinks, or is read from the replica.
LEMMA LoopTodo ==
    ASSUME TypeInv, NEW n \in Nodes, Loop(n)
    PROVE  \/ tick'[n].todo \subseteq tick[n].todo
           \/ /\ At(n, "reconcile") /\ NoApply
              /\ \E rules \in SUBSET Rules : tick'[n].todo = ActiveIncidents(n, rules)
<1>1. tick[n] \in Ticks /\ tick \in [Nodes -> Ticks]
  BY DEF TypeInv, TypeOK
<1>2. CASE Return(n)
  BY <1>1, <1>2 DEF Return, NoTick
<1>3. CASE \E step \in Steps : Goto(n, step)
  BY <1>1, <1>3 DEF Goto, Ticks
<1>4. CASE \E action, r : BeginAlert(n, action, r)
  BY <1>1, <1>4 DEF BeginAlert, Ticks
<1>5. CASE Evaluate(n)
  <2>1. PICK next, announce :
          tick' = [tick EXCEPT ![n].pc = "applyState", ![n].term = term,
                      ![n].next = next, ![n].announce = announce]
    BY <1>5 DEF Evaluate
  <2> QED
    BY <1>1, <2>1 DEF Ticks
<1>6. CASE ApplyNodeState(n) \/ RecordStateChangeEvent(n) \/ CheckIncident(n) \/ OpenIncident(n)
  BY <1>2, <1>3, <1>4, <1>6
     DEF ApplyNodeState, RecordStateChangeEvent, CheckIncident, OpenIncident, Steps
<1>7. CASE ReconcileIncidents(n)
  <2>1. CASE ~Return(n)
    <3>1. PICK rules \in SUBSET Rules, step \in {"resolve", "supersede"} :
            tick' = [tick EXCEPT ![n].pc = step, ![n].todo = ActiveIncidents(n, rules)]
      BY <1>7, <2>1 DEF ReconcileIncidents
    <3>2. PICK todo : todo = ActiveIncidents(n, rules)
      OBVIOUS
    <3>3. tick'[n].todo = todo
      BY <1>1, <3>1, <3>2 DEF Ticks
    <3>4. At(n, "reconcile") /\ NoApply
      BY <1>7 DEF ReconcileIncidents
    <3> QED
      BY <3>2, <3>3, <3>4
  <2> QED
    BY <1>2, <2>1
<1>8. CASE ResolveIncident(n)
  <2>1. PICK inc :
          \/ Return(n)
          \/ tick' = [tick EXCEPT ![n].pc = "alert", ![n].todo = @ \ {inc},
                                  ![n].action = "resolved", ![n].rule = inc.rule,
                                  ![n].channels = Channels]
    BY <1>8 DEF ResolveIncident
  <2> QED
    BY <1>1, <1>2, <2>1 DEF Ticks
<1>9. CASE SupersedeIncident(n)
  <2>1. PICK inc : \/ Return(n) \/ Goto(n, "check")
                   \/ tick' = [tick EXCEPT ![n].todo = @ \ {inc}]
    BY <1>9 DEF SupersedeIncident
  <2> QED
    BY <1>1, <1>2, <1>3, <2>1 DEF Ticks, Steps
<1>10. CASE ClaimDelivery(n) \/ Send(n) \/ CompleteDelivery(n)
  BY <1>10, DeliveryMoves
<1>11. CASE FinishAlert(n)
  <2>1. \/ Return(n)
        \/ tick' = [tick EXCEPT ![n].pc = "resolve", ![n].action = "none",
                                ![n].rule = None]
    BY <1>11 DEF FinishAlert
  <2> QED
    BY <1>1, <1>2, <2>1 DEF Ticks
<1> QED
  BY <1>5, <1>6, <1>7, <1>8, <1>9, <1>10, <1>11 DEF Loop

\* What the steps of the loop do to the incidents.
LEMMA LoopIncidents ==
    ASSUME TypeInv, NEW n \in Nodes, Loop(n)
    PROVE  \/ UNCHANGED incidents
           \/ /\ At(n, "open")
              /\ PutIncident(tick[n].next.rule, "active", Never)
           \/ /\ At(n, "resolve") \/ At(n, "supersede")
              /\ \E inc \in tick[n].todo : PutIncident(inc.rule, "resolved", inc.notified)
           \/ /\ At(n, "complete")
              /\ \E r \in Rules : incidents' = [incidents EXCEPT ![r].notified = clock]
<1>1. CASE Evaluate(n) \/ ApplyNodeState(n) \/ RecordStateChangeEvent(n) \/ ReconcileIncidents(n)
           \/ CheckIncident(n) \/ ClaimDelivery(n) \/ Send(n) \/ FinishAlert(n)
  BY <1>1 DEF Evaluate, ApplyNodeState, RecordStateChangeEvent, ReconcileIncidents,
              CheckIncident, ClaimDelivery, Send, FinishAlert, PutClaim, Fails,
              NoApply, storeVars
<1>2. CASE ResolveIncident(n) \/ SupersedeIncident(n) \/ OpenIncident(n)
  BY <1>2 DEF ResolveIncident, SupersedeIncident, OpenIncident, Fails, NoApply, storeVars
<1>3. CASE CompleteDelivery(n)
  <2>1. At(n, "complete") /\ tick[n].key.rule \in Rules
    BY <1>3 DEF CompleteDelivery, At, TypeInv, TickShape, ShapeOf, Keys
  <2> QED
    BY <1>3, <2>1 DEF CompleteDelivery, PutCompletion, Fails, storeVars
<1> QED
  BY <1>1, <1>2, <1>3 DEF Loop

LEMMA LoopNotified ==
    ASSUME TypeInv, NotifiedInv, NEW n \in Nodes, Loop(n)
    PROVE  NotifiedInv'
<1>1. /\ incidents \in [Rules -> Incidents] /\ clock \in 0..MaxTime
      /\ \A m \in Nodes : \A inc \in tick[m].todo : inc.rule \in Rules
      /\ tick[n].pc = "open" => tick[n].next.rule \in Rules
  BY DEF TypeInv, TypeOK, Ticks, TickShape, ShapeOf
<1>2. clock' = clock /\ \A m \in Nodes \ {n} : tick'[m] = tick[m]
  BY LoopApplies
<1>3. \A r \in Rules : incidents'[r].notified <= clock
  <2>1. CASE UNCHANGED incidents
    BY <2>1 DEF NotifiedInv
  <2>2. CASE At(n, "open") /\ PutIncident(tick[n].next.rule, "active", Never)
    BY <1>1, <2>2 DEF NotifiedInv, At, PutIncident, Never
  <2>3. CASE \E inc \in tick[n].todo : PutIncident(inc.rule, "resolved", inc.notified)
    BY <1>1, <2>3 DEF NotifiedInv, PutIncident
  <2>4. CASE \E r \in Rules : incidents' = [incidents EXCEPT ![r].notified = clock]
    <3>1. PICK q \in Rules : incidents' = [incidents EXCEPT ![q].notified = clock]
      BY <2>4
    <3>2. \A r \in Rules : incidents'[r].notified \in {incidents[r].notified, clock}
      BY <1>1, <3>1 DEF Incidents
    <3>3. clock <= clock
      BY <1>1
    <3> QED
      BY <3>2, <3>3 DEF NotifiedInv
  <2> QED
    BY <2>1, <2>2, <2>3, <2>4, LoopIncidents
<1>4. \A m \in Nodes, r \in Rules : view'[m].incidents[r].notified <= clock
  <2>1. ViewsFollow
    BY LoopApplies, ApplyViews
  <2>2. \A r \in Rules : EmptyView.incidents[r].notified <= clock
    BY <1>1 DEF EmptyView, Never
  <2> QED
    BY <1>3, <2>1, <2>2 DEF ViewsFollow, NotifiedInv
<1>5. \A m \in Nodes : \A inc \in tick'[m].todo : inc.notified <= clock
  <2> SUFFICES ASSUME NEW inc \in tick'[n].todo
               PROVE  inc.notified <= clock
    BY <1>2 DEF NotifiedInv
  <2>1. CASE tick'[n].todo \subseteq tick[n].todo
    BY <2>1 DEF NotifiedInv
  <2>2. CASE \E rules \in SUBSET Rules : tick'[n].todo = ActiveIncidents(n, rules)
    BY <2>2 DEF NotifiedInv, ActiveIncidents
  <2> QED
    BY <2>1, <2>2, LoopTodo
<1> QED
  BY <1>2, <1>3, <1>4, <1>5 DEF NotifiedInv

LEMMA SurroundingsNotified ==
    ASSUME TypeInv, NotifiedInv,
           \/ \E n \in Nodes : CatchUp(n) \/ Crash(n) \/ ElectLeader(n) \/ HearLeadership(n)
           \/ Advance
           \/ UNCHANGED vars
    PROVE  NotifiedInv'
<1>1. /\ clock \in 0..MaxTime /\ tick \in [Nodes -> Ticks] /\ view \in [Nodes -> Views]
      /\ incidents \in [Rules -> Incidents]
  BY DEF TypeInv, TypeOK
<1>2. UNCHANGED incidents /\ clock' \in {clock, clock + 1}
  BY DEF CatchUp, Crash, ElectLeader, HearLeadership, Advance, vars, storeVars
<1>3. \A m \in Nodes : tick'[m] = tick[m] \/ tick'[m].todo = {}
  BY <1>1 DEF CatchUp, Crash, ElectLeader, HearLeadership, Advance, vars, storeVars,
              Return, NoTick
<1>4. ViewsFollow
  <2>1. CASE \E n \in Nodes : CatchUp(n) \/ Crash(n)
    BY <1>1, <1>2, <2>1 DEF CatchUp, Crash, ViewsFollow
  <2>2. CASE UNCHANGED view
    BY <2>2 DEF ViewsFollow
  <2> QED
    BY <2>1, <2>2 DEF ElectLeader, HearLeadership, Advance, vars
<1>5. /\ \A r \in Rules : incidents[r].notified \in -1..MaxTime
      /\ \A n \in Nodes, r \in Rules : view[n].incidents[r].notified \in -1..MaxTime
      /\ \A n \in Nodes : \A inc \in tick[n].todo : inc.notified \in -1..MaxTime
  <2>1. \A n \in Nodes : view[n].incidents \in [Rules -> Incidents]
    BY <1>1 DEF Views
  <2> QED
    BY <1>1, <2>1 DEF Incidents, Ticks
<1>6. \A i \in -1..MaxTime : i <= clock => i <= clock'
  BY <1>1, <1>2
<1>7. \A r \in Rules : incidents'[r].notified <= clock'
  BY <1>2, <1>5, <1>6 DEF NotifiedInv
<1>8. \A n \in Nodes, r \in Rules : view'[n].incidents[r].notified <= clock'
  <2>1. \A r \in Rules : EmptyView.incidents[r].notified <= clock'
    BY <1>1, <1>2 DEF EmptyView, Never
  <2>2. \A n \in Nodes, r \in Rules : view[n].incidents[r].notified <= clock'
    BY <1>5, <1>6 DEF NotifiedInv
  <2> QED
    BY <1>4, <1>7, <2>1, <2>2 DEF ViewsFollow
<1>9. \A n \in Nodes : \A inc \in tick'[n].todo : inc.notified <= clock'
  BY <1>3, <1>5, <1>6 DEF NotifiedInv
<1> QED
  BY <1>7, <1>8, <1>9 DEF NotifiedInv

-----------------------------------------------------------------------------
(* The incidents that a tick lists are as it read them                     *)

\* Where a tick is, its list, and the incident that it alerts about.
PlaceOf(t) ==
    /\ t.pc \notin {"resolve", "supersede", "alert", "send", "complete"} => t.todo = {}
    /\ \A x, y \in t.todo : x.rule = y.rule => x = y
    /\ t.pc \in {"alert", "send", "complete"} => \A x \in t.todo : x.rule # t.rule
    /\ t.pc \in {"send", "complete"} => t.key.rule = t.rule

PlaceInv == \A n \in Nodes : PlaceOf(tick[n])

\* The leader that resolves them is the only one to notify of them.
ListInv ==
    \A n \in Nodes :
        Writer(n) => \A x \in tick[n].todo : x.notified = incidents[x.rule].notified

LEMMA PlaceReturn ==
    ASSUME TypeInv, NEW n \in Nodes, Return(n)
    PROVE  PlaceOf(tick'[n])
BY DEF TypeInv, TypeOK, Return, NoTick, PlaceOf

LEMMA LoopPlace ==
    ASSUME TypeInv, PlaceInv, NEW n \in Nodes, Loop(n)
    PROVE  PlaceInv'
<1>1. tick[n] \in Ticks /\ tick \in [Nodes -> Ticks] /\ PlaceOf(tick[n])
  BY DEF TypeInv, TypeOK, PlaceInv
<1>2. SUFFICES ASSUME ~Return(n)
               PROVE  PlaceOf(tick'[n])
  BY LoopApplies, PlaceReturn DEF PlaceInv
<1>3. CASE Evaluate(n)
  <2>1. PICK next, announce :
          tick' = [tick EXCEPT ![n].pc = "applyState", ![n].term = term,
                      ![n].next = next, ![n].announce = announce]
    BY <1>3 DEF Evaluate
  <2>2. tick'[n].pc = "applyState" /\ tick'[n].todo = tick[n].todo
    BY <1>1, <2>1 DEF Ticks
  <2>3. tick[n].todo = {}
    BY <1>1, <1>3 DEF Evaluate, At, PlaceOf
  <2> QED
    BY <2>2, <2>3 DEF PlaceOf
<1>4. CASE ApplyNodeState(n) \/ RecordStateChangeEvent(n)
  <2>1. /\ \E step \in {"applyEvent", "reconcile"} : Goto(n, step)
        /\ tick[n].pc \in {"applyState", "applyEvent"}
    BY <1>2, <1>4 DEF ApplyNodeState, RecordStateChangeEvent, At
  <2>2. tick'[n].pc \in {"applyEvent", "reconcile"} /\ tick'[n].todo = tick[n].todo
    BY <1>1, <2>1 DEF Goto, Ticks
  <2> QED
    BY <1>1, <2>1, <2>2 DEF PlaceOf
<1>5. CASE ReconcileIncidents(n)
  <2>1. PICK rules \in SUBSET Rules, step \in {"resolve", "supersede"} :
          tick' = [tick EXCEPT ![n].pc = step, ![n].todo = ActiveIncidents(n, rules)]
    BY <1>2, <1>5 DEF ReconcileIncidents
  <2>2. PICK todo : todo = ActiveIncidents(n, rules)
    OBVIOUS
  <2>3. tick'[n].pc = step /\ tick'[n].todo = todo
    BY <1>1, <2>1, <2>2 DEF Ticks
  <2>4. \A x, y \in todo : x.rule = y.rule => x = y
    BY <2>2 DEF ActiveIncidents
  <2> QED
    BY <2>3, <2>4 DEF PlaceOf
<1>6. CASE ResolveIncident(n)
  <2>1. PICK inc \in tick[n].todo :
          tick' = [tick EXCEPT ![n].pc = "alert", ![n].todo = @ \ {inc},
                               ![n].action = "resolved", ![n].rule = inc.rule,
                               ![n].channels = Channels]
    BY <1>2, <1>6 DEF ResolveIncident
  <2>2. /\ tick'[n].pc = "alert" /\ tick'[n].rule = inc.rule
        /\ tick'[n].todo = tick[n].todo \ {inc}
    BY <1>1, <2>1 DEF Ticks
  <2> QED
    BY <1>1, <2>2 DEF PlaceOf
<1>7. CASE SupersedeIncident(n)
  <2>1. CASE \E inc : tick' = [tick EXCEPT ![n].todo = @ \ {inc}]
    <3>1. PICK inc : tick' = [tick EXCEPT ![n].todo = @ \ {inc}]
      BY <2>1
    <3>2. tick'[n].pc = "supersede" /\ tick'[n].todo = tick[n].todo \ {inc}
      BY <1>1, <1>7, <3>1 DEF SupersedeIncident, At, Ticks
    <3> QED
      BY <1>1, <3>2 DEF PlaceOf
  <2>2. CASE tick[n].todo = {} /\ Goto(n, "check")
    <3>1. tick'[n].pc = "check" /\ tick'[n].todo = {}
      BY <1>1, <2>2 DEF Goto, Ticks
    <3> QED
      BY <3>1 DEF PlaceOf
  <2> QED
    BY <1>2, <1>7, <2>1, <2>2 DEF SupersedeIncident
<1>8. CASE CheckIncident(n) \/ OpenIncident(n)
  <2>1. tick[n].todo = {}
    BY <1>1, <1>8 DEF CheckIncident, OpenIncident, At, PlaceOf
  <2>2. CASE Goto(n, "open")
    <3>1. tick'[n].pc = "open" /\ tick'[n].todo = {}
      BY <1>1, <2>1, <2>2 DEF Goto, Ticks
    <3> QED
      BY <3>1 DEF PlaceOf
  <2>3. CASE \E action, r : BeginAlert(n, action, r)
    <3>1. tick'[n].pc = "alert" /\ tick'[n].todo = {}
      BY <1>1, <2>1, <2>3 DEF BeginAlert, Ticks
    <3> QED
      BY <3>1 DEF PlaceOf
  <2> QED
    BY <1>2, <1>8, <2>2, <2>3 DEF CheckIncident, OpenIncident
<1>9. CASE ClaimDelivery(n)
  <2>1. PICK c \in tick[n].channels :
          \/ tick' = [tick EXCEPT ![n].channels = @ \ {c}]
          \/ tick' = [tick EXCEPT ![n].channels = @ \ {c},
                                  ![n].pc = "send", ![n].key = DeliveryKey(n, c)]
    BY <1>9 DEF ClaimDelivery
  <2>2. tick[n].pc = "alert"
    BY <1>9 DEF ClaimDelivery, At
  <2> DEFINE k == DeliveryKey(n, c)
  <2>3. k.rule = tick[n].rule
    BY DEF DeliveryKey
  <2> HIDE DEF k
  <2>4. /\ tick'[n].pc = "alert" \/ (tick'[n].pc = "send" /\ tick'[n].key = k)
        /\ tick'[n].todo = tick[n].todo /\ tick'[n].rule = tick[n].rule
    <3>1. \/ tick' = [tick EXCEPT ![n].channels = @ \ {c}]
          \/ tick' = [tick EXCEPT ![n].channels = @ \ {c}, ![n].pc = "send", ![n].key = k]
      BY <2>1 DEF k
    <3> QED
      BY <1>1, <2>2, <3>1 DEF Ticks
  <2> QED
    BY <1>1, <2>2, <2>3, <2>4 DEF PlaceOf
<1>10. CASE Send(n) \/ CompleteDelivery(n)
  <2>1. PICK step \in {"alert", "complete"}, key \in {tick[n].key, NoKey},
                outcome \in {"sent", "failed", "none"} :
          /\ step = "complete" => key = tick[n].key
          /\ tick' = [tick EXCEPT ![n].pc = step, ![n].key = key, ![n].outcome = outcome]
    <3>1. CASE Send(n)
      <4>1. PICK result \in {"sent", "failed"} :
                tick' = [tick EXCEPT ![n].pc = "complete", ![n].outcome = result]
        BY <3>1 DEF Send
      <4>2. tick' = [tick EXCEPT ![n].pc = "complete", ![n].key = tick[n].key,
                                 ![n].outcome = result]
        BY <1>1, <4>1 DEF Ticks
      <4> QED
        BY <4>2
    <3>2. CASE CompleteDelivery(n)
      BY <3>2 DEF CompleteDelivery
    <3> QED
      BY <1>10, <3>1, <3>2
  <2>2. tick[n].pc \in {"send", "complete"}
    BY <1>10 DEF Send, CompleteDelivery, At
  <2>3. /\ tick'[n].pc = step /\ tick'[n].key = key
        /\ tick'[n].todo = tick[n].todo /\ tick'[n].rule = tick[n].rule
    BY <1>1, <2>1 DEF Ticks
  <2> QED
    BY <1>1, <2>1, <2>2, <2>3 DEF PlaceOf
<1>11. CASE FinishAlert(n)
  <2>1. tick' = [tick EXCEPT ![n].pc = "resolve", ![n].action = "none", ![n].rule = None]
    BY <1>2, <1>11 DEF FinishAlert
  <2>2. tick'[n].pc = "resolve" /\ tick'[n].todo = tick[n].todo
    BY <1>1, <2>1 DEF Ticks
  <2> QED
    BY <1>1, <2>2 DEF PlaceOf
<1> QED
  BY <1>3, <1>4, <1>5, <1>6, <1>7, <1>8, <1>9, <1>10, <1>11 DEF Loop

\* What a step of a writer leaves of the list is as it is in the store: one
\* incident goes from the list when it is written, and the incident whose
\* notification is completed has gone before.
LEMMA ListKept ==
    ASSUME TypeInv, PlaceInv, ListInv, NEW n \in Nodes, Loop(n), Writer(n), KnowsOf(n),
           ~Return(n)
    PROVE  \A x \in tick'[n].todo : x.notified = incidents'[x.rule].notified
<1>1. /\ tick[n] \in Ticks /\ tick \in [Nodes -> Ticks] /\ PlaceOf(tick[n])
      /\ incidents \in [Rules -> Incidents]
      /\ \A x \in tick[n].todo : x.rule \in Rules /\ x.notified = incidents[x.rule].notified
  BY DEF TypeInv, TypeOK, PlaceInv, ListInv, Ticks
<1>2. CASE ResolveIncident(n) \/ SupersedeIncident(n)
  <2>1. CASE NoApply
    <3>1. incidents' = incidents
      BY <2>1 DEF NoApply, storeVars
    <3>2. tick'[n].todo \subseteq tick[n].todo
      BY <1>2, LoopTodo DEF ResolveIncident, SupersedeIncident, At
    <3> QED
      BY <1>1, <3>1, <3>2
  <2>2. CASE ~NoApply
    <3>1. PICK inc \in tick[n].todo :
            /\ PutIncident(inc.rule, "resolved", inc.notified)
            /\ \/ tick' = [tick EXCEPT ![n].todo = @ \ {inc}]
               \/ tick' = [tick EXCEPT ![n].pc = "alert", ![n].todo = @ \ {inc},
                                       ![n].action = "resolved", ![n].rule = inc.rule,
                                       ![n].channels = Channels]
      BY <1>2, <2>2 DEF ResolveIncident, SupersedeIncident
    <3>2. tick'[n].todo = tick[n].todo \ {inc}
      BY <1>1, <3>1 DEF Ticks
    <3>3. \A x \in tick[n].todo \ {inc} : incidents'[x.rule] = incidents[x.rule]
      BY <1>1, <3>1 DEF PlaceOf, PutIncident
    <3> QED
      BY <1>1, <3>2, <3>3
  <2> QED
    BY <2>1, <2>2
<1>3. CASE ~ResolveIncident(n) /\ ~SupersedeIncident(n)
  <2>1. CASE At(n, "reconcile") /\ NoApply
             /\ \E rules \in SUBSET Rules : tick'[n].todo = ActiveIncidents(n, rules)
    <3>1. incidents' = incidents /\ view[n].incidents = incidents
      BY <2>1 DEF NoApply, storeVars, KnowsOf
    <3> QED
      BY <2>1, <3>1 DEF ActiveIncidents
  <2>2. CASE tick'[n].todo \subseteq tick[n].todo
    <3>1. CASE UNCHANGED incidents
      BY <1>1, <2>2, <3>1
    <3>2. CASE OpenIncident(n)
      BY <1>1, <2>2, <3>2 DEF OpenIncident, At, PlaceOf
    <3>3. CASE CompleteDelivery(n)
      <4>1. incidents' = incidents \/ incidents' = [incidents EXCEPT ![tick[n].key.rule].notified = clock]
        BY <3>3 DEF CompleteDelivery, PutCompletion, Fails, storeVars
      <4>2. \A x \in tick[n].todo : x.rule # tick[n].key.rule
        BY <1>1, <3>3 DEF CompleteDelivery, At, PlaceOf
      <4>3. \A x \in tick[n].todo : incidents'[x.rule] = incidents[x.rule]
        BY <1>1, <4>1, <4>2
      <4> QED
        BY <1>1, <2>2, <4>3
    <3> QED
      BY <1>3, <3>1, <3>2, <3>3
         DEF Loop, Evaluate, ApplyNodeState, RecordStateChangeEvent, ReconcileIncidents,
             CheckIncident, ClaimDelivery, Send, FinishAlert, PutClaim, Fails,
             NoApply, storeVars
  <2> QED
    BY <2>1, <2>2, LoopTodo
<1> QED
  BY <1>2, <1>3

LEMMA LoopList ==
    ASSUME TypeInv, PlaceInv, WriterInv, ListInv, NEW n \in Nodes, Loop(n)
    PROVE  ListInv'
<1> SUFFICES ASSUME NEW m \in Nodes, Writer(m)'
             PROVE  \A x \in tick'[m].todo : x.notified = incidents'[x.rule].notified
  BY DEF ListInv
<1>1. CASE m # n
  <2>1. /\ Succeeds(n) \/ FailsCommitted(n) \/ Fails(n) \/ NoApply
        /\ tick'[m] = tick[m]
    BY <1>1, LoopApplies
  <2>2. raftLeader = m /\ term' = term
    BY <2>1, ApplyOutcome DEF Writer
  <2>3. UNCHANGED incidents
    BY <1>1, <2>1, <2>2, ApplyOutcome DEF Accepts
  <2> QED
    BY <2>1, <2>2, <2>3 DEF ListInv, Writer
<1>2. CASE m = n /\ Writer(n)
  <2>1. ~Return(n)
    BY <1>2, NotWriting
  <2>2. KnowsOf(n)
    BY <1>2 DEF WriterInv
  <2> QED
    BY <1>2, <2>1, <2>2, ListKept
<1>3. CASE m = n /\ ~Writer(n)
  <2>1. Succeeds(n) \/ FailsCommitted(n) \/ Fails(n) \/ NoApply
    BY LoopApplies
  <2>2. raftLeader = n /\ term' = term
    BY <1>3, <2>1, ApplyOutcome DEF Writer
  <2>3. PlaceInv'
    BY LoopPlace
  <2>4. tick'[n].pc \in {"applyEvent", "reconcile"}
    <3>1. ~Return(n)
      BY <1>3, NotWriting
    <3>2. tick \in [Nodes -> Ticks] /\ tick[n] \in Ticks
      BY DEF TypeInv, TypeOK
    <3>3. ~Evaluate(n)
      <4> SUFFICES ASSUME Evaluate(n)
                   PROVE  FALSE
        OBVIOUS
      <4>1. PICK next, announce :
              tick' = [tick EXCEPT ![n].pc = "applyState", ![n].term = term,
                          ![n].next = next, ![n].announce = announce]
        BY DEF Evaluate
      <4>2. tick'[n].pc = "applyState"
        BY <3>2, <4>1 DEF Ticks
      <4> QED
        BY <1>3, <4>2 DEF Writer
    <3>4. ApplyNodeState(n)
      <4>1. tick'[n].term = tick[n].term
        BY <3>1, <3>3, KeepsTerm
      <4>2. tick[n].pc \in {"idle", "applyState"}
        BY <1>3, <2>2, <4>1 DEF Writer
      <4> QED
        BY <3>3, <4>2 DEF Loop, At, RecordStateChangeEvent, ReconcileIncidents,
                          ResolveIncident, SupersedeIncident, CheckIncident, OpenIncident,
                          ClaimDelivery, Send, CompleteDelivery, FinishAlert
    <3> QED
      BY <3>1, <3>2, <3>4 DEF ApplyNodeState, Goto, Ticks
  <2> QED
    BY <1>3, <2>3, <2>4 DEF PlaceInv, PlaceOf
<1> QED
  BY <1>1, <1>2, <1>3

LEMMA SurroundingsList ==
    ASSUME TypeInv, TermInv, PlaceInv, ListInv,
           \/ \E n \in Nodes : CatchUp(n) \/ Crash(n) \/ ElectLeader(n) \/ HearLeadership(n)
           \/ Advance
           \/ UNCHANGED vars
    PROVE  PlaceInv' /\ ListInv'
<1>1. tick \in [Nodes -> Ticks] /\ term \in Nat
  BY DEF TypeInv, TypeOK, LeadershipTypeOK
<1>2. UNCHANGED incidents
  BY DEF CatchUp, Crash, ElectLeader, HearLeadership, Advance, vars, storeVars
<1>3. \A m \in Nodes : tick'[m] \in {tick[m], NoTick}
  BY <1>1 DEF CatchUp, Crash, ElectLeader, HearLeadership, Advance, vars, Return
<1>4. \A m \in Nodes : Writer(m)' => tick'[m] # NoTick
  BY DEF Writer, NoTick
<1>5. PlaceInv'
  BY <1>3 DEF PlaceInv, PlaceOf, NoTick
<1>6. CASE \E n \in Nodes : ElectLeader(n)
  <2>1. term' = term + 1 /\ UNCHANGED tick
    BY <1>6 DEF ElectLeader, Elect
  <2>2. \A m \in Nodes : tick[m].term \in Nat /\ tick[m].term <= term
    BY <1>1 DEF TermInv, Ticks
  <2>3. \A m \in Nodes : tick'[m].term # term'
    BY <1>1, <2>1, <2>2
  <2> QED
    BY <1>5, <2>3 DEF ListInv, Writer
<1>7. CASE ~ \E n \in Nodes : ElectLeader(n)
  <2>1. term' = term /\ raftLeader' \in {raftLeader, None}
    BY <1>7 DEF CatchUp, Crash, HearLeadership, Advance, vars, leadershipVars, Restart,
                WatchLeadership
  <2>2. \A m \in Nodes : Writer(m)' => Writer(m) /\ tick'[m] = tick[m]
    BY <1>3, <1>4, <2>1 DEF Writer
  <2> QED
    BY <1>2, <1>5, <2>2 DEF ListInv
<1> QED
  BY <1>6, <1>7

-----------------------------------------------------------------------------
(* Incidents follow the recorded state                                     *)

\* What a step of the loop that is not straddled may do to an incident, seen
\* from the recorded state.
LEMMA LoopFollows ==
    ASSUME TypeInv, WriterInv, NotifiedInv, ListInv, NEW n \in Nodes, Loop(n), ~straddled',
           NEW r \in Rules
    PROVE  /\ ~straddled
           /\ ~Active(r) /\ Active(r)'
                => /\ nodeState.rule = r /\ nodeState.bad >= 2
                   /\ \A q \in Rules \ {r} : ~Active(q)'
           /\ Active(r) /\ ~Active(r)'
                => \/ nodeState.rule = Healthy /\ nodeState.good >= 2
                   \/ nodeState.rule \in Rules \ {r}
           /\ Active(r) => incidents[r].notified <= incidents'[r].notified
<1>1. /\ incidents \in [Rules -> Incidents] /\ clock \in 0..MaxTime
      /\ \A inc \in tick[n].todo : inc.rule \in Rules
      /\ tick[n].pc \in {"open", "supersede"} => tick[n].next.rule \in Rules
  BY DEF TypeInv, TypeOK, Ticks, TickShape, ShapeOf
<1>2. \A q \in Rules : incidents[q].notified \in Int
  BY <1>1 DEF Incidents
<1>3. ~straddled
  BY LoopApplies, ApplyOutcome
<1>4. CASE UNCHANGED incidents
  BY <1>2, <1>3, <1>4 DEF Active
<1>5. CASE ~UNCHANGED incidents
  <2>1. Accepts(n) /\ tick[n].term = term
    BY <1>5, LoopApplies, ApplyOutcome
  <2>2. CASE At(n, "open") /\ PutIncident(tick[n].next.rule, "active", Never)
    <3>1. KnowsOf(n) /\ PlanOf(n)
      BY <2>1, <2>2 DEF WriterInv, Writer, Accepts, At
    <3>2. /\ ~Active(tick[n].next.rule) /\ nodeState = tick[n].next /\ nodeState.bad >= 2
          /\ \A q \in Rules \ {tick[n].next.rule} : ~Active(q)
      BY <2>2, <3>1 DEF KnowsOf, PlanOf, At
    <3>3. \A q \in Rules \ {tick[n].next.rule} : ~Active(q)'
      BY <1>1, <2>2, <3>2, PutIncidentActive DEF At
    <3> QED
      BY <1>3, <3>2, <3>3
  <2>3. CASE /\ At(n, "resolve") \/ At(n, "supersede")
             /\ \E inc \in tick[n].todo : PutIncident(inc.rule, "resolved", inc.notified)
    <3>1. KnowsOf(n) /\ PlanOf(n)
      BY <2>1, <2>3 DEF WriterInv, Writer, Accepts, At
    <3>2. PICK inc \in tick[n].todo : PutIncident(inc.rule, "resolved", inc.notified)
      BY <2>3
    <3>3. \/ nodeState.rule = Healthy /\ nodeState.good >= 2
          \/ nodeState.rule \in Rules \ {inc.rule}
      BY <1>1, <2>3, <3>1 DEF KnowsOf, PlanOf, At
    <3>4. /\ \A q \in Rules \ {inc.rule} : incidents'[q] = incidents[q]
          /\ ~Active(inc.rule)' /\ incidents'[inc.rule].notified = inc.notified
      BY <1>1, <3>2 DEF PutIncident, Active
    <3>5. inc.notified = incidents[inc.rule].notified
      BY <2>1, <2>3 DEF ListInv, Writer, Accepts, At
    <3> QED
      BY <1>1, <1>2, <1>3, <3>3, <3>4, <3>5 DEF Active
  <2>4. CASE \E q \in Rules : incidents' = [incidents EXCEPT ![q].notified = clock]
    <3>1. PICK q \in Rules : incidents' = [incidents EXCEPT ![q].notified = clock]
      BY <2>4
    <3>2. /\ incidents'[r].status = incidents[r].status
          /\ incidents'[r].notified \in {incidents[r].notified, clock}
      BY <1>1, <3>1 DEF Incidents
    <3>3. incidents[r].notified <= clock
      BY DEF NotifiedInv
    <3> QED
      BY <1>2, <1>3, <3>2, <3>3 DEF Active
  <2> QED
    BY <1>5, <2>2, <2>3, <2>4, LoopIncidents
<1> QED
  BY <1>4, <1>5

\* Nothing but the loop touches the incidents.
LEMMA NextFollows ==
    ASSUME TypeInv, WriterInv, NotifiedInv, ListInv, [Next]_vars, ~straddled', NEW r \in Rules
    PROVE  /\ ~straddled
           /\ ~Active(r) /\ Active(r)'
                => /\ nodeState.rule = r /\ nodeState.bad >= 2
                   /\ \A q \in Rules \ {r} : ~Active(q)'
           /\ Active(r) /\ ~Active(r)'
                => \/ nodeState.rule = Healthy /\ nodeState.good >= 2
                   \/ nodeState.rule \in Rules \ {r}
           /\ Active(r) => incidents[r].notified <= incidents'[r].notified
<1>1. CASE \E n \in Nodes : Loop(n)
  BY <1>1, LoopFollows
<1>2. CASE ~ \E n \in Nodes : Loop(n)
  <2>1. UNCHANGED <<incidents, straddled>>
    BY <1>2 DEF Next, CatchUp, Crash, ElectLeader, HearLeadership, Advance, vars, storeVars
  <2>2. incidents[r].notified \in Int
    BY DEF TypeInv, TypeOK, Incidents
  <2> QED
    BY <2>1, <2>2 DEF Active
<1> QED
  BY <1>1, <1>2

FollowInv == TermInv /\ WriterInv /\ NotifiedInv /\ PlaceInv /\ ListInv

LEMMA FollowInvariant == Spec => [](TypeInv /\ FollowInv)
<1>1. Init => TypeInv /\ FollowInv
  <2> SUFFICES ASSUME Init
               PROVE  TypeInv /\ FollowInv
    OBVIOUS
  <2>1. TypeInv
    BY TypeInit
  <2>2. TermInv /\ WriterInv
    BY DEF Init, LeadershipInit, TermInv, WriterInv, Writer, NoTick
  <2>3. NotifiedInv
    BY DEF Init, NotifiedInv, NoTick, Never
  <2>4. PlaceInv /\ ListInv
    BY DEF Init, PlaceInv, PlaceOf, ListInv, NoTick
  <2> QED
    BY <2>1, <2>2, <2>3, <2>4 DEF FollowInv
<1>2. TypeInv /\ FollowInv /\ [Next]_vars => (TypeInv /\ FollowInv)'
  <2> SUFFICES ASSUME TypeInv, FollowInv, [Next]_vars
               PROVE  (TypeInv /\ FollowInv)'
    OBVIOUS
  <2>1. TypeInv'
    BY TypeStep
  <2>2. CASE \E n \in Nodes : Loop(n)
    BY <2>1, <2>2, LoopTerm, LoopKnows, LoopNotified, LoopPlace, LoopList DEF FollowInv
  <2>3. CASE \/ \E n \in Nodes :
                    CatchUp(n) \/ Crash(n) \/ ElectLeader(n) \/ HearLeadership(n)
             \/ Advance
             \/ UNCHANGED vars
    BY <2>1, <2>3, SurroundingsKnow, SurroundingsNotified, SurroundingsList DEF FollowInv
  <2> QED
    BY <2>2, <2>3 DEF Next
<1> QED
  BY <1>1, <1>2, PTL DEF Spec

\* No two incidents of the node are active together, however many leaders come
\* and go and however far their replicas lag, unless a tick of the loop wrote in
\* a later term than the one in which it evaluated the node.
THEOREM OneIncidentAtATime == Spec => []OneActiveIncident
<1>1. Init => OneActiveIncident
  BY DEF Init, OneActiveIncident, Active
<1>2. TypeInv /\ FollowInv /\ OneActiveIncident /\ [Next]_vars => OneActiveIncident'
  <2> SUFFICES ASSUME TypeInv, FollowInv, OneActiveIncident, [Next]_vars, ~straddled',
                      NEW q \in Rules, NEW r \in Rules, Active(q)', Active(r)', q # r
               PROVE  FALSE
    BY DEF OneActiveIncident
  <2>1. Active(q) /\ Active(r) /\ ~straddled
    BY NextFollows DEF FollowInv
  <2> QED
    BY <2>1 DEF OneActiveIncident
<1> QED
  BY <1>1, <1>2, FollowInvariant, PTL DEF Spec

\* Under the same condition reconcileIncidents opens an incident only while the
\* stored state shows its rule twice in a row, and resolves one only while it
\* shows two healthy evaluations or another rule.
THEOREM IncidentsFollowTheState == Spec => IncidentsFollowState
<1>1. TypeInv /\ FollowInv /\ [Next]_vars =>
          \/ straddled'
          \/ \A r \in Rules :
               /\ ~Active(r) /\ Active(r)'
                    => nodeState.rule = r /\ nodeState.bad >= 2
               /\ Active(r) /\ ~Active(r)'
                    => \/ nodeState.rule = Healthy /\ nodeState.good >= 2
                       \/ nodeState.rule \in Rules \ {r}
  BY NextFollows DEF FollowInv
<1> QED
  BY <1>1, FollowInvariant, PTL DEF Spec, IncidentsFollowState

\* And the LastNotifiedAt of an active incident is neither set back nor cleared, by
\* a reopening, a late completion, or the row that resolving and superseding read
\* and write back after other Applies.
THEOREM NotificationsAreKept == Spec => NotifiedNeverSetBack
<1>1. TypeInv /\ FollowInv /\ [Next]_vars =>
          \/ straddled'
          \/ \A r \in Rules :
               Active(r) => incidents[r].notified <= incidents'[r].notified
  BY NextFollows DEF FollowInv
<1> QED
  BY <1>1, FollowInvariant, PTL DEF Spec, NotifiedNeverSetBack

=============================================================================
