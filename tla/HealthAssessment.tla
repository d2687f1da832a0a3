-------------------------- MODULE HealthAssessment --------------------------
(***************************************************************************)
(* assessNode and what feeds it, for one target: its heartbeats, the       *)
(* probes of its observers, and the choice of the observers, which depends *)
(* on the rows that earlier evaluations of the observers left behind.      *)
(*                                                                         *)
(* Collector, probers and engine each run once per loop interval, in any   *)
(* order: a round.  Observations are as old as the rounds since then; what *)
(* is Window rounds old may or may not have passed the 45 seconds.  Rows   *)
(* reach the probers at once.  IncidentAlerts takes the verdicts up.       *)
(***************************************************************************)
EXTENDS Naturals, FiniteSets

CONSTANTS
    Observers,    \* the other active members
    PerTarget,    \* probe_observers_per_target, 0 for all
    Rank,         \* order of the digests of target and observer
    Window,       \* 45 s in loop intervals
    SymptomSets,  \* bound: what heartbeats report, see Symptoms
    Settle,       \* bound: rounds after which a verdict is to be right
    Detect        \* bound: rounds after which an outage is to be found

Symptoms == {"critical", "service", "resource"}

ASSUME ObserversAssumption ==
    /\ IsFiniteSet(Observers)
    /\ Observers \cap {"collector", "engine"} = {}
ASSUME PerTargetAssumption == PerTarget \in Nat
ASSUME RankAssumption ==
    /\ Rank \in [Observers -> Nat]
    /\ \A o, p \in Observers : Rank[o] = Rank[p] => o = p
ASSUME WindowAssumption == Window \in Nat \ {0}
ASSUME SymptomsAssumption == SymptomSets \subseteq SUBSET Symptoms
ASSUME RoundsAssumption == Settle \in Nat /\ Detect \in Nat

VARIABLES
    heartbeat,  \* the latest heartbeat of the target that the leader has
    reports,    \* by observer: age of its latest probe, of the latest good one
    stale,      \* observers whose node_states row is not ReplicatedFresh
    rule,       \* the rule key in the node_states row of the target
    done,       \* who has run in this round
    calm,       \* history: rounds in a row in which all went well
    dark,       \* history: rounds in a row in which the target was down
    spell,      \* history: calm rounds before the latest round that was not
    spoilt      \* history: what this round cannot be counted as

vars == <<heartbeat, reports, stale, rule, done, calm, dark, spell, spoilt>>

Old == Window + 1       \* certainly more than 45 seconds
Ages == 0..Old

\* The verdicts, each with its status.
StatusOf ==
    [telemetry |-> "unknown", availability |-> "critical",
     agentStale |-> "degraded", resourceCritical |-> "critical",
     service |-> "degraded", resource |-> "degraded", healthyLocal |-> "healthy",
     visibility |-> "degraded", healthy |-> "healthy"]
RuleKeys == DOMAIN StatusOf

TypeOK ==
    /\ heartbeat \in [seen : BOOLEAN, age : Ages, symptoms : SUBSET Symptoms]
    /\ reports \in [Observers -> [any : Ages, good : Ages]]
    /\ stale \subseteq Observers
    /\ rule \in RuleKeys
    /\ done \subseteq Observers \cup {"collector", "engine"}
    /\ calm \in 0..Settle
    /\ spell \in 0..Settle
    /\ dark \in 0..Detect
    /\ spoilt \subseteq {"calm", "dark", "mild"}

Init ==
    /\ heartbeat = [seen |-> FALSE, age |-> Old, symptoms |-> {}]
    /\ reports = [o \in Observers |-> [any |-> Old, good |-> Old]]
    /\ stale = {}
    /\ rule = "telemetry"
    /\ done = {}
    /\ calm = 0 /\ dark = 0 /\ spell = 0
    /\ spoilt = {}

-----------------------------------------------------------------------------
(* Who observes the target                                                 *)

FirstOf(candidates, limit) ==
    {o \in candidates :
        Cardinality({p \in candidates : Rank[p] < Rank[o]}) < limit}

\* BuildObserverAssignments.  Observers without a row count as fresh.
Assigned == IF PerTarget = 0 THEN Observers
                             ELSE FirstOf(Observers \ stale, PerTarget)

-----------------------------------------------------------------------------
(* The verdict                                                             *)

\* Mutant: two reports are asked for where one observer is all there is.
RequiredReportsAlwaysTwo(expected) == IF expected = 0 THEN 0 ELSE 2

\* requiredNegativeEvidenceReports
RequiredReports(expected) ==
    CASE expected = 0 -> 0
      [] expected = 1 -> 1
      [] OTHER -> 2

\* Mutant: observers that do not get through have a rule of their own.
VerdictUnreachable(late, seen, symptoms, expected, all, successful) ==
    LET required == RequiredReports(Cardinality(expected))
    IN  IF ~seen THEN "telemetry"
        ELSE IF late /\ successful # {} THEN "agentStale"
        ELSE IF late /\ required > 0 /\ Cardinality(all) >= required THEN "availability"
        ELSE IF late THEN "agentStale"
        ELSE IF "critical" \in symptoms THEN "resourceCritical"
        ELSE IF "service" \in symptoms THEN "service"
        ELSE IF "resource" \in symptoms THEN "resource"
        ELSE IF Observers = {} THEN "healthyLocal"
        ELSE IF all = {} THEN "visibility"
        ELSE IF successful = {} THEN "unreachable"
        ELSE "healthy"

\* assessNode: late tells whether the heartbeat is too old; all and successful
\* are the observers that reported in time, and those that got through.
Verdict(late, seen, symptoms, expected, all, successful) ==
    LET required == RequiredReports(Cardinality(expected))
    IN  IF ~seen THEN "telemetry"
        ELSE IF late /\ successful # {} THEN "agentStale"
        ELSE IF late /\ required > 0 /\ Cardinality(all) >= required THEN "availability"
        ELSE IF late THEN "agentStale"
        ELSE IF "critical" \in symptoms THEN "resourceCritical"
        ELSE IF "service" \in symptoms THEN "service"
        ELSE IF "resource" \in symptoms THEN "resource"
        ELSE IF Observers = {} THEN "healthyLocal"
        ELSE IF successful = {} THEN "visibility"
        ELSE "healthy"

-----------------------------------------------------------------------------
(* One round                                                               *)

Spoils(what) == spoilt' = spoilt \cup what

\* Collector: the heartbeat of this interval arrives, or does not.
SubmitHeartbeat ==
    /\ "collector" \notin done
    /\ done' = done \cup {"collector"}
    /\ \/ \E s \in SymptomSets :
            /\ heartbeat' = [seen |-> TRUE, age |-> 0, symptoms |-> s]
            /\ Spoils(IF s = {} THEN {"dark"} ELSE {"dark", "calm", "mild"})
       \/ heartbeat' = heartbeat /\ Spoils({"calm"})
    /\ UNCHANGED <<reports, stale, rule, calm, dark, spell>>

\* probeOnce of observer o, as far as the target goes.
ProbeTarget(o) ==
    /\ o \notin done
    /\ done' = done \cup {o}
    /\ IF o \in Assigned
       THEN \/ reports' = [reports EXCEPT ![o] = [any |-> 0, good |-> 0]]
               /\ Spoils({"dark"})
            \/ reports' = [reports EXCEPT ![o].any = 0] /\ Spoils({"calm"})
            \/ reports' = reports /\ Spoils({"calm", "dark"})
       ELSE reports' = reports /\ Spoils({})
    /\ UNCHANGED <<heartbeat, stale, rule, calm, dark, spell>>

\* RecentProbesForTarget and filterProbesForObservers.
Reported(ages, lapsed) ==
    {o \in Assigned : ages[o] < Window \/ (ages[o] = Window /\ o \notin lapsed)}

\* Mutant: heartbeats are given up two intervals too soon.
LateTooSoon(age, lapsed) == age > Window - 2 \/ (age = Window - 2 /\ lapsed)

Late(age, lapsed) == age > Window \/ (age = Window /\ lapsed)

\* The tick of the leader: assignments are made from the rows as they were,
\* then every member is evaluated; which observers turn out stale is open.
EvaluateNodes ==
    /\ "engine" \notin done
    /\ done' = done \cup {"engine"}
    /\ \E lapsedBeat \in BOOLEAN, lapsed \in SUBSET Observers :
         rule' = Verdict(Late(heartbeat.age, lapsedBeat), heartbeat.seen,
                         heartbeat.symptoms, Assigned,
                         Reported([o \in Observers |-> reports[o].any], lapsed),
                         Reported([o \in Observers |-> reports[o].good], lapsed))
    /\ stale' \in SUBSET Observers
    /\ Spoils(IF stale' = stale /\ stale # Observers
              THEN {} ELSE {"calm", "dark", "mild"})
    /\ UNCHANGED <<heartbeat, reports, calm, dark, spell>>

\* Nobody leads in this interval.
SkipEvaluation ==
    /\ "engine" \notin done
    /\ done' = done \cup {"engine"}
    /\ Spoils({"calm", "dark"})
    /\ UNCHANGED <<heartbeat, reports, stale, rule, calm, dark, spell>>

Older(age) == IF age < Old THEN age + 1 ELSE Old

Longer(rounds, bound) == IF rounds < bound THEN rounds + 1 ELSE bound

NextRound ==
    /\ done = Observers \cup {"collector", "engine"}
    /\ done' = {}
    /\ heartbeat' = [heartbeat EXCEPT !.age = Older(@)]
    /\ reports' = [o \in Observers |-> [any |-> Older(reports[o].any),
                                        good |-> Older(reports[o].good)]]
    /\ calm' = IF "calm" \in spoilt THEN 0 ELSE Longer(calm, Settle)
    /\ dark' = IF "dark" \in spoilt THEN 0 ELSE Longer(dark, Detect)
    /\ spell' = IF "mild" \in spoilt THEN 0
                ELSE IF "calm" \in spoilt THEN calm ELSE spell
    /\ spoilt' = {}
    /\ UNCHANGED <<stale, rule>>

Next ==
    \/ SubmitHeartbeat
    \/ \E o \in Observers : ProbeTarget(o)
    \/ EvaluateNodes
    \/ SkipEvaluation
    \/ NextRound

Spec == Init /\ [][Next]_vars

-----------------------------------------------------------------------------
(* Properties                                                              *)

\* After Settle rounds in which all goes well the target is healthy, whatever
\* went before, and it stays so in a round in which heartbeats or probes are
\* lost or fail, or nobody leads, if such rounds are Settle rounds apart.
GlitchIsTolerated ==
    \/ calm = Settle /\ "mild" \notin spoilt
    \/ spell = Settle /\ "calm" \notin spoilt
    => rule = "healthy"

\* A target that is down is found to be so after Detect rounds, if its
\* observers and the leader go on, and it has ever been heard of.
OutageIsDetected ==
    dark = Detect /\ "dark" \notin spoilt =>
        rule = (IF heartbeat.seen THEN "availability" ELSE "telemetry")

=============================================================================
