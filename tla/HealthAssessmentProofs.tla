----------------------- MODULE HealthAssessmentProofs -----------------------
(***************************************************************************)
(* Proofs about HealthAssessment: when the verdict on a target is right,   *)
(* for any number of observers, any choice among them and any symptoms.    *)
(*                                                                         *)
(* Both results need the loop interval to be short against the 45 seconds  *)
(* of the engine, Window intervals: a glitch is tolerated if two missed    *)
(* heartbeats still leave one in time, an outage is found if the answers   *)
(* of the latest round count and there is time to give the heartbeat up.   *)
(***************************************************************************)
EXTENDS HealthAssessment, FiniteSetTheorems, WellFoundedInduction, TLAPS

-----------------------------------------------------------------------------
(* Observers are never wanting                                             *)

\* A nonempty set of numbers has a least one.
LEMMA LeastNumber ==
    ASSUME NEW T, T \subseteq Nat, T # {}
    PROVE  \E n \in T : \A m \in T : ~(m < n)
<1> DEFINE Less == OpToRel(<, Nat)
<1>1. IsWellFoundedOn(Less, Nat)
  BY NatLessThanWellFounded
<1>2. PICK n \in T : \A m \in T : <<m, n>> \notin Less
  <2> HIDE DEF Less
  <2> QED  BY <1>1, WFMin
<1>3. ASSUME NEW m \in T, m < n  PROVE FALSE
  <2>1. <<m, n>> \in Less
    BY <1>3 DEF OpToRel
  <2> QED  BY <2>1, <1>2
<1> QED  BY <1>2, <1>3

\* Of some observers that are finitely many, one has the least digest: nobody
\* comes before it.
LEMMA FirstHasNobodyBefore ==
    ASSUME NEW candidates \in SUBSET Observers, candidates # {}
    PROVE  \E o \in candidates : {p \in candidates : Rank[p] < Rank[o]} = {}
<1> DEFINE digests == {Rank[o] : o \in candidates}
<1>1. digests \subseteq Nat /\ digests # {}
  BY RankAssumption
<1>2. PICK n \in digests : \A m \in digests : ~(m < n)
  <2> HIDE DEF digests
  <2> QED  BY <1>1, LeastNumber
<1>3. PICK o \in candidates : n = Rank[o]
  OBVIOUS
<1>4. \A p \in candidates : ~(Rank[p] < Rank[o])
  BY <1>2, <1>3
<1> QED  BY <1>4

\* As long as some observer has a fresh row the target is observed.
LEMMA SomebodyObserves ==
    ASSUME stale \subseteq Observers, stale # Observers
    PROVE  Assigned # {}
<1>1. CASE PerTarget = 0
  BY <1>1 DEF Assigned
<1>2. CASE PerTarget # 0
  <2> DEFINE candidates == Observers \ stale
  <2>1. candidates \in SUBSET Observers /\ candidates # {}
    OBVIOUS
  <2>2. PICK o \in candidates : {p \in candidates : Rank[p] < Rank[o]} = {}
    <3> HIDE DEF candidates
    <3> QED  BY <2>1, FirstHasNobodyBefore
  <2>3. 0 < PerTarget
    BY <1>2, PerTargetAssumption
  <2>4. o \in FirstOf(candidates, PerTarget)
    BY <2>2, <2>3, FS_EmptySet DEF FirstOf
  <2> QED  BY <1>2, <2>4 DEF Assigned
<1> QED  BY <1>1, <1>2

\* The observers of a target are members, and finitely many.
LEMMA ObserversAreFew ==
    /\ Assigned \subseteq Observers
    /\ IsFiniteSet(Assigned)
<1>1. Assigned \subseteq Observers
  BY DEF Assigned, FirstOf
<1> QED  BY <1>1, ObserversAssumption, FS_Subset

\* Who observes depends on the rows alone.
LEMMA ObserversStay ==
    ASSUME stale' = stale
    PROVE  Assigned' = Assigned
  BY DEF Assigned, FirstOf

\* Observers of which all report are enough.
LEMMA AllAreEnough ==
    ASSUME NEW expected, IsFiniteSet(expected), expected # {}
    PROVE  LET required == RequiredReports(Cardinality(expected))
           IN  required > 0 /\ Cardinality(expected) >= required
<1>1. Cardinality(expected) \in Nat /\ Cardinality(expected) # 0
  BY FS_CardinalityType, FS_EmptySet
<1> DEFINE count == Cardinality(expected)
<1>2. count \in Nat /\ count # 0
  BY <1>1
<1> HIDE DEF count
<1>3. RequiredReports(count) > 0 /\ count >= RequiredReports(count)
  <2>1. CASE count = 1
    BY <2>1 DEF RequiredReports
  <2>2. CASE count # 1
    BY <2>2, <1>2 DEF RequiredReports
  <2> QED  BY <2>1, <2>2
<1> QED  BY <1>3 DEF count

-----------------------------------------------------------------------------
(* Types                                                                   *)

LEMMA VerdictsAreRules ==
    ASSUME NEW late, NEW seen, NEW symptoms, NEW expected, NEW all, NEW successful
    PROVE  Verdict(late, seen, symptoms, expected, all, successful) \in RuleKeys
<1> DEFINE key == Verdict(late, seen, symptoms, expected, all, successful)
<1>1. key \in {"telemetry", "availability", "agentStale", "resourceCritical", "service",
               "resource", "healthyLocal", "visibility", "healthy"}
  BY Zenon DEF Verdict
<1>2. RuleKeys = {"telemetry", "availability", "agentStale", "resourceCritical", "service",
                  "resource", "healthyLocal", "visibility", "healthy"}
  BY DEF RuleKeys, StatusOf
<1> QED  BY <1>1, <1>2

LEMMA OlderIsAge ==
    ASSUME NEW age \in Ages
    PROVE  /\ Older(age) \in Ages /\ Older(age) > 0
           /\ age < Older(age) \/ Older(age) = Old
           /\ Older(age) <= age + 1
  BY WindowAssumption DEF Older, Ages, Old

LEMMA LongerIsBounded ==
    ASSUME NEW bound \in Nat, NEW rounds \in 0..bound
    PROVE  /\ Longer(rounds, bound) \in 0..bound
           /\ Longer(rounds, bound) <= rounds + 1
  BY DEF Longer

LEMMA TypesHoldAtFirst == ASSUME Init  PROVE TypeOK
<1>1. Old \in Ages
  BY WindowAssumption DEF Ages, Old
<1>2. "telemetry" \in RuleKeys
  BY DEF RuleKeys, StatusOf
<1> QED  BY <1>1, <1>2, RoundsAssumption DEF Init, TypeOK

LEMMA TypesAreKept ==
    ASSUME TypeOK, [Next]_vars
    PROVE  TypeOK'
<1> USE DEF TypeOK
<1>1. 0 \in Ages
  BY WindowAssumption DEF Ages, Old
<1>2. CASE SubmitHeartbeat
  <2>1. heartbeat' \in [seen : BOOLEAN, age : Ages, symptoms : SUBSET Symptoms]
    <3>1. ASSUME NEW s \in SymptomSets, heartbeat' = [seen |-> TRUE, age |-> 0, symptoms |-> s]
          PROVE  heartbeat' \in [seen : BOOLEAN, age : Ages, symptoms : SUBSET Symptoms]
      <4>1. s \in SUBSET Symptoms
        BY SymptomsAssumption
      <4> QED  BY <1>1, <3>1, <4>1
    <3> QED  BY <1>2, <3>1 DEF SubmitHeartbeat
  <2>2. spoilt' \subseteq {"calm", "dark", "mild"}
    BY <1>2 DEF SubmitHeartbeat, Spoils
  <2> QED  BY <1>2, <2>1, <2>2 DEF SubmitHeartbeat
<1>3. ASSUME NEW o \in Observers, ProbeTarget(o)  PROVE TypeOK'
  <2>1. reports' \in [Observers -> [any : Ages, good : Ages]]
    BY <1>1, <1>3 DEF ProbeTarget
  <2>2. spoilt' \subseteq {"calm", "dark", "mild"}
    BY <1>3 DEF ProbeTarget, Spoils
  <2> QED  BY <1>3, <2>1, <2>2 DEF ProbeTarget
<1>4. CASE EvaluateNodes
  <2>1. rule' \in RuleKeys
    BY <1>4, VerdictsAreRules DEF EvaluateNodes
  <2>2. spoilt' \subseteq {"calm", "dark", "mild"}
    BY <1>4 DEF EvaluateNodes, Spoils
  <2> QED  BY <1>4, <2>1, <2>2 DEF EvaluateNodes
<1>5. CASE SkipEvaluation
  BY <1>5 DEF SkipEvaluation, Spoils
<1>6. CASE NextRound
  <2>1. heartbeat' \in [seen : BOOLEAN, age : Ages, symptoms : SUBSET Symptoms]
    BY <1>6, OlderIsAge DEF NextRound
  <2>2. reports' \in [Observers -> [any : Ages, good : Ages]]
    BY <1>6, OlderIsAge DEF NextRound
  <2>3. calm' \in 0..Settle /\ spell' \in 0..Settle /\ dark' \in 0..Detect
    BY <1>6, LongerIsBounded, RoundsAssumption DEF NextRound
  <2> QED  BY <1>6, <2>1, <2>2, <2>3 DEF NextRound
<1>7. CASE UNCHANGED vars
  BY <1>7 DEF vars
<1> QED  BY <1>2, <1>3, <1>4, <1>5, <1>6, <1>7 DEF Next

\* Every variable keeps its type; the verdict is always one of the rules that
\* a node_states row can carry.
THEOREM HealthTypes == Spec => []TypeOK
<1>1. Init => TypeOK
  BY TypesHoldAtFirst
<1>2. TypeOK /\ [Next]_vars => TypeOK'
  BY TypesAreKept
<1> QED  BY <1>1, <1>2, PTL DEF Spec

-----------------------------------------------------------------------------
(* A glitch is tolerated                                                   *)

\* The leader has heard well of the target not longer than k rounds ago.
Fresh(k) ==
    /\ heartbeat.seen /\ heartbeat.symptoms = {} /\ heartbeat.age <= k
    /\ \A o \in Assigned : reports[o].good <= k

\* What is so as long as this round goes well.
RoundGoesWell ==
    "calm" \notin spoilt =>
        /\ "mild" \notin spoilt
        /\ "collector" \in done =>
               heartbeat.seen /\ heartbeat.symptoms = {} /\ heartbeat.age = 0
        /\ \A o \in Assigned \cap done : reports[o].good = 0

\* One glitch makes what is known one round older.
KnownBefore ==
    "mild" \notin spoilt =>
        /\ calm > 0 => Fresh(1)
        /\ calm = 0 /\ spell > 0 => Fresh(2)

\* The rows follow one round behind.
RowFollows ==
    /\ calm > 0 /\ "calm" \notin spoilt /\ "engine" \in done => rule = "healthy"
    /\ calm > 1 /\ "mild" \notin spoilt => rule = "healthy"
    /\ spell > 1 /\ "calm" \notin spoilt => rule = "healthy"

GlitchInv == RoundGoesWell /\ KnownBefore /\ RowFollows

\* Who is heard well of is healthy.
LEMMA FreshIsHealthy ==
    ASSUME TypeOK, Window >= 3, Fresh(2), EvaluateNodes, "mild" \notin spoilt'
    PROVE  rule' = "healthy"
<1>1. stale \subseteq Observers /\ stale # Observers
  BY DEF EvaluateNodes, Spoils, TypeOK
<1>2. Assigned # {} /\ Assigned \subseteq Observers
  BY <1>1, SomebodyObserves, ObserversAreFew
<1>3. PICK lapsedBeat \in BOOLEAN, lapsed \in SUBSET Observers :
         rule' = Verdict(Late(heartbeat.age, lapsedBeat), heartbeat.seen,
                         heartbeat.symptoms, Assigned,
                         Reported([o \in Observers |-> reports[o].any], lapsed),
                         Reported([o \in Observers |-> reports[o].good], lapsed))
  BY DEF EvaluateNodes
<1>4. ~Late(heartbeat.age, lapsedBeat)
  BY WindowAssumption DEF Late, Fresh, TypeOK, Ages
<1> DEFINE good == [o \in Observers |-> reports[o].good]
<1>5. Reported(good, lapsed) = Assigned
  <2>1. ASSUME NEW o \in Assigned  PROVE good[o] < Window
    <3>1. o \in Observers /\ good[o] = reports[o].good
      BY <1>2
    <3>2. reports[o].good \in Nat /\ reports[o].good <= 2
      BY <3>1 DEF TypeOK, Ages, Fresh
    <3> QED  BY <3>1, <3>2, WindowAssumption
  <2> HIDE DEF good
  <2> QED  BY <2>1 DEF Reported
<1>6. heartbeat.seen /\ heartbeat.symptoms = {} /\ Observers # {}
  BY <1>2 DEF Fresh
<1> QED
  BY <1>2, <1>3, <1>4, <1>5, <1>6, Zenon DEF Verdict

LEMMA FreshLasts ==
    ASSUME TypeOK, Fresh(1)
    PROVE  Fresh(2)
  BY ObserversAreFew DEF Fresh, TypeOK, Ages

\* A round makes everything one round older.
LEMMA FreshGrowsOld ==
    ASSUME TypeOK, NextRound, NEW k \in Nat, Fresh(k)
    PROVE  Fresh(k + 1)'
<1>1. heartbeat'.seen /\ heartbeat'.symptoms = {} /\ heartbeat'.age = Older(heartbeat.age)
  BY DEF NextRound, TypeOK, Fresh
<1>2. heartbeat'.age <= k + 1
  <2>1. heartbeat.age \in Ages /\ heartbeat.age <= k
    BY DEF TypeOK, Fresh
  <2> QED  BY <1>1, <2>1, OlderIsAge DEF Ages, Old
<1>3. Assigned' = Assigned /\ Assigned \subseteq Observers
  BY ObserversStay, ObserversAreFew DEF NextRound
<1>4. ASSUME NEW o \in Assigned  PROVE reports'[o].good <= k + 1
  <2>1. o \in Observers /\ reports'[o].good = Older(reports[o].good)
    BY <1>3 DEF NextRound
  <2>2. reports[o].good \in Ages /\ reports[o].good <= k
    BY <2>1 DEF TypeOK, Fresh
  <2> QED  BY <2>1, <2>2, OlderIsAge, WindowAssumption DEF Ages, Old
<1> QED  BY <1>1, <1>2, <1>3, <1>4 DEF Fresh

LEMMA GlitchHeartbeat ==
    ASSUME TypeOK, GlitchInv, SubmitHeartbeat
    PROVE  GlitchInv'
<1>1. Assigned' = Assigned /\ Assigned \subseteq Observers
  BY ObserversStay, ObserversAreFew DEF SubmitHeartbeat
<1>2. UNCHANGED <<reports, rule, calm, spell>> /\ done' = done \cup {"collector"}
  BY DEF SubmitHeartbeat
<1>3. Assigned \cap done' = Assigned \cap done
  BY <1>1, <1>2, ObserversAssumption
<1>4. ASSUME NEW s \in SymptomSets,
             heartbeat' = [seen |-> TRUE, age |-> 0, symptoms |-> s],
             Spoils(IF s = {} THEN {"dark"} ELSE {"dark", "calm", "mild"})
      PROVE  GlitchInv'
  <2>1. CASE s # {}
    <3>1. "calm" \in spoilt' /\ "mild" \in spoilt'
      BY <1>4, <2>1 DEF Spoils
    <3>2. calm' > 1 /\ "mild" \notin spoilt' => rule' = "healthy"
      BY <3>1
    <3> QED  BY <3>1 DEF GlitchInv, RoundGoesWell, KnownBefore, RowFollows
  <2>2. CASE s = {}
    <3>1. heartbeat'.seen /\ heartbeat'.symptoms = {} /\ heartbeat'.age = 0
      BY <1>4, <2>2
    <3>2. spoilt' = spoilt \cup {"dark"}
      BY <1>4, <2>2 DEF Spoils
    <3>3. ASSUME NEW k \in Nat, Fresh(k)  PROVE Fresh(k)'
      BY <1>1, <1>2, <3>1, <3>3 DEF Fresh
    <3>4. RoundGoesWell'
      BY <1>1, <1>2, <1>3, <3>1, <3>2 DEF GlitchInv, RoundGoesWell
    <3>5. KnownBefore'
      BY <1>2, <3>2, <3>3 DEF GlitchInv, KnownBefore
    <3>6. RowFollows'
      BY <1>2, <3>2 DEF GlitchInv, RowFollows
    <3> QED  BY <3>4, <3>5, <3>6 DEF GlitchInv
  <2> QED  BY <2>1, <2>2
<1>5. ASSUME heartbeat' = heartbeat, Spoils({"calm"})  PROVE GlitchInv'
  <2>1. spoilt' = spoilt \cup {"calm"}
    BY <1>5 DEF Spoils
  <2>2. ASSUME NEW k \in Nat, Fresh(k)  PROVE Fresh(k)'
    BY <1>1, <1>2, <1>5, <2>2 DEF Fresh
  <2>3. KnownBefore'
    BY <1>2, <2>1, <2>2 DEF GlitchInv, KnownBefore
  <2>4. RoundGoesWell' /\ RowFollows'
    BY <1>2, <2>1 DEF GlitchInv, RoundGoesWell, RowFollows
  <2> QED  BY <2>3, <2>4 DEF GlitchInv
<1> QED  BY <1>4, <1>5 DEF SubmitHeartbeat

LEMMA GlitchProbe ==
    ASSUME TypeOK, GlitchInv, NEW p \in Observers, ProbeTarget(p)
    PROVE  GlitchInv'
<1>1. Assigned' = Assigned /\ Assigned \subseteq Observers
  BY ObserversStay, ObserversAreFew DEF ProbeTarget
<1>2. UNCHANGED <<heartbeat, rule, calm, spell>> /\ done' = done \cup {p}
  BY DEF ProbeTarget
<1>3. p \notin {"collector", "engine"}
  BY ObserversAssumption
<1>4. spoilt \subseteq spoilt' /\ ("mild" \in spoilt' => "mild" \in spoilt)
  BY DEF ProbeTarget, Spoils
<1>5. ASSUME NEW o \in Assigned
      PROVE  reports'[o].good = reports[o].good \/ reports'[o].good = 0
  BY <1>1 DEF ProbeTarget, TypeOK
<1>6. ASSUME "calm" \notin spoilt', p \in Assigned
      PROVE  reports'[p].good = 0
  BY <1>6 DEF ProbeTarget, Spoils, TypeOK
<1>7. RoundGoesWell'
  <2>1. ASSUME "calm" \notin spoilt', NEW o \in Assigned \cap done'
        PROVE  reports'[o].good = 0
    <3>1. CASE o = p
      BY <1>6, <2>1, <3>1
    <3>2. CASE o # p
      BY <1>2, <1>4, <1>5, <2>1, <3>2 DEF GlitchInv, RoundGoesWell
    <3> QED  BY <3>1, <3>2
  <2> QED  BY <1>1, <1>2, <1>3, <1>4, <2>1 DEF GlitchInv, RoundGoesWell
<1>8. ASSUME NEW k \in Nat, Fresh(k)  PROVE Fresh(k)'
  BY <1>1, <1>2, <1>5, <1>8 DEF Fresh
<1>9. KnownBefore'
  BY <1>2, <1>4, <1>8 DEF GlitchInv, KnownBefore
<1>10. RowFollows'
  BY <1>2, <1>3, <1>4 DEF GlitchInv, RowFollows
<1> QED  BY <1>7, <1>9, <1>10 DEF GlitchInv

LEMMA GlitchEvaluation ==
    ASSUME TypeOK, GlitchInv, EvaluateNodes, Window >= 3
    PROVE  GlitchInv'
<1>1. UNCHANGED <<heartbeat, reports, calm, spell>> /\ done' = done \cup {"engine"}
  BY DEF EvaluateNodes
<1>2. CASE stale' = stale /\ stale # Observers
  <2>1. spoilt' = spoilt
    BY <1>2 DEF EvaluateNodes, Spoils
  <2>2. Assigned' = Assigned /\ Assigned \subseteq Observers
    BY <1>2, ObserversStay, ObserversAreFew
  <2>3. Assigned \cap done' = Assigned \cap done
    BY <1>1, <2>2, ObserversAssumption
  <2>4. RoundGoesWell'
    BY <1>1, <2>1, <2>2, <2>3 DEF GlitchInv, RoundGoesWell
  <2>5. ASSUME NEW k \in Nat, Fresh(k)  PROVE Fresh(k)'
    BY <1>1, <2>2, <2>5 DEF Fresh
  <2>6. KnownBefore'
    BY <1>1, <2>1, <2>5 DEF GlitchInv, KnownBefore
  <2>7. ASSUME "mild" \notin spoilt, calm > 0 \/ spell > 0  PROVE rule' = "healthy"
    <3>1. calm \in Nat
      BY DEF TypeOK
    <3>2. Fresh(2)
      <4>1. CASE calm > 0
        BY <2>7, <4>1, FreshLasts DEF GlitchInv, KnownBefore
      <4>2. CASE calm = 0
        BY <2>7, <4>2 DEF GlitchInv, KnownBefore
      <4> QED  BY <3>1, <4>1, <4>2
    <3> QED  BY <2>1, <2>7, <3>2, FreshIsHealthy
  <2>8. spell \in Nat /\ calm \in Nat
    BY DEF TypeOK
  <2>9. RowFollows'
    BY <1>1, <2>1, <2>7, <2>8 DEF GlitchInv, RoundGoesWell, RowFollows
  <2> QED  BY <2>4, <2>6, <2>9 DEF GlitchInv
<1>3. CASE ~(stale' = stale /\ stale # Observers)
  <2>1. "calm" \in spoilt' /\ "mild" \in spoilt'
    BY <1>3 DEF EvaluateNodes, Spoils
  <2> QED  BY <2>1 DEF GlitchInv, RoundGoesWell, KnownBefore, RowFollows
<1> QED  BY <1>2, <1>3

LEMMA GlitchNoLeader ==
    ASSUME TypeOK, GlitchInv, SkipEvaluation
    PROVE  GlitchInv'
<1>1. UNCHANGED <<heartbeat, reports, rule, calm, spell>>
  BY DEF SkipEvaluation
<1>2. spoilt' = spoilt \cup {"calm", "dark"}
  BY DEF SkipEvaluation, Spoils
<1>3. Assigned' = Assigned
  BY ObserversStay DEF SkipEvaluation
<1>4. ASSUME NEW k \in Nat, Fresh(k)  PROVE Fresh(k)'
  BY <1>1, <1>3, <1>4 DEF Fresh
<1>5. KnownBefore'
  BY <1>1, <1>2, <1>4 DEF GlitchInv, KnownBefore
<1>6. RoundGoesWell' /\ RowFollows'
  BY <1>1, <1>2 DEF GlitchInv, RoundGoesWell, RowFollows
<1> QED  BY <1>5, <1>6 DEF GlitchInv

LEMMA GlitchNextRound ==
    ASSUME TypeOK, GlitchInv, NextRound
    PROVE  GlitchInv'
<1>1. done = Observers \cup {"collector", "engine"} /\ done' = {} /\ spoilt' = {}
  BY DEF NextRound
<1>2. rule' = rule /\ Assigned' = Assigned /\ Assigned \subseteq Observers
  BY ObserversStay, ObserversAreFew DEF NextRound
<1>3. /\ calm' = IF "calm" \in spoilt THEN 0 ELSE Longer(calm, Settle)
      /\ spell' = IF "mild" \in spoilt THEN 0
                  ELSE IF "calm" \in spoilt THEN calm ELSE spell
  BY DEF NextRound
<1>4. calm \in 0..Settle /\ spell \in 0..Settle /\ calm \in Nat /\ spell \in Nat
  BY RoundsAssumption DEF TypeOK
<1>5. RoundGoesWell'
  BY <1>1 DEF RoundGoesWell
<1>6. CASE "calm" \notin spoilt
  <2>1. calm' = Longer(calm, Settle) /\ spell' = spell
    BY <1>3, <1>6 DEF GlitchInv, RoundGoesWell
  <2>2. Fresh(0)
    BY <1>1, <1>2, <1>6 DEF GlitchInv, RoundGoesWell, Fresh
  <2>3. Fresh(1)'
    <3>1. Fresh(0 + 1)'
      BY <2>2, FreshGrowsOld
    <3> QED  BY <3>1
  <2>4. calm' > 0 \/ spell' = 0
    BY <1>4, <2>1, RoundsAssumption DEF Longer
  <2>5. KnownBefore'
    BY <1>4, <2>1, <2>3, <2>4 DEF KnownBefore
  <2>6. calm' > 1 => calm > 0
    BY <1>4, <2>1, LongerIsBounded, RoundsAssumption
  <2>7. calm > 0 => rule = "healthy"
    BY <1>1, <1>6 DEF GlitchInv, RowFollows
  <2>8. RowFollows'
    BY <1>1, <1>2, <1>6, <2>1, <2>6, <2>7 DEF GlitchInv, RowFollows
  <2> QED  BY <1>5, <2>5, <2>8 DEF GlitchInv
<1>7. CASE "calm" \in spoilt
  <2>1. calm' = 0 /\ spell' = IF "mild" \in spoilt THEN 0 ELSE calm
    BY <1>3, <1>7
  <2>2. KnownBefore'
    <3>1. ASSUME spell' > 0  PROVE Fresh(2)'
      <4>1. "mild" \notin spoilt /\ calm > 0
        BY <2>1, <3>1
      <4>2. Fresh(1)
        BY <4>1 DEF GlitchInv, KnownBefore
      <4>3. Fresh(1 + 1)'
        BY <4>2, FreshGrowsOld
      <4> QED  BY <4>3
    <3> QED  BY <2>1, <3>1 DEF KnownBefore
  <2>3. spell' > 1 => rule' = "healthy"
    BY <1>2, <2>1 DEF GlitchInv, RowFollows
  <2>4. RowFollows'
    BY <1>1, <2>1, <2>3 DEF RowFollows
  <2> QED  BY <1>5, <2>2, <2>4 DEF GlitchInv
<1> QED  BY <1>6, <1>7

\* After Settle rounds in which all goes well the target is healthy whatever
\* went before, and it stays so through one round of glitches at a time: for a
\* freshness window of three loop intervals or more, which is what 45 seconds
\* are to the default interval, two rounds settle it.
THEOREM OneGlitchIsTolerated ==
    ASSUME Window >= 3, Settle >= 2
    PROVE  Spec => []GlitchIsTolerated
<1>1. Init => TypeOK /\ GlitchInv
  BY TypesHoldAtFirst
     DEF Init, GlitchInv, RoundGoesWell, KnownBefore, RowFollows
<1>2. TypeOK /\ GlitchInv /\ [Next]_vars => TypeOK' /\ GlitchInv'
  <2> SUFFICES ASSUME TypeOK, GlitchInv, [Next]_vars  PROVE GlitchInv'
    BY TypesAreKept
  <2>1. CASE UNCHANGED vars
    <3>1. Assigned' = Assigned
      BY <2>1, ObserversStay DEF vars
    <3> QED
      BY <2>1, <3>1 DEF vars, GlitchInv, RoundGoesWell, KnownBefore, RowFollows, Fresh
  <2> QED
    BY <2>1, GlitchHeartbeat, GlitchProbe, GlitchEvaluation, GlitchNoLeader,
       GlitchNextRound DEF Next
<1>3. TypeOK /\ GlitchInv => GlitchIsTolerated
  BY RoundsAssumption DEF GlitchInv, RowFollows, GlitchIsTolerated
<1> QED  BY <1>1, <1>2, <1>3, PTL DEF Spec

-----------------------------------------------------------------------------
(* An outage is found                                                      *)

\* What the row of a target that is down says.
Down == IF heartbeat.seen THEN "availability" ELSE "telemetry"

\* Nothing is newer than the outage, and its observers go on reporting.
DarkSince ==
    /\ heartbeat.age > dark \/ heartbeat.age = Old
    /\ \A o \in Observers : reports[o].good > dark \/ reports[o].good = Old
    /\ \A o \in Assigned \cap done : reports[o].any = 0
    /\ dark > 0 => \A o \in Assigned : reports[o].any <= 1

\* The row follows one round behind.
DownFollows ==
    /\ dark + 1 >= Detect /\ "engine" \in done => rule = Down
    /\ dark = Detect => rule = Down

OutageInv == "dark" \notin spoilt => DarkSince /\ DownFollows

\* Enough observers report, none of them that it got through, and the
\* heartbeat is too old.
LEMMA DarkIsDown ==
    ASSUME TypeOK, Window >= 2, DarkSince, dark >= Window, EvaluateNodes,
           "dark" \notin spoilt'
    PROVE  rule' = Down
<1>1. CASE ~heartbeat.seen
  <2>1. rule' = "telemetry"
    BY <1>1, Zenon DEF EvaluateNodes, Verdict
  <2> QED  BY <1>1, <2>1 DEF Down
<1>2. CASE heartbeat.seen
  <2>1. stale \subseteq Observers /\ stale # Observers
    BY DEF EvaluateNodes, Spoils, TypeOK
  <2>2. Assigned # {} /\ Assigned \subseteq Observers /\ IsFiniteSet(Assigned)
    BY <2>1, SomebodyObserves, ObserversAreFew
  <2> DEFINE any == [o \in Observers |-> reports[o].any]
             good == [o \in Observers |-> reports[o].good]
  <2>3. PICK lapsedBeat \in BOOLEAN, lapsed \in SUBSET Observers :
           rule' = Verdict(Late(heartbeat.age, lapsedBeat), heartbeat.seen,
                           heartbeat.symptoms, Assigned, Reported(any, lapsed),
                           Reported(good, lapsed))
    BY DEF EvaluateNodes
  <2>4. Late(heartbeat.age, lapsedBeat)
    BY WindowAssumption, RoundsAssumption DEF Late, DarkSince, TypeOK, Ages, Old
  <2>5. Reported(good, lapsed) = {}
    <3>1. ASSUME NEW o \in Assigned  PROVE good[o] > Window
      <4>1. o \in Observers /\ good[o] = reports[o].good
        BY <2>2
      <4>2. good[o] > dark \/ good[o] = Old
        BY <4>1 DEF DarkSince
      <4>3. good[o] \in Nat /\ dark \in Nat
        BY <4>1 DEF TypeOK, Ages
      <4> HIDE DEF good
      <4> QED  BY <4>2, <4>3, WindowAssumption DEF Old
    <3>2. ASSUME NEW o \in Assigned  PROVE good[o] \in Nat
      BY <2>2 DEF TypeOK, Ages
    <3> HIDE DEF good
    <3> QED  BY <3>1, <3>2, WindowAssumption DEF Reported
  <2>6. Reported(any, lapsed) = Assigned
    <3>1. ASSUME NEW o \in Assigned  PROVE any[o] < Window
      <4>1. o \in Observers /\ any[o] = reports[o].any
        BY <2>2
      <4>2. reports[o].any \in Nat /\ reports[o].any <= 1
        BY <4>1, WindowAssumption DEF DarkSince, TypeOK, Ages
      <4> QED  BY <4>1, <4>2, WindowAssumption
    <3> HIDE DEF any
    <3> QED  BY <3>1 DEF Reported
  <2>7. rule' = "availability"
    <3> HIDE DEF any, good
    <3> DEFINE required == RequiredReports(Cardinality(Assigned))
    <3>1. required > 0 /\ Cardinality(Assigned) >= required
      BY <2>2, AllAreEnough
    <3> QED  BY <1>2, <2>3, <2>4, <2>5, <2>6, <3>1, Zenon DEF Verdict
  <2> QED  BY <1>2, <2>7 DEF Down
<1> QED  BY <1>1, <1>2

\* In a round that does not count nothing is claimed.
LEMMA OutageHeartbeat ==
    ASSUME TypeOK, OutageInv, SubmitHeartbeat
    PROVE  OutageInv'
<1>1. CASE heartbeat' = heartbeat /\ Spoils({"calm"})
  <2>1. spoilt' = spoilt \cup {"calm"}
    BY <1>1 DEF Spoils
  <2>2. UNCHANGED <<reports, rule, dark>> /\ done' = done \cup {"collector"}
    BY DEF SubmitHeartbeat
  <2>3. Assigned' = Assigned /\ Assigned \cap done' = Assigned \cap done
    BY <2>2, ObserversStay, ObserversAreFew, ObserversAssumption DEF SubmitHeartbeat
  <2> QED
    BY <1>1, <2>1, <2>2, <2>3 DEF OutageInv, DarkSince, DownFollows, Down
<1>2. CASE ~(heartbeat' = heartbeat /\ Spoils({"calm"}))
  <2>1. "dark" \in spoilt'
    BY <1>2 DEF SubmitHeartbeat, Spoils
  <2> QED  BY <2>1 DEF OutageInv
<1> QED  BY <1>1, <1>2

LEMMA OutageProbe ==
    ASSUME TypeOK, OutageInv, NEW p \in Observers, ProbeTarget(p)
    PROVE  OutageInv'
<1> SUFFICES ASSUME "dark" \notin spoilt'  PROVE DarkSince' /\ DownFollows'
  BY DEF OutageInv
<1>1. Assigned' = Assigned /\ Assigned \subseteq Observers
  BY ObserversStay, ObserversAreFew DEF ProbeTarget
<1>2. UNCHANGED <<heartbeat, rule, dark>> /\ done' = done \cup {p}
  BY DEF ProbeTarget
<1>3. p \notin {"collector", "engine"}
  BY ObserversAssumption
<1>4. DarkSince /\ DownFollows
  BY DEF ProbeTarget, Spoils, OutageInv
<1>5. DownFollows'
  BY <1>2, <1>3, <1>4 DEF DownFollows, Down
<1>6. reports' = IF p \in Assigned THEN [reports EXCEPT ![p].any = 0] ELSE reports
  BY DEF ProbeTarget, Spoils
<1>7. ASSUME NEW o \in Observers
      PROVE  /\ reports'[o].good = reports[o].good
             /\ reports'[o].any = reports[o].any \/ reports'[o].any = 0
             /\ o = p /\ p \in Assigned => reports'[o].any = 0
  BY <1>6 DEF TypeOK
<1>8. ASSUME NEW o \in Assigned \cap done'  PROVE reports'[o].any = 0
  <2>1. CASE o = p
    BY <1>1, <1>7, <1>8, <2>1
  <2>2. CASE o # p
    BY <1>1, <1>2, <1>4, <1>7, <1>8, <2>2 DEF DarkSince
  <2> QED  BY <2>1, <2>2
<1>9. DarkSince'
  BY <1>1, <1>2, <1>4, <1>7, <1>8 DEF DarkSince
<1> QED  BY <1>5, <1>9

LEMMA OutageEvaluation ==
    ASSUME TypeOK, OutageInv, EvaluateNodes, Window >= 2, Detect > Window
    PROVE  OutageInv'
<1> SUFFICES ASSUME "dark" \notin spoilt'  PROVE DarkSince' /\ DownFollows'
  BY DEF OutageInv
<1>1. UNCHANGED <<heartbeat, reports, dark>> /\ done' = done \cup {"engine"}
  BY DEF EvaluateNodes
<1>2. stale' = stale /\ spoilt' = spoilt
  BY DEF EvaluateNodes, Spoils
<1>3. Assigned' = Assigned /\ Assigned \cap done' = Assigned \cap done
  BY <1>1, <1>2, ObserversStay, ObserversAreFew, ObserversAssumption
<1>4. DarkSince
  BY <1>2 DEF OutageInv
<1>5. DarkSince'
  BY <1>1, <1>3, <1>4 DEF DarkSince
<1>6. dark \in Nat
  BY DEF TypeOK
<1>7. dark + 1 >= Detect => rule' = Down
  BY <1>4, <1>6, DarkIsDown, WindowAssumption, RoundsAssumption
<1>8. Down' = Down
  BY <1>1 DEF Down
<1> QED  BY <1>1, <1>5, <1>6, <1>7, <1>8, RoundsAssumption DEF DownFollows

LEMMA OutageNextRound ==
    ASSUME TypeOK, OutageInv, NextRound, Window >= 2, Detect > Window
    PROVE  OutageInv'
<1>1. done = Observers \cup {"collector", "engine"} /\ done' = {} /\ spoilt' = {}
  BY DEF NextRound
<1>2. rule' = rule /\ Assigned' = Assigned /\ Assigned \subseteq Observers
  BY ObserversStay, ObserversAreFew DEF NextRound
<1>3. dark \in 0..Detect /\ dark \in Nat /\ heartbeat.age \in Ages
  BY DEF TypeOK
<1>4. ASSUME NEW o \in Observers
      PROVE  /\ reports[o].any \in Ages /\ reports[o].good \in Ages
             /\ reports'[o].any = Older(reports[o].any)
             /\ reports'[o].good = Older(reports[o].good)
  BY DEF NextRound, TypeOK
<1>5. heartbeat'.age = Older(heartbeat.age) /\ heartbeat'.seen = heartbeat.seen
  BY DEF NextRound, TypeOK
<1>6. Down' = Down
  BY <1>5 DEF Down
<1>7. CASE "dark" \notin spoilt
  <2>1. dark' = Longer(dark, Detect)
    BY <1>7 DEF NextRound
  <2>2. dark' \in 0..Detect /\ dark' <= dark + 1
    BY <1>3, <2>1, LongerIsBounded, RoundsAssumption
  <2>3. DarkSince /\ DownFollows
    BY <1>7 DEF OutageInv
  <2>4. ASSUME NEW age \in Ages, age > dark \/ age = Old
        PROVE  Older(age) > dark' \/ Older(age) = Old
    BY <1>3, <2>2, <2>4, OlderIsAge, WindowAssumption, RoundsAssumption DEF Ages, Old
  <2>5. ASSUME NEW o \in Assigned  PROVE reports'[o].any <= 1
    <3>1. o \in Assigned \cap done /\ o \in Observers
      BY <1>1, <1>2
    <3>2. reports[o].any = 0 /\ reports'[o].any = Older(0) /\ 0 \in Ages
      BY <1>4, <2>3, <3>1 DEF DarkSince
    <3> QED  BY <3>2, OlderIsAge, WindowAssumption DEF Ages, Old
  <2>6. DarkSince'
    <3>1. heartbeat'.age > dark' \/ heartbeat'.age = Old
      BY <1>3, <1>5, <2>3, <2>4 DEF DarkSince
    <3>2. ASSUME NEW o \in Observers
          PROVE  reports'[o].good > dark' \/ reports'[o].good = Old
      BY <1>4, <2>3, <2>4 DEF DarkSince
    <3> QED  BY <1>1, <1>2, <2>5, <3>1, <3>2 DEF DarkSince
  <2>7. DownFollows'
    BY <1>1, <1>2, <1>3, <1>6, <2>2, <2>3, RoundsAssumption DEF DownFollows
  <2> QED  BY <2>6, <2>7 DEF OutageInv
<1>8. CASE "dark" \in spoilt
  <2>1. dark' = 0
    BY <1>8 DEF NextRound
  <2>2. DarkSince'
    <3>1. heartbeat'.age > dark'
      BY <1>3, <1>5, <2>1, OlderIsAge
    <3>2. ASSUME NEW o \in Observers  PROVE reports'[o].good > dark'
      BY <1>4, <2>1, OlderIsAge
    <3> QED  BY <1>1, <2>1, <3>1, <3>2 DEF DarkSince
  <2>3. DownFollows'
    BY <1>1, <2>1, WindowAssumption, RoundsAssumption DEF DownFollows
  <2> QED  BY <2>2, <2>3 DEF OutageInv
<1> QED  BY <1>7, <1>8

\* A target that is down is found to be so after Detect rounds, if its
\* observers and the leader go on: if the window is two loop intervals or
\* more, and Detect allows one round more than the window.
THEOREM OutageIsFound ==
    ASSUME Window >= 2, Detect > Window
    PROVE  Spec => []OutageIsDetected
<1>1. Init => TypeOK /\ OutageInv
  <2>1. Init => DarkSince /\ DownFollows
    BY WindowAssumption, RoundsAssumption DEF Init, DarkSince, DownFollows
  <2> QED  BY <2>1, TypesHoldAtFirst DEF OutageInv
<1>2. TypeOK /\ OutageInv /\ [Next]_vars => TypeOK' /\ OutageInv'
  <2> SUFFICES ASSUME TypeOK, OutageInv, [Next]_vars  PROVE OutageInv'
    BY TypesAreKept
  <2>1. CASE UNCHANGED vars
    <3>1. Assigned' = Assigned
      BY <2>1, ObserversStay DEF vars
    <3> QED
      BY <2>1, <3>1 DEF vars, OutageInv, DarkSince, DownFollows, Down
  <2>2. CASE SkipEvaluation
    BY <2>2 DEF SkipEvaluation, Spoils, OutageInv
  <2> QED
    BY <2>1, <2>2, OutageHeartbeat, OutageProbe, OutageEvaluation, OutageNextRound
       DEF Next
<1>3. TypeOK /\ OutageInv => OutageIsDetected
  BY DEF OutageInv, DownFollows, Down, OutageIsDetected
<1> QED  BY <1>1, <1>2, <1>3, PTL DEF Spec

=============================================================================
