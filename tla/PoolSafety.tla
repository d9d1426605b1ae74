------------------------------ MODULE PoolSafety ------------------------------
(***************************************************************************)
(* How internal/collector/collector.go turns what it counted in a pool     *)
(* into a recovery risk and a cap on the spot share.  Fractions are kept   *)
(* as the two counts they come from, headroom is in hundredths of a node,  *)
(* risk and cap are whole percentages: rounding a risk down moves it over  *)
(* none of the thresholds it is compared with.                             *)
(***************************************************************************)
EXTENDS Integers

Counts ==
    [workload : Nat, stateful : Nat, evictable : Nat, critical : Nat, onSpot : Nat,
     slackOne : Int, slackTwo : Int, restart : Nat, headroom : Nat, zones : Nat]

Larger(x, y)  == IF x > y THEN x ELSE y
Smaller(x, y) == IF x < y THEN x ELSE y

(* computeZoneDiversificationScore *)
ZoneScore(zones) == IF zones >= 3 THEN 100 ELSE IF zones = 2 THEN 50 ELSE 0

(* computeRecoveryBudgetViolationRisk: the worst of what each signal says. *)
OneNodeRiskIfOverrun(v) == IF v.slackOne < 0 THEN 95 ELSE 0
OneNodeRisk(v)  == IF v.slackOne < 0 THEN 95 ELSE IF v.slackOne < 1 THEN 70 ELSE 0
TwoNodesRisk(v) == IF v.slackTwo < 0 THEN 85 ELSE IF v.slackTwo < 1 THEN 55 ELSE 0
ConcentrationRisk(v) ==
    IF v.onSpot > 0 THEN (20 * v.critical + 80 * v.onSpot) \div v.critical ELSE 0
StatefulRisk(v) ==
    IF v.stateful > 0 THEN (15 * v.workload + 65 * v.stateful) \div v.workload ELSE 0
RestartRisk(v) == IF v.restart >= 600 THEN 75 ELSE IF v.restart >= 300 THEN 50
                  ELSE IF v.restart >= 120 THEN 30 ELSE 0
HeadroomRisk(v)  == IF v.headroom < 100 THEN 55 ELSE 0
ZoneRisk(v)      == ((100 - ZoneScore(v.zones)) * 60) \div 100
EvictableRisk(v) == (85 * (v.workload - v.evictable)) \div v.workload

RiskOfPods(v) == Larger(Larger(ConcentrationRisk(v), StatefulRisk(v)),
                        Larger(RestartRisk(v), EvictableRisk(v)))
RiskWithoutSlack(v) == Larger(Larger(HeadroomRisk(v), ZoneRisk(v)), RiskOfPods(v))
Risk(v) == Larger(Larger(OneNodeRisk(v), TwoNodesRisk(v)), RiskWithoutSlack(v))

(* computeSafeMaxSpotRatio: the tightest cap any signal asks for. *)
AtLeast(part, whole, pct) == whole > 0 /\ 100 * part >= pct * whole

ConcentrationCap(v) == IF AtLeast(v.onSpot, v.critical, 80) THEN 10
                       ELSE IF AtLeast(v.onSpot, v.critical, 50) THEN 25
                       ELSE IF AtLeast(v.onSpot, v.critical, 25) THEN 50 ELSE 100
OneNodeCap(v)  == IF v.slackOne < 0 THEN 10 ELSE IF v.slackOne < 1 THEN 35 ELSE 100
TwoNodesCap(v) == IF v.slackTwo < 0 THEN 25 ELSE IF v.slackTwo < 1 THEN 50 ELSE 100
StatefulCap(v) == IF AtLeast(v.stateful, v.workload, 50) THEN 50
                  ELSE IF AtLeast(v.stateful, v.workload, 25) THEN 70 ELSE 100
RestartCap(v)  == IF v.restart >= 600 THEN 25 ELSE IF v.restart >= 300 THEN 50 ELSE 100
RiskCap(r)     == IF r >= 90 THEN 10 ELSE IF r >= 75 THEN 25 ELSE IF r >= 60 THEN 40 ELSE 100
HeadroomCap(v) == IF v.headroom < 100 THEN 60 ELSE 100
ZoneCap(v)     == IF ZoneScore(v.zones) < 50 THEN 60 ELSE 100
EvictableCap(v) == IF ~AtLeast(v.evictable, v.workload, 25) THEN 20
                   ELSE IF ~AtLeast(v.evictable, v.workload, 50) THEN 40 ELSE 100

CapOfPods(v) == Smaller(Smaller(ConcentrationCap(v), StatefulCap(v)),
                        Smaller(RestartCap(v), EvictableCap(v)))
CapOfPool(v) == Smaller(Smaller(OneNodeCap(v), TwoNodesCap(v)),
                        Smaller(HeadroomCap(v), ZoneCap(v)))

SafeMaxLastWins(v) == IF v.headroom < 100 THEN 60
                      ELSE Smaller(RiskCap(Risk(v)), Smaller(CapOfPods(v), CapOfPool(v)))
SafeMax(v) == Smaller(RiskCap(Risk(v)), Smaller(CapOfPods(v), CapOfPool(v)))

(* v is in no respect safer than w. *)
NoSafer(v, w) ==
    /\ IF v.critical = 0 THEN w.onSpot = 0
       ELSE v.onSpot * w.critical >= w.onSpot * v.critical
    /\ v.stateful * w.workload >= w.stateful * v.workload
    /\ v.evictable * w.workload <= w.evictable * v.workload
    /\ v.slackOne <= w.slackOne /\ v.slackTwo <= w.slackTwo
    /\ v.restart >= w.restart /\ v.headroom <= w.headroom /\ v.zones <= w.zones
=============================================================================
