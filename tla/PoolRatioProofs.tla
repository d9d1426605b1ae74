--------------------------- MODULE PoolRatioProofs ---------------------------
(***************************************************************************)
(* Theorems about the policy and the loop around a pool, for every pool    *)
(* size, configuration file and set of signals.                            *)
(***************************************************************************)
EXTENDS PoolRatio, WellFoundedInduction, TLAPS

(* A set of natural numbers that is not empty has a least element. *)
LEMMA LeastNat ==
    ASSUME NEW T, T \subseteq Nat, T # {}
    PROVE  \E x \in T : \A y \in T : x <= y
<1>1. \E x \in T : \A y \in T : ~ (<<y, x>> \in OpToRel(<, Nat))
  BY WFMin, NatLessThanWellFounded, Zenon
<1>2. \A x, y \in T : <<y, x>> \notin OpToRel(<, Nat) => ~ (y < x)
  BY Zenon DEF OpToRel
<1>3. \A x, y \in T : ~ (y < x) => x <= y
  OBVIOUS
<1>. QED  BY <1>1, <1>2, <1>3

(* Clamping gives a percentage whatever comes in. *)
LEMMA ClampType ==
    ASSUME NEW x \in Int
    PROVE  Clamp01(x) \in Percent /\ ClampTo(x, 1, 1680) \in Nat /\ Higher(x, 0) \in Nat
BY DEF Clamp01, ClampTo, Percent, Higher

LEMMA ClampToType ==
    ASSUME NEW x \in Percent, NEW lo \in Percent, NEW hi \in Percent, lo <= hi
    PROVE  /\ ClampTo(x, lo, hi) \in Percent
           /\ lo <= ClampTo(x, lo, hi) /\ ClampTo(x, lo, hi) <= hi
BY DEF ClampTo, Percent

LEMMA LowerType ==
    ASSUME NEW x \in Percent, NEW y \in Percent
    PROVE  Lower(x, y) \in Percent /\ Lower(x, y) <= y
BY DEF Lower, Percent

LEMMA RulesType ==
    ASSUME NEW f \in Feature, NEW rules \in SUBSET [threshold : Int, max : Int]
    PROVE  NormalizeRules(f, rules) \in SUBSET Rule
<1>1. ASSUME NEW r \in rules
      PROVE  [threshold |-> IF f \in UnitFeature THEN Clamp01(r.threshold)
                            ELSE Higher(r.threshold, 0),
              max |-> Clamp01(r.max)] \in Rule
  <2>1. r.threshold \in Int /\ r.max \in Int
    OBVIOUS
  <2>2. Clamp01(r.threshold) \in Nat /\ Higher(r.threshold, 0) \in Nat
        /\ Clamp01(r.max) \in Percent
    BY <2>1, ClampType DEF Percent
  <2>. QED  BY <2>2 DEF Rule
<1>. QED  BY <1>1 DEF NormalizeRules

(* WithDefaults keeps a raw configuration a raw configuration. *)
LEMMA DefaultsType ==
    ASSUME NEW c \in RawConfig
    PROVE  WithDefaults(c) \in RawConfig
<1>1. /\ c.maxSpot \in Int /\ c.emergency \in Int /\ c.runtimeEmergency \in Int
      /\ c.high \in Int /\ c.medium \in Int /\ c.minSavings \in Int /\ c.maxPayback \in Int
      /\ c.oodMaxRisk \in Int /\ c.oodMinSavings \in Int /\ c.oodMaxPayback \in Int
  BY DEF RawConfig
<1>2. [f \in Feature |-> IF c.rules[f] = {} THEN DefaultRules[f] ELSE c.rules[f]]
         \in [Feature -> SUBSET [threshold : Int, max : Int]]
  <2>1. ASSUME NEW f \in Feature
        PROVE  (IF c.rules[f] = {} THEN DefaultRules[f] ELSE c.rules[f])
                  \in SUBSET [threshold : Int, max : Int]
    BY PoolRatioAssumption DEF RawConfig
  <2>. QED  BY <2>1
<1>3. /\ Default(c.maxSpot, 100) \in Int /\ Default(c.emergency, 90) \in Int
      /\ Default(c.runtimeEmergency, 80) \in Int /\ Default(c.high, 60) \in Int
      /\ Default(c.medium, 35) \in Int /\ Default(c.minSavings, 15) \in Int
      /\ Default(c.maxPayback, 60) \in Int /\ Default(c.oodMaxRisk, 25) \in Int
      /\ Default(c.oodMinSavings, 25) \in Int /\ Default(c.oodMaxPayback, 30) \in Int
  BY <1>1 DEF Default
<1>4. /\ c.deterministic \in BOOLEAN /\ c.shadow \in BOOLEAN /\ c.conservative \in BOOLEAN
      /\ c.minSpot \in Int /\ c.target \in Int
      /\ c.buckets \in [OODFeature -> [known : BOOLEAN, lo : Int, hi : Int]]
  BY DEF RawConfig
<1>. QED  BY <1>2, <1>3, <1>4 DEF WithDefaults, RawConfig

Ordered(c) ==
    /\ c.minSpot <= c.target /\ c.target <= c.maxSpot
    /\ c.medium <= c.high /\ c.high <= c.emergency

LEMMA ClampedType ==
    ASSUME NEW c \in RawConfig
    PROVE  Clamped(c) \in Config /\ Ordered(Clamped(c))
<1>. DEFINE maxSpot == Clamp01(c.maxSpot)
            minSpot == Lower(Clamp01(c.minSpot), maxSpot)
            emergency == Clamp01(c.emergency)
            high == Lower(Clamp01(c.high), emergency)
            target == ClampTo(Clamp01(c.target), minSpot, maxSpot)
            medium == Lower(Clamp01(c.medium), high)
            rules == [f \in Feature |-> NormalizeRules(f, c.rules[f])]
            buckets == IF \E f \in OODFeature : ~c.buckets[f].known
                       THEN DefaultBuckets ELSE c.buckets
<1>0. /\ c.maxSpot \in Int /\ c.minSpot \in Int /\ c.emergency \in Int /\ c.high \in Int
      /\ c.target \in Int /\ c.medium \in Int /\ c.runtimeEmergency \in Int
      /\ c.minSavings \in Int /\ c.maxPayback \in Int /\ c.oodMaxRisk \in Int
      /\ c.oodMinSavings \in Int /\ c.oodMaxPayback \in Int
      /\ c.rules \in [Feature -> SUBSET [threshold : Int, max : Int]]
      /\ c.buckets \in [OODFeature -> [known : BOOLEAN, lo : Int, hi : Int]]
  BY DEF RawConfig
<1>1. maxSpot \in Percent /\ minSpot \in Percent /\ minSpot <= maxSpot
  BY <1>0, ClampType, LowerType
<1>2. emergency \in Percent /\ high \in Percent /\ high <= emergency
  BY <1>0, ClampType, LowerType
<1>3. medium \in Percent /\ medium <= high
  BY <1>0, <1>2, ClampType, LowerType
<1>4. target \in Percent /\ minSpot <= target /\ target <= maxSpot
  BY <1>0, <1>1, ClampType, ClampToType
<1>5. rules \in [Feature -> SUBSET Rule]
  BY <1>0, RulesType
<1>6. buckets \in [OODFeature -> [known : BOOLEAN, lo : Int, hi : Int]]
  BY <1>0, PoolRatioAssumption
<1>7. /\ Clamp01(c.runtimeEmergency) \in Percent /\ Clamp01(c.minSavings) \in Percent
      /\ Clamp01(c.oodMaxRisk) \in Percent /\ Clamp01(c.oodMinSavings) \in Percent
      /\ ClampTo(c.maxPayback, 1, 1680) \in Nat /\ ClampTo(c.oodMaxPayback, 1, 1680) \in Nat
  BY <1>0, ClampType
<1>8. Clamped(c) =
        [deterministic |-> c.deterministic, shadow |-> c.shadow,
         minSpot |-> minSpot, maxSpot |-> maxSpot, target |-> target,
         emergency |-> emergency, runtimeEmergency |-> Clamp01(c.runtimeEmergency),
         high |-> high, medium |-> medium,
         minSavings |-> Clamp01(c.minSavings), maxPayback |-> ClampTo(c.maxPayback, 1, 1680),
         conservative |-> c.conservative, oodMaxRisk |-> Clamp01(c.oodMaxRisk),
         oodMinSavings |-> Clamp01(c.oodMinSavings),
         oodMaxPayback |-> ClampTo(c.oodMaxPayback, 1, 1680),
         rules |-> rules, buckets |-> buckets]
  BY DEF Clamped
<1>. HIDE DEF maxSpot, minSpot, emergency, high, target, medium, rules, buckets
<1>. QED  BY <1>1, <1>2, <1>3, <1>4, <1>5, <1>6, <1>7, <1>8 DEF Config, RawConfig, Ordered

LEMMA LoadType ==
    ASSUME NEW c \in RawConfigs
    PROVE  Load(c) \in Config /\ Ordered(Load(c))
<1>1. Unset \in RawConfig /\ c \in RawConfig
  BY PoolRatioAssumption DEF Unset, RawConfig
<1>. QED  BY <1>1, DefaultsType, ClampedType DEF Load

-----------------------------------------------------------------------------
(* The cap of a pool is a percentage: there is always a tightest one. *)
LEMMA CapType ==
    ASSUME NEW c \in Config, c.minSpot <= c.maxSpot, NEW s \in Signal
    PROVE  EffectiveCap(c, s) \in Percent
<1>1. Safety(s.safety).safeMax \in Percent
  <2>1. s.safety \in [risk : Int, slack : Int, safeMax : Int, other : BOOLEAN]
    BY DEF Signal
  <2>2. Clamp01(s.safety.safeMax) \in Percent
    BY <2>1, ClampType
  <2>. QED  BY <2>1, <2>2 DEF Safety, Percent
<1>2. ASSUME NEW f \in Feature PROVE RuleCaps(c, s, f) \subseteq Percent
  <2>1. c.rules[f] \subseteq Rule
    BY DEF Config
  <2>2. Strongest(Reached(c.rules[f], s.features[f])) \subseteq Rule
    BY <2>1 DEF Strongest, Reached
  <2>. QED  BY <2>2 DEF RuleCaps, Rule
<1>3. Caps(c, s) \subseteq Percent /\ 100 \in Caps(c, s)
  BY <1>1, <1>2 DEF Caps, Percent
<1>4. Caps(c, s) \subseteq Nat /\ Caps(c, s) # {}
  BY <1>3 DEF Percent
<1>5. \E x \in Caps(c, s) : \A y \in Caps(c, s) : x <= y
  BY <1>4, LeastNat
<1>6. WorkloadCap(c, s) \in Percent
  BY <1>3, <1>5 DEF WorkloadCap
<1>7. c.minSpot \in Percent /\ c.maxSpot \in Percent
  BY DEF Config
<1>. QED  BY <1>6, <1>7, ClampToType DEF EffectiveCap

LEMMA MaxDrainType ==
    ASSUME NEW t \in Nat
    PROVE  MaxDrain(t) \in Nat /\ MaxDrain(t) > 0
<1>1. MaxDrainPct \in Nat
  BY MaxDrainPctAssumption
<1>2. t * MaxDrainPct \in Nat
  BY <1>1
<1>3. (t * MaxDrainPct) \div 100 \in Int
  BY <1>2
<1>. QED  BY <1>3 DEF MaxDrain

(* The deterministic policy lets a pool grow only from below its cap. *)
LEMMA GrowsOnlyBelowCap ==
    ASSUME NEW c \in Config, c.minSpot <= c.maxSpot, NEW s \in Signal,
           NEW n \in [spot : Nat, total : Nat],
           c.deterministic, Decide(c, s, n) \in Increase
    PROVE  100 * n.spot < EffectiveCap(c, s) * n.total
<1>1. Assess(c, s, n).action \in Increase
  BY DEF Decide, Upgraded, Increase
<1>2. Evaluate(c, s, n.spot, n.total).action \in Increase
  BY <1>1 DEF Assess, Unsupported, Increase
<1>3. ~(Overshoot(c, s, n.spot, n.total) > 0) /\ Overshoot(c, s, n.spot, n.total) # 0
  BY <1>2 DEF Evaluate, Reduce, Decision, FreezeSpot, Increase
<1>4. EffectiveCap(c, s) * n.total \in Int /\ 100 * n.spot \in Int
  BY CapType DEF Percent
<1>. QED  BY <1>3, <1>4 DEF Overshoot

(* No rule of Evaluate and no filter keeps a pool over its cap from an     *)
(* action that reduces it.                                                 *)
LEMMA OverCapReduces ==
    ASSUME NEW c \in Config, c.minSpot <= c.maxSpot, NEW s \in Signal,
           NEW n \in [spot : Nat, total : Nat], n.spot <= n.total,
           c.deterministic, s.supported, s.telemetry,
           100 * n.spot > EffectiveCap(c, s) * n.total
    PROVE  Decide(c, s, n) \in Decrease /\ n.spot > 0
<1>0. EffectiveCap(c, s) * n.total \in Nat /\ 100 * n.spot \in Int
  BY CapType DEF Percent
<1>1. Overshoot(c, s, n.spot, n.total) > 0
  BY <1>0 DEF Overshoot
<1>2. Evaluate(c, s, n.spot, n.total).action \in Decrease
  BY <1>1 DEF Evaluate, Reduce, Decision, Decrease
<1>3. /\ Assess(c, s, n).action \in Decrease /\ Assess(c, s, n).confidence = 100
      /\ Assess(c, s, n) = [action |-> Evaluate(c, s, n.spot, n.total).action,
                            freeze |-> Evaluate(c, s, n.spot, n.total).freeze,
                            score |-> s.capacity, confidence |-> 100]
  BY <1>2 DEF Assess
<1>4. Assessed(c, s) /\ Actionable(Assess(c, s, n))
  BY <1>3, SelectionAssumption DEF Assessed, Actionable, Percent, Decrease
<1>5. Upgraded(Assess(c, s, n)).action \in Decrease
  BY <1>3 DEF Upgraded, Decrease
<1>6. n.spot > 0 /\ n.total > 0
  BY <1>0
<1>. QED  BY <1>4, <1>5, <1>6 DEF Decide

LEMMA DecideType ==
    ASSUME NEW c \in Config, NEW s \in Signal, NEW n \in [spot : Nat, total : Nat]
    PROVE  Decide(c, s, n) \in Action
<1>1. Evaluate(c, s, n.spot, n.total).action \in Action
  BY DEF Evaluate, Reduce, Decision, FreezeSpot, Action, Increase, Decrease
<1>2. Assess(c, s, n).action \in Action
  BY <1>1 DEF Assess, Unsupported, Action, Decrease, Signal
<1>. QED  BY <1>2 DEF Decide, Upgraded, Action, Decrease, Assess, Unsupported

LEMMA SelectedType ==
    ASSUME NEW a \in Action, NEW n \in [spot : Nat, total : Nat], n.spot <= n.total
    PROVE  /\ Selected(a, n) \in Nat /\ Selected(a, n) <= n.total
           /\ a \in Decrease /\ n.spot > 0 => Selected(a, n) > 0
<1>1. Candidates(a, n) \in Nat /\ Candidates(a, n) <= n.total
  BY DEF Candidates, Increase, Decrease
<1>2. a \in Decrease => Candidates(a, n) = n.spot
  BY DEF Candidates, Increase, Decrease
<1>3. n.total + OtherNodes \in Nat
  BY PoolRatioAssumption
<1>. QED  BY <1>1, <1>2, <1>3, MaxDrainType DEF Selected, Lower

LEMMA MeasuredType ==
    ASSUME nodes \in [Kind -> 0..MaxNodes], Listed <= MaxNodes
    PROVE  /\ Measured \in [spot : Nat, total : Nat] /\ Measured \in Counts
           /\ Measured.spot = nodes["spot"] /\ Measured.total = Listed
           /\ Measured.spot <= Measured.total /\ Listed \in 0..MaxNodes
<1>1. nodes["spot"] \in 0..MaxNodes /\ nodes["on-demand"] \in 0..MaxNodes
  BY DEF Kind
<1>2. Listed \in 0..MaxNodes /\ nodes["spot"] <= Listed
  BY <1>1, PoolRatioAssumption DEF Listed
<1>. QED  BY <1>1, <1>2 DEF Measured, Counts

-----------------------------------------------------------------------------
(* What the loop's types hang on: the parts of TypeOK step by step. *)
NodesOK ==
    /\ nodes \in [Kind -> 0..MaxNodes] /\ Listed <= MaxNodes
    /\ idle \in [Kind -> 0..MaxNodes] /\ \A k \in Kind : idle[k] <= nodes[k]
CycleOK ==
    /\ start \in 0..MaxNodes /\ act \in Action /\ left \in 0..MaxNodes
    /\ sig \in Signals /\ cfg \in Config /\ Ordered(cfg)

LEMMA TypeParts == TypeOK <=> NodesOK /\ CycleOK
BY DEF TypeOK, NodesOK, CycleOK, Ordered

LEMMA InitType == Init => TypeOK
<1>. SUFFICES ASSUME Init PROVE TypeOK
  OBVIOUS
<1>1. PICK c \in RawConfigs : cfg = Load(c)
  BY DEF Init, Loaded
<1>2. cfg \in Config /\ Ordered(cfg)
  BY <1>1, LoadType
<1>3. NodesOK
  BY PoolRatioAssumption DEF Init, NodesOK
<1>4. nodes["spot"] \in 0..MaxNodes
  BY DEF Init, Kind
<1>5. CycleOK
  BY <1>2, <1>4, PoolRatioAssumption DEF Init, CycleOK, Action
<1>. QED  BY <1>3, <1>5, TypeParts

(* One step per action: the cycle's own steps move nodes to idle, the      *)
(* others change the counts.                                               *)
LEMMA NextType == TypeOK /\ [Next]_vars => TypeOK'
<1>. SUFFICES ASSUME TypeOK, [Next]_vars PROVE NodesOK' /\ CycleOK'
  BY TypeParts DEF TypeOK, NodesOK, CycleOK, Ordered
<1>. USE PoolRatioAssumption
<1>n. NodesOK
  BY TypeParts
<1>c. CycleOK
  BY TypeParts
<1>k. ASSUME NEW k \in Kind
      PROVE  /\ nodes[k] \in 0..MaxNodes /\ idle[k] \in 0..MaxNodes /\ idle[k] <= nodes[k]
  BY <1>n DEF NodesOK
<1>s. "spot" \in Kind /\ "on-demand" \in Kind /\ \A k \in Kind : k \in {"spot", "on-demand"}
  BY DEF Kind
<1>1. CASE Tick
  <2>1. PICK c \in RawConfigs : cfg' = Load(c)
    BY <1>1 DEF Tick, Loaded
  <2>2. cfg' \in Config /\ Ordered(cfg')
    BY <2>1, LoadType
  <2>3. /\ sig' \in Signals /\ sig' \in Signal /\ start' = nodes["spot"]
        /\ act' = Decide(cfg', sig', Measured) /\ left' = Selected(act', Measured)
        /\ nodes' = nodes /\ idle' = idle
    BY <1>1 DEF Tick
  <2>4. /\ Measured \in [spot : Nat, total : Nat] /\ Measured.total = Listed
        /\ Measured.spot <= Measured.total /\ Listed \in 0..MaxNodes
    BY <1>n, MeasuredType DEF NodesOK
  <2>5. act' \in Action
    BY <2>2, <2>3, <2>4, DecideType
  <2>6. left' \in 0..MaxNodes
    BY <2>3, <2>4, <2>5, SelectedType
  <2>7. start' \in 0..MaxNodes
    BY <1>k, <1>s, <2>3
  <2>8. NodesOK'
    BY <1>n, <2>3 DEF NodesOK, Listed
  <2>. QED  BY <2>2, <2>3, <2>5, <2>6, <2>7, <2>8 DEF CycleOK
<1>2. CASE Skip
  <2>1. NodesOK'
    BY <1>n, <1>2 DEF NodesOK, Listed, Skip
  <2>2. CycleOK'
    BY <1>c, <1>2 DEF CycleOK, Skip
  <2>. QED  BY <2>1, <2>2
<1>3. CASE Drain
  <2>1. PICK k \in Drained(act) : idle[k] < nodes[k] /\ idle' = [idle EXCEPT ![k] = @ + 1]
    BY <1>3 DEF Drain
  <2>2. k \in Kind
    BY <2>1 DEF Drained, Kind
  <2>3. nodes' = nodes /\ left > 0 /\ left' = left - 1 /\ UNCHANGED <<cfg, sig, start, act>>
    BY <1>3 DEF Drain
  <2>4. NodesOK'
    BY <1>n, <1>k, <2>1, <2>2, <2>3 DEF NodesOK, Listed
  <2>5. CycleOK'
    BY <1>c, <2>3 DEF CycleOK
  <2>. QED  BY <2>4, <2>5
<1>4. ASSUME NEW k \in Kind, Arrive(k) PROVE NodesOK' /\ CycleOK'
  <2>1. /\ Listed < MaxNodes /\ nodes' = [nodes EXCEPT ![k] = @ + 1]
        /\ UNCHANGED <<idle, cfg, sig, start, act, left>>
    BY <1>4 DEF Arrive
  <2>2. CASE k = "spot"
    <3>1. /\ nodes'["spot"] = nodes["spot"] + 1 /\ nodes'["on-demand"] = nodes["on-demand"]
          /\ nodes' = [j \in Kind |-> IF j = "spot" THEN nodes["spot"] + 1 ELSE nodes[j]]
      BY <1>n, <1>s, <2>1, <2>2 DEF NodesOK
    <3>. QED  BY <1>n, <1>c, <1>k, <1>s, <2>1, <3>1 DEF NodesOK, CycleOK, Listed
  <2>3. CASE k = "on-demand"
    <3>1. /\ nodes'["on-demand"] = nodes["on-demand"] + 1 /\ nodes'["spot"] = nodes["spot"]
          /\ nodes' = [j \in Kind |-> IF j = "on-demand" THEN nodes["on-demand"] + 1
                                      ELSE nodes[j]]
      BY <1>n, <1>s, <2>1, <2>3 DEF NodesOK
    <3>. QED  BY <1>n, <1>c, <1>k, <1>s, <2>1, <3>1 DEF NodesOK, CycleOK, Listed
  <2>. QED  BY <1>4, <1>s, <2>2, <2>3
<1>5. ASSUME NEW k \in Kind, Leave(k) PROVE NodesOK' /\ CycleOK'
  <2>1. /\ idle[k] > 0 /\ nodes' = [nodes EXCEPT ![k] = @ - 1]
        /\ idle' = [idle EXCEPT ![k] = @ - 1]
        /\ UNCHANGED <<cfg, sig, start, act, left>>
    BY <1>5 DEF Leave
  <2>2. \A j \in Kind : /\ nodes'[j] = IF j = k THEN nodes[j] - 1 ELSE nodes[j]
                        /\ idle'[j] = IF j = k THEN idle[j] - 1 ELSE idle[j]
    BY <1>n, <2>1 DEF NodesOK
  <2>3. \A j \in Kind : nodes'[j] \in 0..MaxNodes /\ idle'[j] \in 0..MaxNodes
                        /\ idle'[j] <= nodes'[j] /\ nodes'[j] <= nodes[j]
    BY <1>k, <2>1, <2>2
  <2>4. nodes' \in [Kind -> 0..MaxNodes] /\ idle' \in [Kind -> 0..MaxNodes]
    BY <1>n, <2>1, <2>3 DEF NodesOK
  <2>5. Listed' <= MaxNodes
    BY <1>n, <1>k, <1>s, <2>3 DEF NodesOK, Listed
  <2>. QED  BY <1>c, <2>1, <2>3, <2>4, <2>5 DEF NodesOK, CycleOK
<1>6. CASE Interrupt
  <2>1. /\ nodes["spot"] > idle["spot"] /\ nodes' = [nodes EXCEPT !["spot"] = @ - 1]
        /\ UNCHANGED <<idle, cfg, sig, start, act, left>>
    BY <1>6 DEF Interrupt
  <2>2. \A j \in Kind : nodes'[j] = IF j = "spot" THEN nodes[j] - 1 ELSE nodes[j]
    BY <1>n, <2>1 DEF NodesOK
  <2>3. \A j \in Kind : nodes'[j] \in 0..MaxNodes /\ idle'[j] <= nodes'[j]
                        /\ nodes'[j] <= nodes[j]
    BY <1>k, <1>s, <2>1, <2>2
  <2>4. nodes' \in [Kind -> 0..MaxNodes]
    BY <1>n, <2>1, <2>3 DEF NodesOK
  <2>5. Listed' <= MaxNodes
    BY <1>n, <1>k, <1>s, <2>3 DEF NodesOK, Listed
  <2>. QED  BY <1>n, <1>c, <2>1, <2>3, <2>4, <2>5 DEF NodesOK, CycleOK
<1>7. CASE UNCHANGED vars
  <2>1. NodesOK'
    BY <1>n, <1>7 DEF NodesOK, Listed, vars
  <2>2. CycleOK'
    BY <1>c, <1>7 DEF CycleOK, vars
  <2>. QED  BY <2>1, <2>2
<1>. QED  BY <1>1, <1>2, <1>3, <1>4, <1>5, <1>6, <1>7 DEF Next

(* Whatever config/runtime.json holds, what LoadRuntimeConfig returns has  *)
(* ordered bounds and risk bands, and the loop's state keeps its type.     *)
THEOREM TypeCorrect == Spec => []TypeOK
<1>. QED  BY InitType, NextType, PTL DEF Spec

-----------------------------------------------------------------------------
(* Risk scores have no part in the cap, in what counts as out of           *)
(* distribution, or in whether there is an assessment at all.              *)
LEMMA OnlyRiskDiffers ==
    ASSUME NEW c \in Config, NEW s \in Signal, NEW t \in Signal, Worse(s, t), NEW n, NEW total
    PROVE  /\ Overshoot(c, t, n, total) = Overshoot(c, s, n, total)
           /\ OutOfDistribution(c, t) = OutOfDistribution(c, s)
           /\ Assessed(c, t) = Assessed(c, s)
           /\ t.safety = s.safety /\ t.supported = s.supported
<1>1. /\ t.features = s.features /\ t.safety = s.safety /\ t.supported = s.supported
      /\ t.telemetry = s.telemetry /\ t.rlOK = s.rlOK
  BY DEF Worse, Signal
<1>2. Caps(c, t) = Caps(c, s)
  BY <1>1 DEF Caps, RuleCaps
<1>3. EffectiveCap(c, t) = EffectiveCap(c, s)
  BY <1>2 DEF EffectiveCap, WorkloadCap
<1>4. Overshoot(c, t, n, total) = Overshoot(c, s, n, total)
  BY <1>3 DEF Overshoot
<1>5. OutOfDistribution(c, t) = OutOfDistribution(c, s)
  BY <1>1 DEF OutOfDistribution
<1>6. Assessed(c, t) = Assessed(c, s)
  BY <1>1 DEF Assessed
<1>. QED  BY <1>1, <1>4, <1>5, <1>6

(* The composite risk grows with both scores. *)
LEMMA HigherMonotone ==
    ASSUME NEW p \in Int, NEW q \in Int, NEW u \in Int, NEW v \in Int, p <= u, q <= v
    PROVE  Higher(p, q) \in Int /\ Higher(u, v) \in Int /\ Higher(p, q) <= Higher(u, v)
BY DEF Higher

LEMMA CompositeMonotone ==
    ASSUME NEW s \in Signal, NEW t \in Signal, Worse(s, t)
    PROVE  /\ CompositeRisk(s) \in Int /\ CompositeRisk(t) \in Int
           /\ CompositeRisk(s) <= CompositeRisk(t)
<1>1. /\ s.capacity \in Int /\ t.capacity \in Int /\ s.runtime \in Int /\ t.runtime \in Int
      /\ s.capacity <= t.capacity /\ s.runtime <= t.runtime
  BY DEF Worse, Signal, Percent
<1>. QED  BY <1>1, HigherMonotone DEF CompositeRisk

(* What economics forbid at low scores they forbid at higher ones. *)
LEMMA IncreaseNeedsCalm ==
    ASSUME NEW s \in Signal, NEW t \in Signal, Worse(s, t),
           NEW m \in Percent, NEW sv \in Percent, NEW pb \in Nat,
           CanIncrease(t, m, sv, pb)
    PROVE  CanIncrease(s, m, sv, pb)
<1>1. /\ s.odPrice = t.odPrice /\ s.spotPrice = t.spotPrice
      /\ s.migrationCost = t.migrationCost
  BY DEF Worse, Signal
<1>2. CompositeRisk(t) <= m => CompositeRisk(s) <= m
  BY CompositeMonotone DEF Percent
<1>. QED  BY <1>1, <1>2 DEF CanIncrease

LEMMA EvaluateMonotone ==
    ASSUME NEW c \in Config, NEW s \in Signal, NEW t \in Signal, Worse(s, t),
           c.minSpot <= c.maxSpot, NEW n \in Nat, NEW total \in Nat
    PROVE  LET a == Evaluate(c, s, n, total).action
               b == Evaluate(c, t, n, total).action
           IN  \/ Rank(b) <= Rank(a)
               \/ Overshoot(c, s, n, total) > 0 /\ {a, b} \subseteq Decrease \ {"exit"}
<1>. DEFINE x == CompositeRisk(s)
            y == CompositeRisk(t)
            over == Overshoot(c, s, n, total)
            ood == OutOfDistribution(c, s)
            safety == Safety(s.safety)
            ga == CanIncrease(s, c.oodMaxRisk, c.oodMinSavings, c.oodMaxPayback)
            gb == CanIncrease(t, c.oodMaxRisk, c.oodMinSavings, c.oodMaxPayback)
            ha == CanIncrease(s, c.medium, c.minSavings, c.maxPayback)
            hb == CanIncrease(t, c.medium, c.minSavings, c.maxPayback)
            ea == x >= c.emergency \/ s.runtime >= c.runtimeEmergency
            eb == y >= c.emergency \/ t.runtime >= c.runtimeEmergency
<1>1. (gb => ga) /\ (hb => ha)
  BY IncreaseNeedsCalm DEF Config
<1>2. /\ s.capacity \in Percent /\ t.capacity \in Percent
      /\ s.runtime \in Percent /\ t.runtime \in Percent
      /\ s.capacity <= t.capacity /\ s.runtime <= t.runtime
  BY DEF Worse, Signal
<1>3. x \in Int /\ y \in Int /\ x <= y
  BY CompositeMonotone
<1>4. c.emergency \in Int /\ c.runtimeEmergency \in Int /\ c.high \in Int /\ c.medium \in Int
  BY DEF Config, Percent
<1>5. (ea => eb) /\ (x >= c.high => y >= c.high) /\ (x >= c.medium => y >= c.medium)
  BY <1>2, <1>3, <1>4 DEF Percent
<1>6. /\ Overshoot(c, t, n, total) = over /\ OutOfDistribution(c, t) = ood
      /\ Safety(t.safety) = safety
  BY OnlyRiskDiffers
<1>7. over \in Int
  BY CapType DEF Overshoot, Percent
<1>8. Evaluate(c, s, n, total).action =
        IF ea THEN "exit" ELSE IF x >= c.high THEN "decrease30"
        ELSE IF x >= c.medium THEN "decrease10"
        ELSE IF over > 0 THEN IF over >= 25 * total \/ safety.risk >= 85 \/ safety.slack < 0
                              THEN "decrease30" ELSE "decrease10"
        ELSE IF over = 0 \/ safety.risk >= 60 THEN "hold"
        ELSE IF ood /\ c.conservative THEN IF ga THEN "increase10" ELSE "hold"
        ELSE IF ha THEN IF -over >= 25 * total THEN "increase30" ELSE "increase10"
        ELSE "hold"
  BY DEF Evaluate, Reduce, Decision, FreezeSpot
<1>9. Evaluate(c, t, n, total).action =
        IF eb THEN "exit" ELSE IF y >= c.high THEN "decrease30"
        ELSE IF y >= c.medium THEN "decrease10"
        ELSE IF over > 0 THEN IF over >= 25 * total \/ safety.risk >= 85 \/ safety.slack < 0
                              THEN "decrease30" ELSE "decrease10"
        ELSE IF over = 0 \/ safety.risk >= 60 THEN "hold"
        ELSE IF ood /\ c.conservative THEN IF gb THEN "increase10" ELSE "hold"
        ELSE IF hb THEN IF -over >= 25 * total THEN "increase30" ELSE "increase10"
        ELSE "hold"
  BY <1>6 DEF Evaluate, Reduce, Decision, FreezeSpot
<1>. HIDE DEF x, y, over, ood, safety, ga, gb, ha, hb, ea, eb
<1>. QED  BY <1>1, <1>5, <1>8, <1>9 DEF Rank, Decrease, over

(* Higher scores, everything else equal: the action filterActionableNodes  *)
(* leaves never keeps more spot, but for the pace of a pool over its cap.  *)
THEOREM RiskIsMonotone == Spec => []RiskMonotone
<1>1. TypeOK => RiskMonotone
  <2>. SUFFICES ASSUME TypeOK, cfg.deterministic, NEW t \in Signals, Worse(sig, t)
                PROVE  LET a == Decide(cfg, sig, Measured)
                           b == Decide(cfg, t, Measured)
                       IN  \/ Rank(b) <= Rank(a)
                           \/ /\ 100 * nodes["spot"] > EffectiveCap(cfg, sig) * Listed
                              /\ {a, b} \subseteq Decrease \ {"exit"}
    BY DEF RiskMonotone
  <2>1. /\ cfg \in Config /\ sig \in Signal /\ t \in Signal /\ cfg.minSpot <= cfg.maxSpot
    BY PoolRatioAssumption DEF TypeOK, Config, Percent
  <2>m. PICK n \in [spot : Nat, total : Nat] :
          n = Measured /\ n.spot = nodes["spot"] /\ n.total = Listed
    BY MeasuredType DEF TypeOK
  <2>. DEFINE a == Assess(cfg, sig, n)
              b == Assess(cfg, t, n)
  <2>2. /\ Assessed(cfg, t) = Assessed(cfg, sig) /\ t.supported = sig.supported
    BY <2>1, OnlyRiskDiffers
  <2>3. CASE ~sig.supported
    <3>1. a = b
      BY <2>2, <2>3 DEF Assess, Unsupported
    <3>. QED  BY <2>m, <2>2, <3>1 DEF Decide, Rank
  <2>4. CASE sig.supported
    <3>1. /\ a.action = Evaluate(cfg, sig, n.spot, n.total).action /\ a.score = sig.capacity
          /\ b.action = Evaluate(cfg, t, n.spot, n.total).action /\ b.score = t.capacity
          /\ a.confidence = 100 /\ b.confidence = 100
      BY <2>2, <2>4 DEF Assess, Unsupported
    <3>2. AtRisk(a) => AtRisk(b)
      BY <2>1, <3>1, SelectionAssumption DEF AtRisk, Worse, Signal, Percent
    <3>3. /\ Upgraded(a).action = IF AtRisk(a) THEN "exit" ELSE a.action
          /\ Upgraded(b).action = IF AtRisk(b) THEN "exit" ELSE b.action
      BY <2>2, <2>4 DEF Upgraded, Assess, Unsupported
    <3>4. /\ Decide(cfg, sig, n) = IF n.total > 0 /\ Assessed(cfg, sig)
                                   THEN IF AtRisk(a) THEN "exit" ELSE a.action ELSE "hold"
          /\ Decide(cfg, t, n) = IF n.total > 0 /\ Assessed(cfg, sig)
                                 THEN IF AtRisk(b) THEN "exit" ELSE b.action ELSE "hold"
      BY <2>2, <3>1, <3>3, SelectionAssumption DEF Decide, Actionable, Percent
    <3>5. \/ Rank(b.action) <= Rank(a.action)
          \/ /\ Overshoot(cfg, sig, n.spot, n.total) > 0
             /\ {a.action, b.action} \subseteq Decrease \ {"exit"}
      BY <2>1, <3>1, EvaluateMonotone
    <3>6. Overshoot(cfg, sig, n.spot, n.total) > 0
             => 100 * nodes["spot"] > EffectiveCap(cfg, sig) * Listed
      <4>1. EffectiveCap(cfg, sig) * n.total \in Int /\ 100 * n.spot \in Int
        BY <2>1, CapType DEF Percent
      <4>. QED  BY <2>m, <4>1 DEF Overshoot
    <3>. HIDE DEF a, b
    <3>. QED  BY <2>m, <3>2, <3>4, <3>5, <3>6 DEF Rank, Decrease
  <2>. QED  BY <2>3, <2>4
<1>. QED  BY <1>1, TypeCorrect, PTL

-----------------------------------------------------------------------------
(* For any pool, file, limit and signals: a governed cycle that measures a *)
(* share over the effective cap selects spot nodes, and a cycle of the     *)
(* policy selects on-demand nodes only of a pool below its cap.  No rule   *)
(* before or after the cap rule of Evaluate, and no filter after it, gets  *)
(* in the way.                                                             *)
THEOREM OverCapIsReduced == Spec => CapPulls
<1>1. ASSUME TypeOK, TypeOK', Tick
      PROVE  /\ Governed' /\ Over' => act' \in Decrease /\ left' > 0
             /\ cfg'.deterministic /\ act' \in Increase => Under'
  <2>t. /\ cfg' \in Config /\ sig' \in Signal /\ cfg'.minSpot <= cfg'.maxSpot
        /\ act' \in Action
    BY <1>1, PoolRatioAssumption DEF TypeOK, Config, Percent
  <2>m. PICK n \in [spot : Nat, total : Nat] :
          n = Measured /\ n \in Counts /\ n.spot <= n.total
    BY <1>1, MeasuredType DEF TypeOK
  <2>n. /\ Measured' = n /\ act' = Decide(cfg', sig', n) /\ left' = Selected(act', n)
    BY <1>1, <2>m DEF Tick, Measured, Listed
  <2>1. ASSUME Governed', Over' PROVE act' \in Decrease /\ left' > 0
    <3>1. 100 * n.spot > EffectiveCap(cfg', sig') * n.total
      BY <2>n, <2>1 DEF Over
    <3>2. cfg'.deterministic /\ sig'.supported /\ sig'.telemetry
      BY <2>1 DEF Governed
    <3>3. Decide(cfg', sig', n) \in Decrease /\ n.spot > 0
      BY <2>t, <2>m, <3>1, <3>2, OverCapReduces
    <3>. QED  BY <2>t, <2>m, <2>n, <3>3, SelectedType
  <2>2. ASSUME cfg'.deterministic, act' \in Increase PROVE Under'
    <3>1. 100 * n.spot < EffectiveCap(cfg', sig') * n.total
      BY <2>t, <2>m, <2>n, <2>2, GrowsOnlyBelowCap
    <3>. QED  BY <2>m, <2>n, <3>1 DEF Under, Counts
  <2>. QED  BY <2>1, <2>2
<1>2. TypeOK /\ TypeOK' =>
        [Tick => /\ Governed' /\ Over' => act' \in Decrease /\ left' > 0
                 /\ cfg'.deterministic /\ act' \in Increase => Under']_vars
  BY <1>1
<1>. QED  BY TypeCorrect, <1>2, PTL DEF CapPulls
=============================================================================
