-------------------------------- MODULE Policy --------------------------------
(***************************************************************************)
(* The runtime configuration (internal/config/runtime.go) and the          *)
(* deterministic policy (internal/controller/policy_deterministic.go), as  *)
(* operators.  Ratios, scores and thresholds are whole percentages; a      *)
(* spot ratio is a number of nodes out of total, compared exactly where    *)
(* the code allows 1e-6; paybacks are in tenths of an hour.                *)
(*                                                                         *)
(* A raw configuration c has the fields of the JSON file (0 for a number   *)
(* that is not given, {} for rules that are not given).  Signals s are     *)
(* what one cycle measures about a pool.                                   *)
(***************************************************************************)
EXTENDS Guardrails, Integers

CONSTANTS
    Feature,           \* the features cap rules look at
    UnitFeature,       \* those whose thresholds are ratios
    OODFeature,        \* those detectOOD looks at
    DefaultRules,      \* Feature -> the cap rules used when none are given
    DefaultBuckets     \* OODFeature -> the range used when one is missing

Lower(x, y)  == IF x < y THEN x ELSE y
Higher(x, y) == IF x > y THEN x ELSE y
ClampTo(x, lo, hi) == IF x < lo THEN lo ELSE IF x > hi THEN hi ELSE x
Clamp01(x) == ClampTo(x, 0, 100)

-----------------------------------------------------------------------------
(* applyRuntimeDefaults: a zero is a field that was left out. *)
Default(x, d) == IF x = 0 THEN d ELSE x

WithDefaults(c) ==
    [deterministic |-> c.deterministic, shadow |-> c.shadow,
     minSpot |-> c.minSpot, maxSpot |-> Default(c.maxSpot, 100), target |-> c.target,
     emergency |-> Default(c.emergency, 90),
     runtimeEmergency |-> Default(c.runtimeEmergency, 80),
     high |-> Default(c.high, 60), medium |-> Default(c.medium, 35),
     minSavings |-> Default(c.minSavings, 15), maxPayback |-> Default(c.maxPayback, 60),
     conservative |-> c.conservative, oodMaxRisk |-> Default(c.oodMaxRisk, 25),
     oodMinSavings |-> Default(c.oodMinSavings, 25),
     oodMaxPayback |-> Default(c.oodMaxPayback, 30),
     rules |-> [f \in Feature |-> IF c.rules[f] = {} THEN DefaultRules[f] ELSE c.rules[f]],
     buckets |-> c.buckets]

(* normalizeCapRules; its sort is the order Strongest goes by. *)
NormalizeRules(f, rules) ==
    {[threshold |-> IF f \in UnitFeature THEN Clamp01(r.threshold) ELSE Higher(r.threshold, 0),
      max       |-> Clamp01(r.max)] : r \in rules}

(* applyRuntimeClamps: bounds, min <= target <= max, ordered risk bands. *)
ClampedOnlyToUnit(c) ==
    [c EXCEPT !.minSpot = Clamp01(@), !.maxSpot = Clamp01(@), !.target = Clamp01(@),
              !.emergency = Clamp01(@), !.runtimeEmergency = Clamp01(@),
              !.high = Clamp01(@), !.medium = Clamp01(@),
              !.rules = [f \in Feature |-> NormalizeRules(f, @[f])]]

Clamped(c) ==
    LET maxSpot == Clamp01(c.maxSpot)
        minSpot == Lower(Clamp01(c.minSpot), maxSpot)
        emergency == Clamp01(c.emergency)
        high      == Lower(Clamp01(c.high), emergency)
    IN  [deterministic |-> c.deterministic, shadow |-> c.shadow,
         minSpot |-> minSpot, maxSpot |-> maxSpot,
         target |-> ClampTo(Clamp01(c.target), minSpot, maxSpot),
         emergency |-> emergency, runtimeEmergency |-> Clamp01(c.runtimeEmergency),
         high |-> high, medium |-> Lower(Clamp01(c.medium), high),
         minSavings |-> Clamp01(c.minSavings), maxPayback |-> ClampTo(c.maxPayback, 1, 1680),
         conservative |-> c.conservative, oodMaxRisk |-> Clamp01(c.oodMaxRisk),
         oodMinSavings |-> Clamp01(c.oodMinSavings),
         oodMaxPayback |-> ClampTo(c.oodMaxPayback, 1, 1680),
         rules |-> [f \in Feature |-> NormalizeRules(f, c.rules[f])],
         buckets |-> IF \E f \in OODFeature : ~c.buckets[f].known
                     THEN DefaultBuckets ELSE c.buckets]

(* LoadRuntimeConfig: a file that cannot be read or that asks for an RL    *)
(* shadow in RL mode gives way to the defaults.                            *)
Unset ==
    [deterministic |-> TRUE, shadow |-> FALSE, minSpot |-> 0, maxSpot |-> 0, target |-> 0,
     emergency |-> 0, runtimeEmergency |-> 0, high |-> 0, medium |-> 0,
     minSavings |-> 0, maxPayback |-> 0, conservative |-> TRUE, oodMaxRisk |-> 0,
     oodMinSavings |-> 0, oodMaxPayback |-> 0,
     rules |-> [f \in Feature |-> {}],
     buckets |-> [f \in OODFeature |-> [known |-> FALSE, lo |-> 0, hi |-> 0]]]

Invalid(c) == ~c.deterministic /\ c.shadow
Load(c) == Clamped(WithDefaults(IF Invalid(c) THEN Unset ELSE c))

-----------------------------------------------------------------------------
(* applyCapRules: the rule with the highest threshold that the value       *)
(* reaches; of two with that threshold, the tighter.                       *)
Reached(rules, v) == {r \in rules : v >= r.threshold}
Strongest(R) ==
    {r \in R : \A q \in R : q.threshold < r.threshold
                            \/ (q.threshold = r.threshold /\ q.max >= r.max)}
RuleCaps(c, s, f) == {r.max : r \in Strongest(Reached(c.rules[f], s.features[f]))}

(* computeFeatureSpotCap and resolveWorkloadSurface: the tightest of the   *)
(* rules' caps and the pool's SafeMaxSpotRatio; a vector of zeros counts   *)
(* as not populated.                                                       *)
Safety(v) ==
    IF v.risk = 0 /\ v.slack = 0 /\ v.safeMax = 0 /\ ~v.other
    THEN [v EXCEPT !.safeMax = 100]
    ELSE [v EXCEPT !.risk = Clamp01(@), !.safeMax = Clamp01(@)]

Caps(c, s) ==
    {100, Safety(s.safety).safeMax} \cup UNION {RuleCaps(c, s, f) : f \in Feature}

WorkloadCap(c, s)  == CHOOSE x \in Caps(c, s) : \A y \in Caps(c, s) : x <= y
EffectiveCap(c, s) == ClampTo(WorkloadCap(c, s), c.minSpot, c.maxSpot)

OutOfDistribution(c, s) ==
    \E f \in OODFeature : s.features[f] < c.buckets[f].lo \/ s.features[f] > c.buckets[f].hi

CompositeRisk(s) == Higher(s.capacity, s.runtime)

(* canIncreaseSpot: delta is what a spot node saves per hour. *)
CanIncreaseFlipped(s, maxRisk, minSavings, maxPayback) ==
    s.odPrice > s.spotPrice /\ CompositeRisk(s) >= maxRisk

CanIncrease(s, maxRisk, minSavings, maxPayback) ==
    LET delta == s.odPrice - s.spotPrice
    IN  /\ s.odPrice > 0 /\ delta > 0
        /\ CompositeRisk(s) <= maxRisk
        /\ 100 * delta >= minSavings * s.odPrice
        /\ 10 * s.migrationCost <= maxPayback * delta

(* How far the pool's spot share is over its cap, in hundredths of a node. *)
OvershootOfWholeNodes(c, s, n, total) ==
    100 * (n - (EffectiveCap(c, s) * total + 99) \div 100)
Overshoot(c, s, n, total) == 100 * n - EffectiveCap(c, s) * total

Decision(a)  == [action |-> a, freeze |-> FALSE]
FreezeSpot   == [action |-> "hold", freeze |-> TRUE]

(* A pool over its cap is reduced, the faster the further it is over. *)
Reduce(over, total, safety) ==
    IF over >= 25 * total \/ safety.risk >= 85 \/ safety.slack < 0
    THEN Decision("decrease30") ELSE Decision("decrease10")

(* Evaluate: the first rule that applies. *)
Evaluate(c, s, n, total) ==
    LET risk   == CompositeRisk(s)
        safety == Safety(s.safety)
        over   == Overshoot(c, s, n, total)
    IN  IF risk >= c.emergency \/ s.runtime >= c.runtimeEmergency THEN Decision("exit")
        ELSE IF risk >= c.high THEN Decision("decrease30")
        ELSE IF risk >= c.medium THEN Decision("decrease10")
        ELSE IF over > 0 THEN Reduce(over, total, safety)
        ELSE IF over = 0 \/ safety.risk >= 60 THEN FreezeSpot
        ELSE IF OutOfDistribution(c, s) /\ c.conservative
             THEN IF CanIncrease(s, c.oodMaxRisk, c.oodMinSavings, c.oodMaxPayback)
                  THEN Decision("increase10") ELSE Decision("hold")
        ELSE IF CanIncrease(s, c.medium, c.minSavings, c.maxPayback)
             THEN IF -over >= 25 * total
                  THEN Decision("increase30") ELSE Decision("increase10")
        ELSE Decision("hold")
=============================================================================
