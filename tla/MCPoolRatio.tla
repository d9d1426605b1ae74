----------------------------- MODULE MCPoolRatio -----------------------------
(* Configurations and signals for TLC.  Priority stands for the features   *)
(* that are ratios and that detectOOD knows, migration for the others; the *)
(* rules are the built-in ones.                                            *)
EXTENDS PoolRatio, TLC

Features    == {"priority", "migration"}
Ratios      == {"priority"}
R(t, m)     == [threshold |-> t, max |-> m]
BuiltInRules ==
    ("priority" :> {R(90, 20), R(70, 50), R(45, 80)}) @@
    ("migration" :> {R(8, 20), R(5, 30), R(2, 60)})
BuiltInBuckets == [f \in Ratios |-> [known |-> TRUE, lo |-> 0, hi |-> 100]]

(* Empty, contradictory, RL, and RL with the shadow it does not support.   *)
Contradictory ==
    [Unset EXCEPT !.minSpot = 60, !.maxSpot = 40, !.target = 120, !.emergency = 70,
                  !.high = 95, !.medium = 80,
                  !.rules["priority"] = {R(-5, 130), R(150, -20)}]
ConfigFiles ==
    {Unset, Contradictory, [Unset EXCEPT !.deterministic = FALSE],
     [Unset EXCEPT !.deterministic = FALSE, !.shadow = TRUE]}

Healthy == [risk |-> 0, slack |-> 1, safeMax |-> 100, other |-> TRUE]

Calm ==
    [telemetry |-> TRUE, supported |-> TRUE, rlOK |-> TRUE, rl |-> "increase30",
     rlConfidence |-> 90, capacity |-> 10, runtime |-> 10,
     features |-> ("priority" :> 50) @@ ("migration" :> 1), safety |-> Healthy,
     odPrice |-> 10, spotPrice |-> 4, migrationCost |-> 1, util |-> 50]

(* One signal for every rule of the policy, ... *)
Foreign == [Calm EXCEPT !.features["priority"] = 120]
Variations ==
    {Foreign,
     [Calm EXCEPT !.safety = [risk |-> 70, slack |-> 0, safeMax |-> 50, other |-> TRUE]],
     [Calm EXCEPT !.safety = [risk |-> 20, slack |-> -1, safeMax |-> 40, other |-> TRUE]],
     [Calm EXCEPT !.safety = [risk |-> 0, slack |-> 0, safeMax |-> 0, other |-> FALSE]],
     [Calm EXCEPT !.spotPrice = 9],
     [Calm EXCEPT !.util = 90], [Calm EXCEPT !.util = 96, !.rl = "decrease30"],
     [Calm EXCEPT !.telemetry = FALSE], [Calm EXCEPT !.supported = FALSE],
     [Calm EXCEPT !.rlOK = FALSE], [Calm EXCEPT !.rlConfidence = 40]}

Scored(S, capacities, runtimes) ==
    {[s EXCEPT !.capacity = x, !.runtime = y] : s \in S, x \in capacities, y \in runtimes}

(* ... some of them at several scores, and any market for a pool whose cap *)
(* is half of it.                                                          *)
Half == [Calm EXCEPT !.features["priority"] = 70]
AllSignals ==
    Scored(Variations, {10}, {10}) \cup Scored({Calm, Foreign}, {30}, {10})
    \cup Scored({Half}, {10, 40, 70, 95}, {10}) \cup Scored({Half}, {10}, {85})
=============================================================================
