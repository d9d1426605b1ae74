------------------------------ MODULE PoolRatio ------------------------------
(***************************************************************************)
(* One pool under the agent: every cycle measures the pool's spot share    *)
(* and its signals, decides one action for the pool (runInference and      *)
(* runPoolLevelInference of internal/controller/controller.go), and drains *)
(* nodes of one capacity type.  A drain only cordons and evicts: the node  *)
(* stays listed, and counted, until its instance goes, and new nodes come  *)
(* when they come and with the type their provisioner gives them.          *)
(* Selection, limits and guardrails are the ones Reconcile uses; here they *)
(* act on counts of nodes.                                                 *)
(***************************************************************************)
EXTENDS Selection, Policy

CONSTANTS
    MaxNodes,          \* bound: nodes of the pool at any time
    OtherNodes,        \* other nodes in the metrics
    OtherSpot,         \* spot nodes among them
    RawConfigs,        \* contents of config/runtime.json; Unset if unreadable
    Signals            \* what a cycle may measure and infer

RawConfig ==
    [deterministic : BOOLEAN, shadow : BOOLEAN, minSpot : Int, maxSpot : Int,
     target : Int, emergency : Int, runtimeEmergency : Int, high : Int, medium : Int,
     minSavings : Int, maxPayback : Int, conservative : BOOLEAN, oodMaxRisk : Int,
     oodMinSavings : Int, oodMaxPayback : Int,
     rules : [Feature -> SUBSET [threshold : Int, max : Int]],
     buckets : [OODFeature -> [known : BOOLEAN, lo : Int, hi : Int]]]

(* What loading makes of it. *)
Rule == [threshold : Nat, max : Percent]
Config ==
    [deterministic : BOOLEAN, shadow : BOOLEAN, minSpot : Percent, maxSpot : Percent,
     target : Percent, emergency : Percent, runtimeEmergency : Percent, high : Percent,
     medium : Percent, minSavings : Percent, maxPayback : Nat, conservative : BOOLEAN,
     oodMaxRisk : Percent, oodMinSavings : Percent, oodMaxPayback : Nat,
     rules : [Feature -> SUBSET Rule],
     buckets : [OODFeature -> [known : BOOLEAN, lo : Int, hi : Int]]]

Signal ==
    [telemetry : BOOLEAN, supported : BOOLEAN, rlOK : BOOLEAN, rl : Action,
     rlConfidence : Percent, capacity : Percent, runtime : Percent,
     features : [Feature -> Int],
     safety : [risk : Int, slack : Int, safeMax : Int, other : BOOLEAN],
     odPrice : Nat, spotPrice : Nat, migrationCost : Nat, util : Percent]

ASSUME PoolRatioAssumption ==
    /\ MaxNodes \in Nat \ {0} /\ OtherNodes \in Nat /\ OtherSpot \in 0..OtherNodes
    /\ OODFeature \subseteq Feature /\ UnitFeature \subseteq Feature
    /\ DefaultRules \in [Feature -> SUBSET [threshold : Int, max : Int]]
    /\ DefaultBuckets \in [OODFeature -> [known : BOOLEAN, lo : Int, hi : Int]]
    /\ RawConfigs \subseteq RawConfig /\ Signals \subseteq Signal

Kind == {"spot", "on-demand"}

VARIABLES
    nodes,             \* listed nodes of the pool by capacity type
    idle,              \* those among them that are drained and cordoned
    cfg,               \* the configuration this cycle loaded
    sig,               \* the signals it measured
    start,             \* the pool's spot nodes at that time
    act,               \* the pool's action
    left               \* nodes selected and not yet executed

vars == <<nodes, idle, cfg, sig, start, act, left>>

(* counts.spot and counts.total: a cordoned node is counted like any. *)
Listed   == nodes["spot"] + nodes["on-demand"]
Counts   == [spot : 0..MaxNodes, total : 0..MaxNodes]
Measured == [spot |-> nodes["spot"], total |-> Listed]

-----------------------------------------------------------------------------
(* A pool without prices or risk scores has no assessment; a failing RL    *)
(* model only matters in RL mode.  An unsupported instance family leaves   *)
(* spot whatever the signals say.                                          *)
Assessed(c, s) == ~s.supported \/ (s.telemetry /\ (c.deterministic \/ s.rlOK))

Unsupported == [action |-> "exit", freeze |-> FALSE, score |-> 100, confidence |-> 100]

Assess(c, s, n) ==
    IF ~s.supported THEN Unsupported
    ELSE IF c.deterministic
    THEN LET e == Evaluate(c, s, n.spot, n.total)
         IN  [action |-> e.action, freeze |-> e.freeze,
              score |-> s.capacity, confidence |-> 100]
    ELSE [action |-> s.rl, freeze |-> FALSE,
          score |-> s.capacity, confidence |-> s.rlConfidence]

(* The action filterActionableNodes leaves; a pool without nodes has none. *)
Decide(c, s, n) ==
    LET a == Assess(c, s, n)
    IN  IF n.total > 0 /\ Assessed(c, s) /\ Actionable(a) THEN Upgraded(a).action ELSE "hold"

(* The pool's action goes to all its nodes; those of the fitting capacity  *)
(* type are candidates, drained ones as well, and the limit of the whole   *)
(* cluster caps them.                                                      *)
Drained(a) == CASE a \in Increase -> {"on-demand"}
                [] a \in Decrease -> {"spot"}
                [] OTHER          -> {}

Candidates(a, n) == CASE a \in Increase -> n.total - n.spot
                      [] a \in Decrease -> n.spot
                      [] OTHER          -> 0

Selected(a, n) == Lower(Candidates(a, n), MaxDrain(n.total + OtherNodes))

(* The confidence every node of the pool carries to the guardrails. *)
Confidence == IF sig.supported /\ ~cfg.deterministic THEN sig.rlConfidence ELSE 100

(* Both guardrail passes; in between the number of spot nodes may have     *)
(* changed, and each pass sees the pods as they are then.                  *)
Guarded(pods, podsNow) ==
    LET r == Check(act, start + OtherSpot, Confidence, sig.util, pods)
    IN  IF r.approved
        THEN Check(r.action, nodes["spot"] + OtherSpot, Confidence, sig.util, podsNow)
        ELSE r

-----------------------------------------------------------------------------
(* loadRuntimeConfig at the start of a cycle. *)
Loaded == {Load(c) : c \in RawConfigs}

Init ==
    /\ nodes \in [Kind -> 0..MaxNodes] /\ Listed <= MaxNodes
    /\ idle = [k \in Kind |-> 0]
    /\ start = nodes["spot"]
    /\ cfg \in Loaded /\ sig \in Signals
    /\ act = "hold" /\ left = 0

Tick ==
    /\ left = 0
    /\ cfg' \in Loaded /\ sig' \in Signals
    /\ act' = Decide(cfg', sig', Measured)
    /\ left' = Selected(act', Measured)
    /\ start' = nodes["spot"]
    /\ UNCHANGED <<nodes, idle>>

(* executeAction for one node: the guardrails block it, its drain fails,   *)
(* or it has been drained by an earlier cycle; ...                         *)
Skip ==
    /\ left > 0 /\ left' = left - 1
    /\ UNCHANGED <<nodes, idle, cfg, sig, start, act>>

(* ... or its drain succeeds. *)
Drain ==
    /\ left > 0 /\ left' = left - 1
    /\ \E pods, podsNow \in PodFacts : Guarded(pods, podsNow).approved
    /\ \E k \in Drained(act) :
          /\ idle[k] < nodes[k]
          /\ idle' = [idle EXCEPT ![k] = @ + 1]
    /\ UNCHANGED <<nodes, cfg, sig, start, act>>

(* The provisioner adds a node, replacement or not, of either type. *)
Arrive(k) ==
    /\ Listed < MaxNodes
    /\ nodes' = [nodes EXCEPT ![k] = @ + 1]
    /\ UNCHANGED <<idle, cfg, sig, start, act, left>>

(* An empty node is removed. *)
Leave(k) ==
    /\ idle[k] > 0
    /\ idle' = [idle EXCEPT ![k] = @ - 1] /\ nodes' = [nodes EXCEPT ![k] = @ - 1]
    /\ UNCHANGED <<cfg, sig, start, act, left>>

(* A spot node in use is taken back. *)
Interrupt ==
    /\ nodes["spot"] > idle["spot"]
    /\ nodes' = [nodes EXCEPT !["spot"] = @ - 1]
    /\ UNCHANGED <<idle, cfg, sig, start, act, left>>

Next == Tick \/ Skip \/ Drain \/ (\E k \in Kind : Arrive(k) \/ Leave(k)) \/ Interrupt

(* Start's ticker goes on, and a cycle's calls return, with whatever       *)
(* outcome.  Nothing is assumed of drains and provisioning here: what      *)
(* OverCapRecovers needs of them are hypotheses of its own.                *)
Spec == Init /\ [][Next]_vars /\ WF_vars(Tick) /\ WF_vars(Skip \/ Drain)

-----------------------------------------------------------------------------
(* Types, no more nodes drained than there are; whatever the file says,    *)
(* the loaded bounds and risk bands are ordered.                           *)
TypeOK ==
    /\ nodes \in [Kind -> 0..MaxNodes] /\ Listed <= MaxNodes
    /\ idle \in [Kind -> 0..MaxNodes] /\ \A k \in Kind : idle[k] <= nodes[k]
    /\ start \in 0..MaxNodes /\ act \in Action /\ left \in 0..MaxNodes
    /\ sig \in Signals /\ cfg \in Config
    /\ cfg.minSpot <= cfg.target /\ cfg.target <= cfg.maxSpot
    /\ cfg.medium <= cfg.high /\ cfg.high <= cfg.emergency

(* The response to risk: with everything else equal, higher scores never   *)
(* lead to an action that keeps more spot, except that a pool over its cap *)
(* may be reduced at either pace.                                          *)
Rank(a) == CASE a = "exit" -> 0       [] a = "decrease30" -> 1 [] a = "decrease10" -> 2
             [] a = "hold" -> 3       [] a = "increase10" -> 4 [] OTHER -> 5

Worse(s, t) == /\ s.capacity <= t.capacity /\ s.runtime <= t.runtime
               /\ t = [s EXCEPT !.capacity = t.capacity, !.runtime = t.runtime]

RiskMonotone ==
    \A t \in Signals : cfg.deterministic /\ Worse(sig, t) =>
        LET a == Decide(cfg, sig, Measured)
            b == Decide(cfg, t, Measured)
        IN  \/ Rank(b) <= Rank(a)
            \/ /\ 100 * nodes["spot"] > EffectiveCap(cfg, sig) * Listed
               /\ {a, b} \subseteq Decrease \ {"exit"}

Over  == Measured \in {n \in Counts : 100 * n.spot > EffectiveCap(cfg, sig) * n.total}
Under == Measured \in {n \in Counts : 100 * n.spot < EffectiveCap(cfg, sig) * n.total}

(* The policy is in charge, and utilization does not keep the guardrails   *)
(* from letting a decrease pass.                                           *)
Governed == /\ cfg.deterministic /\ sig.supported /\ sig.telemetry
            /\ sig.util <= 95

(* Which way a cycle pulls, whatever the market, the safety vector and the *)
(* file: a cycle that measures a share over the cap selects spot nodes to  *)
(* drain, and one that selects on-demand nodes has measured a share below  *)
(* the cap.                                                                *)
CapPulls ==
    [][Tick => /\ Governed' /\ Over' => act' \in Decrease /\ left' > 0
               /\ cfg'.deterministic /\ act' \in Increase => Under']_vars

CapStays == EffectiveCap(cfg', sig') = EffectiveCap(cfg, sig)

(* A pool over its cap comes back under it, or down to the few spot nodes  *)
(* of the cluster that checkClusterFraction does not give up, whatever     *)
(* risk, prices and interruptions do meanwhile, provided that              *)
(*  - the policy is in charge and the cap stays where it is,               *)
(*  - drains that pass the guardrails again and again succeed some time,   *)
(*  - drained spot nodes are removed, and                                  *)
(*  - no spot nodes are added to a pool over its cap.                      *)
OverCapRecovers ==
    /\ <>[]Governed /\ <>[][CapStays /\ (Over => ~Arrive("spot"))]_vars
    /\ SF_vars(Drain) /\ WF_vars(Leave("spot"))
    => []<>(~Over \/ FractionTooHigh(nodes["spot"] + OtherSpot))

(* "Limit drains per pool based on target ratio delta" (the comment on     *)
(* applyDrainLimit), as far as it does not depend on the target: but for   *)
(* emergencies a cycle takes no more of a pool than maxDrainRatio of the   *)
(* pool's own nodes, or one, the most calculatePoolDrainCount allows.      *)
PoolLimited ==
    [][Tick /\ act' # "exit" => left' <= MaxDrain(Listed)]_vars
=============================================================================
