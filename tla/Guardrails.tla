----------------------------- MODULE Guardrails -----------------------------
(***************************************************************************)
(* The guardrail checks of internal/controller/guardrails.go, as operators *)
(* on the facts the checker reads.  Ratios are whole percentages.  The     *)
(* pods of a node are summarised by the two facts the checker looks for:   *)
(* some pod is covered by a PodDisruptionBudget that allows 0 disruptions, *)
(* and some pod is annotated critical or graceful-only.                    *)
(***************************************************************************)
EXTENDS Naturals

CONSTANT
    MaxDrainPct        \* Controller.maxDrainRatio, also clusterFractionLimit

ASSUME MaxDrainPctAssumption == MaxDrainPct \in 1..100

Increase == {"increase10", "increase30"}
Decrease == {"decrease10", "decrease30", "exit"}
Action   == {"hold"} \cup Increase \cup Decrease

Percent == 0..100

PodFacts == [pdbExhausted : BOOLEAN, critical : BOOLEAN]

-----------------------------------------------------------------------------
Approve(a) == [approved |-> TRUE,  action |-> a]
Block(a)   == [approved |-> FALSE, action |-> a]

(* One action is 1/spotNodes of the cluster; only spot nodes are counted,  *)
(* and a cluster without any passes.                                       *)
FractionTooHigh(spotNodes) ==
    spotNodes > 0 /\ 100 > MaxDrainPct * spotNodes

LowConfidence(confidence) == confidence < 50

(* checkPDB and checkCriticalWorkloads look at EMERGENCY_EXIT only.        *)
MustBeGraceful(a, pods) ==
    a = "exit" /\ (pods.pdbExhausted \/ pods.critical)

(* checkHighUtilization: increases are exempt, an emergency is downgraded, *)
(* a decrease is refused only above 95%.                                   *)
CheckHighUtilizationBlocking(a, util) ==
    IF a \in Decrease /\ util > 85 THEN Block(a) ELSE Approve(a)

CheckHighUtilization(a, util) ==
    CASE a \notin Decrease \/ util <= 85     -> Approve(a)
      [] a = "exit" /\ util > 85             -> Approve("decrease30")
      [] a \in Decrease \ {"exit"} /\ util > 95 -> Block(a)
      [] OTHER                               -> Approve(a)

(* GuardrailChecker.Check: the first check that objects decides. *)
Check(a, spotNodes, confidence, util, pods) ==
    CASE a = "hold" -> Approve(a)
      [] a # "hold" /\ (FractionTooHigh(spotNodes) \/ LowConfidence(confidence))
           -> Block(a)
      [] OTHER -> IF MustBeGraceful(a, pods)
                  THEN Approve("decrease30")
                  ELSE CheckHighUtilization(a, util)
=============================================================================
