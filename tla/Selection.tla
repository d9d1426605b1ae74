------------------------------ MODULE Selection ------------------------------
(***************************************************************************)
(* How an assessment becomes a candidate (filterActionableNodes of         *)
(* internal/controller/controller.go) and how many candidates one cycle    *)
(* may drain (applyDrainLimit).                                            *)
(***************************************************************************)
EXTENDS Guardrails

CONSTANTS RiskThreshold, ConfidenceThreshold        \* percent

ASSUME SelectionAssumption ==
    RiskThreshold \in Percent /\ ConfidenceThreshold \in Percent

(* Too little confidence drops a node; a score over the threshold turns    *)
(* any action into an emergency exit.                                      *)
AtRisk(a) == a.score > RiskThreshold

Actionable(a) ==
    /\ a.confidence >= ConfidenceThreshold
    /\ AtRisk(a) \/ a.action # "hold" \/ a.freeze

Upgraded(a) == IF AtRisk(a) THEN [a EXCEPT !.action = "exit"] ELSE a

(* maxDrainRatio of the reported nodes, rounded down, but at least one. *)
MaxDrain(t) ==
    LET k == (t * MaxDrainPct) \div 100 IN IF k < 1 THEN 1 ELSE k
=============================================================================
