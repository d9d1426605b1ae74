----------------------------- MODULE MCReconcile -----------------------------
(* Small clusters for TLC: which nodes there are, what inference may say.  *)
EXTENDS Reconcile, TLC

CONSTANTS n1, n2, p1, p2

Nodes == {n1, n2}

(* Labels of a node in a managed node group, of one of the cluster         *)
(* autoscaler's groups and of a Karpenter node.                            *)
Base(p) == [capacity |-> <<Absent, Absent, Absent, Absent>>, nodepool |-> FALSE,
            nodegroup |-> FALSE, manager |-> Absent, pool |-> p,
            type |-> "m5", zone |-> "a"]
InGroup(p, c)   == [Base(p) EXCEPT !.nodegroup = TRUE, !.capacity[3] = c]
InASG(p, c)     == [Base(p) EXCEPT !.manager = "cluster-autoscaler", !.capacity[4] = c]
ByKarpenter(p, c) == [Base(p) EXCEPT !.nodepool = TRUE, !.capacity[1] = c]

(* A spot node in a node group and an on-demand one in a Karpenter pool;   *)
(* or both nodes in the twin groups of one pool.                           *)
MixedLabels == (n1 :> InGroup(p1, "SPOT")) @@ (n2 :> ByKarpenter(p2, "on-demand"))
TwinLabels  == (n1 :> InASG(p1, "spot")) @@ (n2 :> InGroup(p1, "ON_DEMAND"))

StartLabels == {[n \in Nodes |-> "managed"]}

A(action, score, util, freeze) ==
    [action |-> action, score |-> score, confidence |-> 90, util |-> util,
     freeze |-> freeze]

(* One assessment per way through the pipeline: an increase (the RL model  *)
(* may want one at any score), a freeze, an at-risk node, and an emergency *)
(* in a busy cluster.                                                      *)
CoreAssessments ==
    {A("increase10", 75, 50, FALSE), A("hold", 10, 50, TRUE),
     A("hold", 90, 50, FALSE), A("exit", 70, 96, FALSE)}

TwinAssessments == {A("increase10", 10, 50, FALSE), A("hold", 90, 50, FALSE)}

(* The Karpenter pool p2 has counts and a percentage that do not agree;     *)
(* or a budget that stops everything beside one that does not parse.       *)
B(kind, n) == [kind |-> kind, n |-> n]
Budgets(spot, od) ==
    [p \in {p1, p2} |-> ("spot" :> IF p = p2 THEN spot ELSE {})
                        @@ ("on-demand" :> IF p = p2 THEN od ELSE {})]
SomeBudgets == {Budgets({B("count", 1)}, {B("percent", 50), B("count", 5)}),
                Budgets({B("invalid", 0), B("percent", 0)}, {})}
NoBudgets   == {[p \in {p1} |-> [c \in Capacity |-> {}]]}
=============================================================================
