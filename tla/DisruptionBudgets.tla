-------------------------- MODULE DisruptionBudgets --------------------------
(***************************************************************************)
(* NodePool disruption budgets as internal/karpenter/nodepool.go reads     *)
(* them.  A budget's "nodes" is a count, a percentage or a string that     *)
(* does not parse; schedules and reasons are read and ignored.             *)
(***************************************************************************)
EXTENDS Integers

NodeBudget == [kind : {"count", "percent", "invalid"}, n : Int]

(* parseNodeLimit: -1 for "no limit"; a percentage is one of all nodes. *)
NodeLimit(b, total) ==
    CASE b.kind = "count"   -> b.n
      [] b.kind = "percent" -> IF b.n <= 0 THEN 0 ELSE (total * b.n) \div 100
      [] OTHER              -> -1

(* The limits a set of budgets imposes: negative ones do not count. *)
Limits(budgets, total) == {NodeLimit(b, total) : b \in budgets} \cap Nat

(* The minimum the loops of GetEffectiveDisruptionLimit and                *)
(* getKarpenterDisruptionLimit arrive at, as a set of one: -1 if there is  *)
(* no limit.                                                               *)
MostRestrictive(limits) ==
    IF limits = {} THEN {-1} ELSE {l \in limits : \A m \in limits : l <= m}
=============================================================================
