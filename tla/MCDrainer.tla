------------------------------ MODULE MCDrainer ------------------------------
(* A node with a plain, a StatefulSet and a DaemonSet pod, and a pod that  *)
(* waits for a place; the first two share a disruption budget.             *)
EXTENDS Drainer, TLC

CONSTANTS web, db, agent, queued

Pods  == {web, db, agent, queued}
Kinds == (web :> "plain") @@ (db :> "stateful") @@ (agent :> "daemonset") @@ (queued :> "plain")
=============================================================================
