------------------------------ MODULE NodeLabels ------------------------------
(***************************************************************************)
(* What the agent reads off a node's labels: its capacity type             *)
(* (internal/capacity/capacity_type.go), the provisioner that manages it   *)
(* (detector.go, router.go) and the pool ids (internal/collector,          *)
(* internal/controller).                                                   *)
(*                                                                         *)
(* Labels l are a record: capacity holds the values of the four capacity   *)
(* labels in the order they are consulted (karpenter.sh/capacity-type,     *)
(* spotvortex.io/capacity-type, eks.amazonaws.com/capacityType,            *)
(* node.kubernetes.io/lifecycle); nodepool and nodegroup say whether       *)
(* karpenter.sh/nodepool and eks.amazonaws.com/nodegroup are there;        *)
(* manager is spotvortex.io/manager; pool, type and zone are the workload  *)
(* pool, the instance type and the zone.                                   *)
(***************************************************************************)
EXTENDS Integers

Absent == "absent"     \* the node does not have the label

(* NormalizeCapacityType on the spellings it folds. *)
Normalize(v) ==
    CASE v \in {"spot", "SPOT", "ec2spot"}                        -> "spot"
      [] v \in {"on-demand", "ON_DEMAND", "ondemand", "normal",
                "ec2ondemand", "ec2-on-demand"}                  -> "on-demand"
      [] v \in {"reserved", "capacity-block", "capacityblock"}  -> "reserved"
      [] v = Absent                                             -> ""
      [] OTHER                                                  -> v

(* CapacityTypeFromLabels: the first label that says anything. *)
CapacityType(l) ==
    LET given == {i \in 1..4 : Normalize(l.capacity[i]) # ""}
    IN  IF given = {} THEN ""
        ELSE Normalize(l.capacity[CHOOSE i \in given : \A j \in given : i <= j])

IsSpot(l) == CapacityType(l) = "spot"

(* DetectManager: an override it knows, Karpenter, a managed node group. *)
ASGManager == {"cluster-autoscaler", "managed-nodegroup"}
Manager    == ASGManager \cup {"karpenter"}

DetectManager(l) ==
    IF l.manager \in Manager THEN l.manager
    ELSE IF l.nodepool \/ (l.capacity[1] # Absent /\ ~l.nodegroup) THEN "karpenter"
    ELSE IF l.nodegroup THEN "managed-nodegroup"
    ELSE "unknown"

(* Router.ManagerForNode: the two ASG managers stand in for each other. *)
ManagerForNode(l, registered) ==
    LET m == DetectManager(l)
    IN  IF m \in registered THEN {m}
        ELSE IF m \in ASGManager THEN ASGManager \cap registered
        ELSE {}

(* GetNodePoolID and GetExtendedPoolID. *)
OrUnknown(v) == IF v \in {"", Absent} THEN "unknown" ELSE v
PoolID(l) == <<OrUnknown(l.type), OrUnknown(l.zone)>>
ExtendedPoolID(l, noPool) ==
    IF l.pool = noPool THEN PoolID(l) ELSE <<l.pool, OrUnknown(l.type), OrUnknown(l.zone)>>

(* getPoolIDWithExtendedFormat takes the labels as they are. *)
ControllerPoolID(l, noPool, extended) ==
    IF extended /\ l.pool # noPool THEN <<l.pool, l.type, l.zone>> ELSE <<l.type, l.zone>>
=============================================================================
