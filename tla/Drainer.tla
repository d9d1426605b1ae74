------------------------------- MODULE Drainer -------------------------------
(***************************************************************************)
(* Drainer.Drain (internal/controller/drain.go) on one node: cordon, list  *)
(* the pods, evict them one by one.  The scheduler, the workload           *)
(* controllers, the kubelet and the disruption budgets go on working       *)
(* between the calls.  A pod is known by its name, as in the Eviction API: *)
(* a StatefulSet recreates a pod under the same name.                      *)
(***************************************************************************)
EXTENDS Naturals, FiniteSets

CONSTANTS
    Pod,
    Kind,              \* Pod -> "plain", "stateful", "daemonset" or "mirror"
    Budgeted,          \* the pods one PodDisruptionBudget covers
    MaxAllowed,        \* its largest disruptionsAllowed
    InitHere,          \* the pods on the node at the start
    GracePeriod,       \* an evicted pod stays until the kubelet is done
    Modes,             \* the ways the agent may be started
    IgnoreDaemonSets, ForceDrain,
    MaxDrains,         \* bound: calls of Drain
    MaxChanges         \* bound: pods ended, placed or recreated by others

ASSUME DrainerAssumption ==
    /\ Kind \in [Pod -> {"plain", "stateful", "daemonset", "mirror"}]
    /\ Budgeted \subseteq Pod /\ InitHere \subseteq Pod
    /\ {GracePeriod, IgnoreDaemonSets, ForceDrain} \subseteq BOOLEAN
    /\ Modes \subseteq {"live", "dry-run"}
    /\ MaxAllowed \in Nat /\ MaxDrains \in Nat /\ MaxChanges \in Nat
    /\ IsFiniteSet(Pod)

VARIABLES
    cordoned,          \* Spec.Unschedulable
    loc,               \* where the pod of that name is
    allowed,           \* disruptionsAllowed of the budget
    pc,
    list,              \* the pods getPodsOnNode returned
    rest,              \* those the loop has not reached
    failed,            \* PodsFailed > 0
    outcome,           \* of the last Drain
    reopened,          \* somebody uncordoned the node since it was cordoned
    late,              \* pods bound to the cordoned node since the list
    reborn,            \* pods recreated under their names since the list
    hit,               \* pods the drain evicted
    stray,             \* pods it evicted that were not on the node
    mode,              \* "live" or "dry-run", fixed at start-up
    drains, changes

clusterVars == <<cordoned, loc, allowed>>
callVars    == <<pc, list, rest, failed, outcome>>
historyVars == <<reopened, late, reborn, hit, stray>>
boundVars   == <<mode, drains, changes>>
vars == <<clusterVars, callVars, historyVars, boundVars>>

Place == {"pending", "here", "leaving", "away", "gone"}
HereOrNot == {p \in Pod : loc[p] # "gone"}
Here  == {p \in Pod : loc[p] \in {"here", "leaving"}}

(* Types; outside a call nothing is left to do. *)
TypeOK ==
    /\ cordoned \in BOOLEAN /\ loc \in [Pod -> Place]
    /\ allowed \in 0..MaxAllowed
    /\ pc \in {"idle", "cordon", "list", "evict"}
    /\ list \subseteq Pod /\ rest \subseteq list
    /\ failed \in BOOLEAN /\ outcome \in {"none", "success", "failure"}
    /\ reopened \in BOOLEAN /\ late \subseteq Pod /\ reborn \subseteq Pod
    /\ hit \subseteq Pod /\ stray \subseteq hit /\ mode \in Modes
    /\ drains \in 0..MaxDrains /\ changes \in 0..MaxChanges
    /\ pc # "evict" => rest = {}
    /\ outcome # "none" => pc = "idle"

Init ==
    /\ cordoned = FALSE
    /\ loc = [p \in Pod |-> IF p \in InitHere THEN "here" ELSE "pending"]
    /\ allowed \in 0..MaxAllowed
    /\ pc = "idle" /\ list = {} /\ rest = {} /\ failed = FALSE /\ outcome = "none"
    /\ reopened = FALSE /\ late = {} /\ reborn = {} /\ hit = {} /\ stray = {}
    /\ mode \in Modes /\ drains = 0 /\ changes = 0

-----------------------------------------------------------------------------
(* Each call starts with an empty DrainResult. *)
NewResultReused == UNCHANGED <<failed, outcome>>
NewResult == failed' = FALSE /\ outcome' = "none"

Begin ==
    /\ pc = "idle" /\ drains < MaxDrains /\ drains' = drains + 1
    /\ pc' = "cordon" /\ list' = {} /\ rest' = {}
    /\ NewResult
    /\ reopened' = FALSE /\ late' = {} /\ reborn' = {} /\ hit' = {} /\ stray' = {}
    /\ UNCHANGED <<clusterVars, mode, changes>>

Abort == pc' = "idle" /\ outcome' = "failure" /\ rest' = {}

(* Step 1: cordonNode.  The Get or the Update may fail (a conflicting      *)
(* write makes it fail), the latter possibly after its effect.             *)
CordonEvenIfDry ==
    /\ pc = "cordon"
    /\ pc' = "list" /\ cordoned' = TRUE
    /\ UNCHANGED <<loc, allowed, list, rest, failed, outcome, historyVars, boundVars>>
CordonNode ==
    /\ pc = "cordon"
    /\ \/ /\ pc' = "list" /\ UNCHANGED <<rest, outcome>>
          /\ cordoned' = IF mode = "live" THEN TRUE ELSE cordoned
       \/ mode = "live" /\ Abort /\ cordoned' \in {cordoned, TRUE}
    /\ UNCHANGED <<loc, allowed, list, failed, historyVars, boundVars>>

(* Step 2: getPodsOnNode. *)
ListPods ==
    /\ pc = "list"
    /\ \/ Abort /\ UNCHANGED list
       \/ pc' = "evict" /\ list' = Here /\ rest' = Here /\ UNCHANGED outcome
    /\ late' = {} /\ reborn' = {}
    /\ UNCHANGED <<clusterVars, failed, reopened, hit, stray, boundVars>>

(* Step 3: DaemonSet and mirror pods stay. *)
Skipped(p) ==
    Kind[p] = "mirror" \/ (IgnoreDaemonSets /\ Kind[p] = "daemonset")

SkipPod(p) ==
    /\ pc = "evict" /\ p \in rest /\ Skipped(p)
    /\ rest' = rest \ {p}
    /\ UNCHANGED <<clusterVars, pc, list, failed, outcome, historyVars, boundVars>>

(* The Eviction API: a pod that is on its way out goes without asking the  *)
(* budget, any other one is deleted if its budget allows it.               *)
Refused(p) == loc[p] \in {"here", "away", "pending"} /\ p \in Budgeted /\ allowed = 0

Evict(p) ==
    /\ loc' = [loc EXCEPT ![p] = IF @ = "here" /\ GracePeriod THEN "leaving" ELSE "gone"]
    /\ allowed' = IF p \in Budgeted /\ loc[p] \notin {"leaving", "gone"}
                  THEN allowed - 1 ELSE allowed
    /\ hit' = IF loc[p] = "gone" THEN hit ELSE hit \cup {p}
    /\ stray' = IF loc[p] \in {"away", "pending"} THEN stray \cup {p} ELSE stray

(* evictPod succeeds: in a dry run without a call, else for a pod that is  *)
(* not found or one the API accepted.                                      *)
EvictPod(p) ==
    /\ pc = "evict" /\ p \in rest /\ ~Skipped(p)
    /\ rest' = rest \ {p}
    /\ \/ mode = "dry-run" /\ UNCHANGED <<loc, allowed, hit, stray>>
       \/ mode = "live" /\ ~Refused(p) /\ Evict(p)
    /\ UNCHANGED <<cordoned, pc, list, failed, outcome, reopened, late, reborn, boundVars>>

(* evictPod fails: refused by the budget, or an error, possibly after the  *)
(* effect.  Without ForceDrain the drain ends here.                        *)
AfterFailureForgiven(p) == rest' = rest \ {p} /\ UNCHANGED <<pc, outcome, failed>>
AfterFailureRetried(p)  == UNCHANGED <<pc, outcome, failed, rest>>
AfterFailure(p) ==
    /\ failed' = TRUE
    /\ IF ForceDrain THEN rest' = rest \ {p} /\ UNCHANGED <<pc, outcome>> ELSE Abort

EvictFails(p) ==
    /\ pc = "evict" /\ p \in rest /\ ~Skipped(p) /\ mode = "live"
    /\ \/ UNCHANGED <<loc, allowed, hit, stray>>
       \/ ~Refused(p) /\ Evict(p)
    /\ AfterFailure(p)
    /\ UNCHANGED <<cordoned, list, reopened, late, reborn, boundVars>>

(* Every pod was reached: Success = (PodsFailed == 0). *)
Finish ==
    /\ pc = "evict" /\ rest = {}
    /\ pc' = "idle" /\ outcome' = IF failed THEN "failure" ELSE "success"
    /\ UNCHANGED <<clusterVars, list, rest, failed, historyVars, boundVars>>

-----------------------------------------------------------------------------
(* The others, at most MaxChanges times: a pod ends, is placed or is       *)
(* recreated; somebody uncordons the node.  Budgets move freely.           *)
Other == changes < MaxChanges /\ changes' = changes + 1

PodEnds(p) ==
    /\ Other /\ loc[p] \in {"here", "away", "leaving"}
    /\ loc' = [loc EXCEPT ![p] = "gone"]
    /\ UNCHANGED <<cordoned, allowed, callVars, historyVars, mode, drains>>

Recreate(p) ==
    /\ Other /\ Kind[p] = "stateful" /\ loc[p] = "gone"
    /\ loc' = [loc EXCEPT ![p] = "pending"] /\ reborn' = reborn \cup {p}
    /\ UNCHANGED <<cordoned, allowed, callVars, reopened, late, hit, stray, mode, drains>>

(* The scheduler avoids a cordoned node, but a decision it took before the *)
(* cordon may still land, and DaemonSet pods are placed regardless.        *)
Bind(p) ==
    /\ Other /\ loc[p] = "pending"
    /\ \/ loc' = [loc EXCEPT ![p] = "away"] /\ UNCHANGED late
       \/ /\ loc' = [loc EXCEPT ![p] = "here"]
          /\ late' = IF cordoned THEN late \cup {p} ELSE late
    /\ UNCHANGED <<cordoned, allowed, callVars, reopened, reborn, hit, stray, mode, drains>>

Uncordon ==
    /\ Other /\ cordoned /\ cordoned' = FALSE /\ reopened' = TRUE
    /\ UNCHANGED <<loc, allowed, callVars, late, reborn, hit, stray, mode, drains>>

BudgetMoves ==
    /\ allowed' \in (0..MaxAllowed) \ {allowed}
    /\ UNCHANGED <<cordoned, loc, callVars, historyVars, boundVars>>

Drain ==
    \/ CordonNode \/ ListPods \/ Finish
    \/ \E p \in Pod : SkipPod(p) \/ EvictPod(p) \/ EvictFails(p)

Others ==
    \/ \E p \in Pod : PodEnds(p) \/ Recreate(p) \/ Bind(p)
    \/ Uncordon \/ BudgetMoves

Next == Begin \/ Drain \/ Others

(* That a call to the API server returns, with whatever answer, is an      *)
(* assumption: Drain sets no deadline (DrainConfig.Timeout is never read). *)
(* Nothing is owed by the others.                                          *)
Spec == Init /\ [][Next]_vars /\ WF_vars(Drain)

-----------------------------------------------------------------------------
(* The success that lets the controller terminate the instance: unless     *)
(* somebody reopened the node, nothing runs there but pods that were       *)
(* skipped, are on their way out, or whose binding was under way when the  *)
(* node was cordoned and landed after the list.                            *)
EvacuatedOnSuccess ==
    outcome = "success" /\ mode = "live" /\ ~reopened
        => \A p \in Pod \ late : loc[p] = "here" => Skipped(p)

(* A dry run leaves the node schedulable and its pods alone.               *)
DryRunInert == mode = "dry-run" => ~cordoned /\ hit = {}

(* A pod is evicted only from a node that has been cordoned since this     *)
(* drain began: its successor cannot be placed there again.                *)
CordonedBeforeEviction == hit # {} => cordoned \/ reopened

(* Drain comes back, whatever the budgets and the other actors do.         *)
DrainReturns == (pc # "idle") ~> (pc = "idle")

(* The Eviction names a pod and not the object that was listed, so it may  *)
(* hit a pod that is not on the node, pending or placed elsewhere; but     *)
(* only one that was recreated under a listed name since the list.         *)
StraysWereRecreated == stray \subseteq reborn
=============================================================================
