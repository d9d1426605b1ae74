------------------------------ MODULE Reconcile ------------------------------
(***************************************************************************)
(* One agent's reconciliation cycle (internal/controller/controller.go)    *)
(* running beside a cluster that changes under it.  A cycle is a chain of  *)
(* API calls; every point at which another actor can get in between is a   *)
(* step of its own.  Capacity preparation, the drain and the post-drain    *)
(* cleanup are taken here by their outcome.                                *)
(***************************************************************************)
EXTENDS Integers, FiniteSets, Selection, DisruptionBudgets, NodeLabels

CONSTANTS
    Node,              \* nodes the metrics, the API server or both know of
    Pool,              \* workload pools (label spotvortex.io/pool)
    NoPool,            \* a node without that label
    Labels,            \* Node -> the labels NodeLabels explains
    ExtendedIDs,       \* karpenterCfg.UseExtendedPoolID
    Assessment,        \* the assessments inference may produce
    Totals,            \* numbers of nodes the metrics may report
    BudgetSpecs,       \* the disruption budgets the NodePools may have
    MinSpotRatio, MaxSpotRatio,              \* tenths
    SeedRatios,        \* tenths: pool ratios a fresh controller may measure
    KarpenterEnabled,  \* karpenterCfg.Enabled and a NodePool manager
    ASGEnabled,        \* Autoscaling.Enabled and an ASG client
    ManagedPools,      \* the pools the allowlist admits
    Modes,             \* the ways the agent may be started
    InitLabels,        \* the labellings the cluster may start with
    InitDesired,       \* desired capacity of every ASG at the start
    MaxTicks,          \* bound: cycles
    MaxChurn           \* bound: changes by others and agent crashes

Capacity == {"spot", "on-demand"}
Label    == {"managed", "unmanaged", "gone"}   \* unmanaged: control plane, fake too
Tenths   == 0..10
None     == "none"

PoolOf    == [n \in Node |-> Labels[n].pool]
Spot      == {n \in Node : IsSpot(Labels[n])}
Market    == {PoolID(Labels[n]) : n \in Node}
PoolKey   == [n \in Node |-> ControllerPoolID(Labels[n], NoPool, ExtendedIDs)]
RatioPool == {PoolKey[n] : n \in Node}

(* New registers the ASG manager for both kinds of groups. *)
Registered == (IF KarpenterEnabled THEN {"karpenter"} ELSE {})
              \cup (IF ASGEnabled THEN ASGManager ELSE {})

ASSUME ReconcileAssumption ==
    /\ IsFiniteSet(Node) /\ NoPool \notin Pool /\ None \notin Node
    /\ \A n \in Node : Labels[n].pool \in Pool \cup {NoPool}
    /\ ExtendedIDs \in BOOLEAN /\ ASGEnabled \in BOOLEAN
    /\ Assessment \subseteq [action : Action, score : Percent, confidence : Percent,
                             util : Percent, freeze : BOOLEAN]
    /\ Totals \subseteq Nat 
    /\ BudgetSpecs \subseteq [Pool -> [Capacity -> SUBSET NodeBudget]]
    /\ MinSpotRatio \in Tenths /\ MaxSpotRatio \in Tenths
    /\ MinSpotRatio <= MaxSpotRatio /\ SeedRatios \subseteq Tenths
    /\ KarpenterEnabled \in BOOLEAN /\ ManagedPools \subseteq Pool
    /\ Modes \subseteq {"live", "dry-run"}
    /\ InitLabels \subseteq [Node -> Label] /\ InitDesired \in Nat
    /\ MaxTicks \in Nat /\ MaxChurn \in Nat

VARIABLES
    \* the cluster and the cloud
    label,             \* what a Get or a List tells about a node
    cordoned,          \* Spec.Unschedulable
    weight,            \* NodePool weights of a pool
    desired,           \* desired capacity of a pool's twin ASGs
    terminated,        \* nodes whose instance the agent has terminated
    \* the controller's memory
    cooling,           \* pools with lastWeightChange within the cooldown
    targetSpotRatio,
    lastMigration,     \* markets with a recorded migration
    \* the cycle in progress
    pc,
    total,             \* len(nodeMetrics)
    plan,              \* the assessments after filterActionableNodes
    act,               \* the action each node has after the guardrails
    budget,            \* the disruption limit applyDrainLimit found, or -1
    todo,              \* the assessments still in the pipeline
    pending,           \* those the current loop has not reached
    cur,               \* the node executeAction works on
    swap,              \* swap requests not yet run
    \* what happened, for the properties
    limits,            \* the limits of the budgets it could read
    seen,              \* nodes that carried the managed label since execution began
    deferred,          \* nodes cut off by the drain limit in this cycle
    attempted,         \* nodes handed to the drainer in this cycle
    prepared,          \* pools and capacity types PrepareSwap made ready
    emptied,           \* nodes some drain has completed on
    mode,              \* "live" or "dry-run", fixed at start-up
    tick, churn

clusterVars == <<label, cordoned, weight, desired, terminated>>
memoryVars  == <<cooling, targetSpotRatio, lastMigration>>
cycleVars   == <<pc, total, budget, plan, act, todo, pending, cur, swap>>
historyVars == <<limits, seen, deferred, attempted, prepared, emptied>>
boundVars   == <<mode, tick, churn>>
vars == <<clusterVars, memoryVars, cycleVars, historyVars, boundVars>>

PlanRecord == [action : Action, score : Percent, confidence : Percent,
               util : Percent, freeze : BOOLEAN]
NoPlan == [action |-> "hold", score |-> 0, confidence |-> 0,
           util |-> 0, freeze |-> FALSE]

Executing == {"execute", "recheck", "drain", "cleanup"}
PC == {"idle", "filter", "limit", "guard", "steer", "request", "prepare",
       "execute", "recheck", "drain", "cleanup"}

(* Every variable keeps its type; a cycle at rest has nothing in progress. *)
TypeOK ==
    /\ label \in [Node -> Label]
    /\ cordoned \subseteq Node /\ terminated \subseteq Node
    /\ weight \in [Pool -> [Capacity -> {"high", "low"}]]
    /\ desired \in [Pool \cup {NoPool} -> [Capacity -> Int]]
    /\ cooling \subseteq Pool
    /\ targetSpotRatio \in [RatioPool -> Tenths]
    /\ lastMigration \subseteq Market
    /\ pc \in PC
    /\ total \in Nat /\ budget \in Int /\ limits \subseteq Nat
    /\ plan \in [Node -> PlanRecord]
    /\ act \in [Node -> Action]
    /\ todo \subseteq Node /\ pending \subseteq todo
    /\ cur \in Node \cup {None}
    /\ swap \in [Pool -> Capacity \cup {None}]
    /\ seen \subseteq Node /\ deferred \subseteq Node /\ attempted \subseteq Node
    /\ emptied \subseteq Node /\ mode \in Modes
    /\ prepared \subseteq Pool \X Capacity
    /\ tick \in 0..MaxTicks /\ churn \in 0..MaxChurn
    /\ pc = "idle" => todo = {}

-----------------------------------------------------------------------------
(* Increases move on-demand nodes, decreases move spot nodes. *)
DirectionFits(a, n) ==
    /\ a \in Increase => n \notin Spot
    /\ a \in Decrease => n \in Spot

(* filterExecutableNodes: a node the List does not know passes. *)
Executable(n) ==
    label[n] = "gone" \/ (label[n] = "managed" /\ DirectionFits(plan[n].action, n))

(* The order applyDrainLimit leaves: capacity-only entries, emergencies,   *)
(* the rest, each by falling score.                                        *)
ClassByScoreOnly(n) == IF plan[n].action = "hold" THEN 0 ELSE 1
Class(n) == CASE plan[n].action = "hold" -> 0
              [] plan[n].action = "exit" -> 1
              [] OTHER                   -> 2

Before(m, n) ==
    \/ Class(m) < Class(n)
    \/ Class(m) = Class(n) /\ Class(m) # 0 /\ plan[m].score > plan[n].score

First(S) == {n \in S : \A m \in S : ~Before(m, n)}

(* The global limit, lowered by a NodePool budget when Karpenter is on;    *)
(* a budget of 0 stops every drain.                                        *)
DrainLimitZeroMeansNone(t, b) ==
    IF KarpenterEnabled /\ 0 < b /\ b < MaxDrain(t) THEN b ELSE MaxDrain(t)

DrainLimit(t, b) ==
    IF KarpenterEnabled /\ 0 <= b /\ b < MaxDrain(t) THEN b ELSE MaxDrain(t)

SpotNodes == {n \in Spot : label[n] # "gone"}

Guarded(n, pods) ==
    Check(act[n], Cardinality(SpotNodes), plan[n].confidence, plan[n].util, pods)

(* The nodes of the list a loop manages to fetch: a Get may always fail. *)
Fetched == SUBSET {n \in todo : label[n] # "gone"}

(* batchSteerKarpenterWeights: freeze_spot and every decrease vote for     *)
(* on-demand, a tie goes to on-demand.                                     *)
Voters(p, got)    == {n \in got : PoolOf[n] = p}
SpotVotes(p, got) == {n \in Voters(p, got) : ~plan[n].freeze /\ act[n] \in Increase}
ODVotes(p, got)   == {n \in Voters(p, got) : plan[n].freeze \/ act[n] \in Decrease}
FavorSpot(p, got) ==
    Cardinality(SpotVotes(p, got)) > Cardinality(ODVotes(p, got))

Steered(p, got) ==
    KarpenterEnabled /\ Voters(p, got) # {} /\ p \in ManagedPools \ cooling

WeightFor(c, favorSpot) ==
    IF (c = "spot") = favorSpot THEN "high" ELSE "low"

(* SetWeight: the patch that is rejected leaves the NodePool as it was. *)
SetWeight(old, new, accepted) == IF accepted THEN new ELSE old

(* prepareCapacitySwaps: the first node of a pool sets the direction. *)
SwapVoters(p, got) ==
    {n \in got : PoolOf[n] = p /\ DetectManager(Labels[n]) \in ASGManager /\ act[n] # "hold"}

SwapTo(a) == IF a \in Decrease THEN "on-demand" ELSE "spot"

(* applyTargetSpotRatioWithConfig for an action that is executed. *)
Delta(a) == CASE a = "increase10" -> 1  [] a = "increase30" -> 3
              [] a = "decrease10" -> -1 [] a = "decrease30" -> -3
              [] OTHER -> 0

Clamp(x, lo, hi) == IF x < lo THEN lo ELSE IF x > hi THEN hi ELSE x

NextRatioUnclamped(a, r) == IF a = "exit" THEN 0 ELSE r + Delta(a)

NextRatio(a, r) ==
    Clamp(Clamp(IF a = "exit" THEN 0 ELSE r + Delta(a), 0, 10),
          MinSpotRatio, MaxSpotRatio)

(* Whether PostDrainCleanupForNode finds an ASG manager for the node. *)
TerminatesNode(n) == ManagerForNode(Labels[n], Registered) \cap ASGManager # {}

SourceOf(n) == IF n \in Spot THEN "spot" ELSE "on-demand"

-----------------------------------------------------------------------------
Init ==
    /\ label \in InitLabels
    /\ cordoned = {} /\ terminated = {}
    /\ weight = [p \in Pool |-> [c \in Capacity |-> WeightFor(c, TRUE)]]
    /\ desired = [p \in Pool \cup {NoPool} |-> [c \in Capacity |-> InitDesired]]
    /\ cooling = {}
    /\ targetSpotRatio \in [RatioPool -> SeedRatios]
    /\ lastMigration = {}
    /\ pc = "idle" /\ total = 0 /\ budget = -1
    /\ plan = [n \in Node |-> NoPlan] /\ act = [n \in Node |-> "hold"]
    /\ todo = {} /\ pending = {} /\ cur = None
    /\ swap = [p \in Pool |-> None]
    /\ limits = {} /\ seen = {} /\ deferred = {} /\ attempted = {}
    /\ prepared = {} /\ emptied = {}
    /\ mode \in Modes /\ tick = 0 /\ churn = 0

(* The return of Reconcile: nothing local to the cycle survives. *)
Forget ==
    /\ total' = 0 /\ budget' = -1
    /\ plan' = [n \in Node |-> NoPlan] /\ act' = [n \in Node |-> "hold"]
    /\ todo' = {} /\ pending' = {} /\ cur' = None
    /\ swap' = [p \in Pool |-> None]
    /\ limits' = {} /\ seen' = {} /\ deferred' = {} /\ attempted' = {}
    /\ prepared' = {}

(* Steps 1 to 3a: metrics, inference and filterActionableNodes.  A failed  *)
(* fetch or collection ends the cycle, as does an empty result.            *)
Observe ==
    /\ pc = "idle" /\ tick < MaxTicks
    /\ \E t \in Totals, A \in SUBSET Node \ {{}} :
       \E f \in [A -> Assessment] :
          LET keep == {n \in A : Actionable(f[n])}
          IN  /\ Cardinality(A) <= t
              /\ keep # {}
              /\ total' = t
              /\ todo' = keep
              /\ plan' = [n \in Node |-> IF n \in keep THEN Upgraded(f[n]) ELSE NoPlan]
    /\ pc' = "filter" /\ tick' = tick + 1
    /\ UNCHANGED <<clusterVars, memoryVars, budget, act, pending, cur, swap,
                   historyVars, mode, churn>>

(* Step 3b: filterExecutableNodes; when the List fails nothing is filtered.*)
FilterExecutable ==
    /\ pc = "filter"
    /\ todo' \in {todo, {n \in todo : Executable(n)}}
    /\ pending' = {}
    /\ pc' = "limit"
    /\ UNCHANGED <<clusterVars, memoryVars, total, budget, plan, act, cur, swap,
                   historyVars, boundVars>>

(* getKarpenterDisruptionLimit: the budgets of both NodePools of the pools *)
(* of the candidates; a node or NodePool that cannot be fetched is left    *)
(* out.                                                                    *)
LimitsOf(spec, read, got) ==
    UNION {Limits(spec[x[1]][x[2]], total) :
              x \in {y \in read : \E n \in got : PoolOf[n] = y[1]}}

LimitsRead(drains) ==
    IF ~KarpenterEnabled THEN {{}}
    ELSE {LimitsOf(spec, read, got) :
             spec \in BudgetSpecs, read \in SUBSET (Pool \X Capacity),
             got \in SUBSET {n \in drains : label[n] # "gone"}}

(* Step 4: applyDrainLimit keeps the most urgent drains. *)
ApplyDrainLimit ==
    /\ pc = "limit" /\ todo # {}
    /\ LET drains == {n \in todo : plan[n].action # "hold"}
       IN  /\ limits' \in LimitsRead(drains)
           /\ budget' \in MostRestrictive(limits')
           /\ \E keep \in SUBSET drains :
                 /\ Cardinality(keep) <= DrainLimit(total, budget')
                 /\ Cardinality(keep) < DrainLimit(total, budget') => keep = drains
                 /\ \A k \in keep, d \in drains \ keep : ~Before(d, k)
                 /\ todo' = (todo \ drains) \cup keep
                 /\ deferred' = drains \ keep
    /\ pending' = todo'
    /\ act' = [n \in Node |-> plan[n].action]
    /\ pc' = "guard"
    /\ UNCHANGED <<clusterVars, memoryVars, total, plan, cur, swap,
                   seen, attempted, prepared, emptied, boundVars>>

(* Step 4.5: applyGuardrailsBeforePrep for one node.  A node that cannot   *)
(* be fetched, a check that fails and a refusal all drop it.               *)
GuardBeforePrep(n) ==
    /\ pc = "guard" /\ n \in pending
    /\ pending' = pending \ {n}
    /\ \/ /\ todo' = todo \ {n}                        \* Get or a List failed
          /\ UNCHANGED act
       \/ /\ label[n] # "gone"
          /\ \E pods \in PodFacts :
                LET r == Guarded(n, pods)
                IN  /\ todo' = IF r.approved THEN todo ELSE todo \ {n}
                    /\ act' = IF r.approved THEN [act EXCEPT ![n] = r.action] ELSE act
    /\ UNCHANGED <<clusterVars, memoryVars, pc, total, budget, plan, cur, swap,
                   historyVars, boundVars>>

GuardDone ==
    /\ pc = "guard" /\ pending = {} /\ todo # {}
    /\ pc' = "steer"
    /\ UNCHANGED <<clusterVars, memoryVars, total, budget, plan, act, todo, pending,
                   cur, swap, historyVars, boundVars>>

(* Step 5a: batchSteerKarpenterWeights.  Each of a pool's two patches may  *)
(* fail; one success starts the cooldown.                                  *)
SteerWeights ==
    /\ pc = "steer"
    /\ \E got \in Fetched, ok \in [Pool -> SUBSET Capacity] :
          /\ weight' = [p \in Pool |-> [c \in Capacity |->
                           SetWeight(weight[p][c], WeightFor(c, FavorSpot(p, got)),
                                     Steered(p, got) /\ c \in ok[p])]]
          /\ cooling' = cooling \cup {p \in Pool : Steered(p, got) /\ ok[p] # {}}
    /\ pc' = "request"
    /\ UNCHANGED <<label, cordoned, desired, terminated, targetSpotRatio,
                   lastMigration, total, budget, plan, act, todo, pending, cur, swap,
                   historyVars, boundVars>>

(* Step 5b: prepareCapacitySwaps groups the nodes by pool ... *)
RequestSwaps ==
    /\ pc = "request"
    /\ \E got \in Fetched, first \in [Pool -> Node \cup {None}] :
          /\ \A p \in Pool : IF SwapVoters(p, got) = {} THEN first[p] = None
                             ELSE first[p] \in First(SwapVoters(p, got))
          /\ swap' = [p \in Pool |-> IF first[p] = None THEN None
                                     ELSE SwapTo(act[first[p]])]
    /\ pc' = "prepare"
    /\ UNCHANGED <<clusterVars, memoryVars, total, budget, plan, act, todo, pending, cur,
                   historyVars, boundVars>>

(* ... and runs one PrepareSwap per pool, if the pool's manager is         *)
(* registered; its error is logged and ignored.                            *)
(* A failed swap may leave the ASG one larger (failed rollback).           *)
PrepareSwap(p) ==
    /\ pc = "prepare" /\ swap[p] # None
    /\ swap' = [swap EXCEPT ![p] = None]
    /\ \/ /\ ASGEnabled
          /\ desired' = [desired EXCEPT ![p][swap[p]] = @ + 1]
          /\ prepared' \in {prepared, prepared \cup {<<p, swap[p]>>}}
       \/ UNCHANGED <<desired, prepared>>
    /\ UNCHANGED <<label, cordoned, weight, terminated, memoryVars, pc, total, budget, plan,
                   act, todo, pending, cur, limits, seen, deferred, attempted,
                   emptied, boundVars>>

PrepareDone ==
    /\ pc = "prepare" /\ \A p \in Pool : swap[p] = None
    /\ pc' = "execute" /\ pending' = todo
    /\ seen' = {n \in Node : label[n] = "managed"}
    /\ UNCHANGED <<clusterVars, memoryVars, total, budget, plan, act, todo, cur, swap,
                   limits, deferred, attempted, prepared, emptied, boundVars>>

(* executeAction's own checks of the node it fetched. *)
MayExecuteIfListed(n) ==
    label[n] # "gone" /\ act[n] # "hold" /\ DirectionFits(act[n], n)
MayExecuteAnyCapacity(n) == label[n] = "managed" /\ act[n] # "hold"

MayExecute(n) ==
    label[n] = "managed" /\ act[n] # "hold" /\ DirectionFits(act[n], n)

(* Step 6: executeAction fetches the node and repeats the label checks.    *)
(* The loop moves on whatever becomes of this node.                        *)
Execute(n) ==
    /\ pc = "execute" /\ n \in First(pending)
    /\ pending' = pending \ {n}
    /\ \/ UNCHANGED <<pc, cur>>                \* Get failed, or nothing to do
       \/ MayExecute(n) /\ pc' = "recheck" /\ cur' = n
    /\ UNCHANGED <<clusterVars, memoryVars, total, budget, plan, act, todo, swap,
                   historyVars, boundVars>>

Back == pc' = "execute" /\ cur' = None

(* executeAction's second guardrail check, with the action the first left; *)
(* then the target ratio moves, and a node with pods of the monitoring     *)
(* namespace is left alone.                                                *)
Recheck ==
    /\ pc = "recheck"
    /\ \/ Back /\ UNCHANGED <<act, targetSpotRatio>>             \* check failed
       \/ \E pods \in PodFacts :
             LET r == Guarded(cur, pods)
                 m == PoolKey[cur]
             IN  \/ /\ ~r.approved
                    /\ Back /\ UNCHANGED <<act, targetSpotRatio>>
                 \/ /\ r.approved
                    /\ act' = [act EXCEPT ![cur] = r.action]
                    /\ targetSpotRatio' =
                          [targetSpotRatio EXCEPT ![m] = NextRatio(r.action, @)]
                    /\ Back \/ (pc' = "drain" /\ cur' = cur)
    /\ UNCHANGED <<clusterVars, cooling, lastMigration, total, budget, plan, todo, pending,
                   swap, historyVars, boundVars>>

(* What Drainer.Drain may come to: "failed" before it cordoned the node,   *)
(* "partial" after, "complete"; a dry run only simulates.                  *)
DrainOutcomes ==
    {"failed"} \cup (IF mode = "dry-run" THEN {"simulated"}
                     ELSE IF label[cur] = "gone" THEN {} ELSE {"partial", "complete"})

(* The cleanup follows a success that was not a dry run. *)
NeedsCleanupOnceCordoned(outcome) == outcome \in {"partial", "complete"}
NeedsCleanup(outcome) == outcome = "complete"

Drain ==
    /\ pc = "drain"
    /\ attempted' = attempted \cup {cur}
    /\ \E outcome \in DrainOutcomes :
          /\ IF NeedsCleanup(outcome) THEN pc' = "cleanup" /\ cur' = cur ELSE Back
          /\ cordoned' = IF outcome \in {"partial", "complete"}
                         THEN cordoned \cup {cur} ELSE cordoned
          /\ emptied' = IF outcome = "complete" THEN emptied \cup {cur} ELSE emptied
          /\ \/ UNCHANGED lastMigration
             \/ /\ outcome = "simulated" /\ label[cur] # "gone"
                /\ lastMigration' = lastMigration \cup {PoolID(Labels[cur])}
    /\ UNCHANGED <<label, weight, desired, terminated, cooling, targetSpotRatio,
                   total, budget, plan, act, todo, pending, swap, limits, seen, deferred,
                   prepared, boundVars>>

(* TerminateInstance is asked to take the instance off the desired count.  *)
DesiredKept == desired
DesiredLessOfTwin == [desired EXCEPT ![PoolOf[cur]][SwapTo(act[cur])] = @ - 1]
DesiredLess == [desired EXCEPT ![PoolOf[cur]][SourceOf(cur)] = @ - 1]

(* PostDrainCleanupForNode and the lastMigration update.  An ASG instance  *)
(* is terminated with its desired count; the Node object may outlive it.   *)
(* An error, also one that hides the effect, skips the bookkeeping.        *)
Cleanup ==
    /\ pc = "cleanup"
    /\ Back
    /\ \/ /\ TerminatesNode(cur) /\ label[cur] # "gone"
          /\ cur \notin terminated
          /\ terminated' = terminated \cup {cur}
          /\ desired' = DesiredLess
          /\ label' \in {label, [label EXCEPT ![cur] = "gone"]}
          /\ \/ UNCHANGED lastMigration
             \/ /\ label'[cur] # "gone"
                /\ lastMigration' = lastMigration \cup {PoolID(Labels[cur])}
       \/ /\ TerminatesNode(cur)                                 \* an error
          /\ UNCHANGED <<terminated, desired, label, lastMigration>>
       \/ /\ ~TerminatesNode(cur)
          /\ lastMigration' \in {lastMigration, lastMigration \cup {PoolID(Labels[cur])}}
          /\ UNCHANGED <<terminated, desired, label>>
    /\ UNCHANGED <<cordoned, weight, cooling, targetSpotRatio, total, budget, plan, act,
                   todo, pending, swap, historyVars, boundVars>>

(* Reconcile returns: every candidate was filtered out, or the loop ended. *)
Return ==
    /\ \/ pc \in {"limit", "guard"} /\ todo = {}
       \/ pc = "execute" /\ pending = {}
    /\ pc' = "idle"
    /\ Forget
    /\ UNCHANGED <<clusterVars, memoryVars, emptied, boundVars>>

-----------------------------------------------------------------------------
(* Others: labels and taints change, nodes leave (a name never returns),   *)
(* time passes, and the agent's process may die and be restarted.          *)
Relabel(n) ==
    /\ churn < MaxChurn /\ churn' = churn + 1
    /\ label[n] # "gone"
    /\ \E l \in Label \ {label[n]} :
          /\ label' = [label EXCEPT ![n] = l]
          /\ seen' = IF l = "managed" /\ pc \in Executing THEN seen \cup {n} ELSE seen
    /\ UNCHANGED <<cordoned, weight, desired, terminated, memoryVars, cycleVars,
                   limits, deferred, attempted, prepared, emptied, mode, tick>>

CooldownOver(p) ==
    /\ p \in cooling
    /\ cooling' = cooling \ {p}
    /\ UNCHANGED <<clusterVars, targetSpotRatio, lastMigration, cycleVars,
                   historyVars, boundVars>>

(* A controller that knows no target ratio for a pool takes the measured   *)
(* one.                                                                    *)
SeedTargets == targetSpotRatio' \in [RatioPool -> SeedRatios]

Crash ==
    /\ churn < MaxChurn /\ churn' = churn + 1
    /\ pc' = "idle" /\ Forget
    /\ cooling' = {} /\ lastMigration' = {}
    /\ SeedTargets
    /\ UNCHANGED <<clusterVars, emptied, mode, tick>>

Controller ==
    \/ FilterExecutable \/ ApplyDrainLimit
    \/ \E n \in Node : GuardBeforePrep(n) \/ Execute(n)
    \/ GuardDone \/ SteerWeights \/ RequestSwaps
    \/ \E p \in Pool : PrepareSwap(p)
    \/ PrepareDone \/ Recheck \/ Drain \/ Cleanup \/ Return

Environment ==
    \/ \E n \in Node : Relabel(n)
    \/ \E p \in Pool : CooldownOver(p)
    \/ Crash

Next == Observe \/ Controller \/ Environment

(* The loop of Start runs a cycle to its end.  That every call to an API   *)
(* returns is an assumption: the code sets no deadline on them.  Ticks and *)
(* other actors owe nothing.                                               *)
Spec == Init /\ [][Next]_vars /\ WF_vars(Controller)

-----------------------------------------------------------------------------
(* A cycle hands the drainer at most maxDrainRatio of the reported nodes   *)
(* (or one), and no more than any disruption budget it could read allows,  *)
(* whatever the filters and guardrails drop in between.                    *)
DrainsWithinLimit ==
    /\ \/ Cardinality(attempted) <= 1
       \/ 100 * Cardinality(attempted) <= MaxDrainPct * total
    /\ \A l \in limits : Cardinality(attempted) <= l

(* A node whose managed label was withdrawn before the execution loop      *)
(* began, however long the capacity preparation took, is never drained,    *)
(* nor one that is control-plane or fake, even when the List behind        *)
(* filterExecutableNodes fails.                                            *)
OnlyManagedDrained == attempted \subseteq seen

(* A drain takes a spot node for a decrease and an on-demand node for an   *)
(* increase, whichever of the two filters and two guardrail passes ran.    *)
DrainDirection ==
    \A n \in attempted : IF n \in Spot THEN act[n] \in Decrease
                                        ELSE act[n] \in Increase

(* While an emergency is put off to a later cycle, this cycle drains only  *)
(* emergencies of at least its score.                                      *)
EmergenciesFirst ==
    \A d \in deferred, n \in attempted :
        plan[d].action = "exit" =>
            plan[n].action = "exit" /\ plan[n].score >= plan[d].score

(* An instance is terminated only if a drain of its node completed: never  *)
(* after a failed, partial or simulated one.                               *)
TerminatedWereEmptied == terminated \subseteq emptied

(* The capacity the agent asks for is accounted for: what the groups of a  *)
(* pool lack of their size at the start are terminated instances, and they *)
(* have grown by at most one instance per cycle, whichever swaps failed    *)
(* half-way, whichever cleanups did, and wherever the agent was killed.    *)
CapacityAccounted ==
    \A p \in Pool :
        desired[p]["spot"] + desired[p]["on-demand"]
            + Cardinality({n \in terminated : PoolOf[n] = p})
        \in (2 * InitDesired)..(2 * InitDesired + tick)

(* For each pool the cycle keeps to the contract its capacity manager      *)
(* implements (see TwinASG): one swap at a time, ended before anything of  *)
(* the pool is cleaned up, at most one instance more for each, and one     *)
(* instance and one of the desired capacity of its own group for each      *)
(* cleanup, never twice.  The cycle does not look at the replacement's     *)
(* name, so a swap that succeeds counts as one that left its instance      *)
(* behind.                                                                 *)
PoolContract(p) == INSTANCE SwapContract WITH
    Instance   <- {n \in Node : PoolOf[n] = p},
    HomeOf     <- [n \in Node |-> SourceOf(n)],
    desired    <- desired[p],
    status     <- IF swap[p] = None THEN "idle" ELSE swap[p],
    handed     <- {},
    terminated <- {n \in terminated : PoolOf[n] = p}

UsesContract ==
    /\ \A p \in Pool : PoolContract(p)!Init
    /\ [][\A p \in Pool : PoolContract(p)!Next \/ UNCHANGED PoolContract(p)!vars]_vars

(* CapacityManager's contract and PrepareSwap's "abort drain" on failure:  *)
(* an ASG node is drained only once its pool has a replacement ready, and  *)
(* no other node of this cycle has used that replacement up.               *)
ReplacementBeforeDrain ==
    pc = "drain" /\ TerminatesNode(cur) /\ PoolOf[cur] # NoPool
        => /\ <<PoolOf[cur], SwapTo(act[cur])>> \in prepared
           /\ \A n \in attempted : PoolOf[n] # PoolOf[cur]

(* The promise of --dry-run: the cloud and the NodePools stay as they are. *)
DryRunReadOnly ==
    [][mode = "dry-run" => UNCHANGED <<weight, desired>>]_vars
=============================================================================
