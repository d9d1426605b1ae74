------------------------------- MODULE Collector -------------------------------
(***************************************************************************)
(* Collector.Collect (internal/collector/collector.go) for one pool, and   *)
(* the decision the deterministic policy takes with what it published.     *)
(* The lists are separate API calls, so pods, nodes and disruption budgets *)
(* move in between; what is computed from them goes through Go maps, so    *)
(* the nodes of a budget are visited in any order.                         *)
(***************************************************************************)
EXTENDS Policy, PoolSafety, NodeLabels, Sequences, FiniteSets, Functions

CONSTANTS
    Node,
    Labels,            \* Node -> the labels NodeLabels explains
    PoolKey,           \* the pool: <<type, zone>> or <<workload pool, type, zone>>
    Pod,
    Facts,             \* Pod -> owner kind, priority class, annotations, CPU request
    PDB,
    FirstPDB,          \* Pod -> the first listed budget that selects it, or NoPDB
    NoPDB, Nowhere,
    InitOn, InitAllowed,   \* placements and budgets at the start
    Allowance,         \* values DisruptionsAllowed may take
    Utils,             \* what the utilisation provider may answer, percent
    RawConfigs, Signals, Shares,   \* the rest of what the policy looks at
    MaxCycles,         \* bound: collections
    MaxChurn           \* bound: changes by others

Vector == [risk : Int, slack : Int, safeMax : Int, other : BOOLEAN]
PolicySignal ==
    [capacity : Percent, runtime : Percent, features : [Feature -> Int], safety : Vector,
     odPrice : Nat, spotPrice : Nat, migrationCost : Nat]

ASSUME CollectorAssumption ==
    /\ IsFiniteSet(Node) /\ IsFiniteSet(Pod) /\ IsFiniteSet(PDB)
    /\ Nowhere \notin Node /\ NoPDB \notin PDB
    /\ Facts \in [Pod -> [kind : {"stateful", "daemon", "other"},
                          class : {"system", "high", "low", "other"},
                          tier : {"0", "1", "2", Absent}, critical : BOOLEAN,
                          override : Int, observed : Int, cpu : Nat]]
    /\ FirstPDB \in [Pod -> PDB \cup {NoPDB}]
    /\ InitOn \subseteq [Pod -> Node \cup {Nowhere}]
    /\ InitAllowed \subseteq [PDB -> Int] /\ Allowance \subseteq Int
    /\ Signals \subseteq PolicySignal /\ Utils \subseteq Int /\ Shares \subseteq Nat \X Nat
    /\ MaxCycles \in Nat /\ MaxChurn \in Nat

VARIABLES
    nodes,             \* the nodes there are
    on,                \* where each pod is
    allowed,           \* Status.DisruptionsAllowed
    pc,
    nodesSeen, podsSeen,             \* what the lists returned
    pdbsKnown, allowedSeen,          \* whether the budgets were listed, and as what
    todo,              \* entries of pdbNodeCounts not yet visited
    maxOne, maxTwo,    \* per budget, the densest nodes so far
    pending,           \* budgets whose slack is not yet in the minimum
    minOne, minTwo,    \* the minimum over the others
    counts,            \* c.metrics.PoolFeatures of the pool ...
    vector,            \* ... and its PoolSafety
    act,               \* the policy's action
    cycle, churn

clusterVars == <<nodes, on, allowed>>
seenVars    == <<nodesSeen, podsSeen, pdbsKnown, allowedSeen>>
scanVars    == <<todo, maxOne, maxTwo, pending, minOne, minTwo>>
vars == <<clusterVars, pc, seenVars, scanVars, counts, vector, act, cycle, churn>>

(* DefaultPoolSafetyVector: also what GetPoolFeatures has for a pool that  *)
(* no listed node belongs to, and what a pool without workload pods keeps. *)
DefaultVector == [risk |-> 0, slack |-> 0, safeMax |-> 100, other |-> TRUE]

NoCounts ==
    [workload |-> 0, stateful |-> 0, evictable |-> 0, critical |-> 0, onSpot |-> 0,
     slackOne |-> 0, slackTwo |-> 0, restart |-> 0, headroom |-> 0, zones |-> 0]

(* Every variable keeps its type. *)
TypeOK ==
    /\ nodes \subseteq Node /\ nodesSeen \subseteq Node
    /\ on \in [Pod -> Node \cup {Nowhere}] /\ podsSeen \in [Pod -> Node \cup {Nowhere}]
    /\ allowed \in [PDB -> Int] /\ allowedSeen \in [PDB -> Int]
    /\ pdbsKnown \in BOOLEAN
    /\ pc \in {"idle", "pods", "pdbs", "scan", "decide"}
    /\ todo \subseteq PDB \X Node
    /\ maxOne \in [PDB -> Nat] /\ maxTwo \in [PDB -> Nat]
    /\ pending \subseteq PDB /\ minOne \in Int /\ minTwo \in Int
    /\ counts \in Counts /\ vector \in Vector /\ act \in Action
    /\ cycle \in 0..MaxCycles /\ churn \in 0..MaxChurn

-----------------------------------------------------------------------------
(* A node counts for the pools of both its ids.  The zones are those of    *)
(* all nodes with the pool's instance type, or with its workload pool.     *)
Member == {n \in Node : PoolKey \in {PoolID(Labels[n]), ExtendedPoolID(Labels[n], Absent)}}
Spot   == {n \in Node : IsSpot(Labels[n])}
Group  == {n \in Node : IF Len(PoolKey) = 2 THEN OrUnknown(Labels[n].type) = PoolKey[1]
                                             ELSE Labels[n].pool = PoolKey[1]}
ZoneOf(n) == OrUnknown(Labels[n].zone)

(* getPriorityScore, in percent: the tier annotation, then the class. *)
PriorityScore(p) ==
    LET f == Facts[p]
    IN  CASE f.tier = "0" -> 100
          [] f.tier = "1" -> 50
          [] f.tier = "2" -> 25
          [] OTHER        -> CASE f.class = "system" -> 100
                               [] f.class = "high"   -> 75
                               [] f.class = "low"    -> 25
                               [] OTHER              -> 50

(* getStartupTimeWithOverride; not positive if it is not known. *)
StartupTime(p) == IF Facts[p].override > 0 THEN Facts[p].override ELSE Facts[p].observed

(* What the pool's accumulator holds once everything is listed: a pod of a *)
(* node that was not listed does not count.                                *)
Listed      == {p \in Pod : podsSeen[p] \in nodesSeen \cap Member}
Workload    == {p \in Listed : Facts[p].kind # "daemon"}
Stateful    == {p \in Workload : Facts[p].kind = "stateful"}
Critical    == {p \in Workload : Facts[p].critical \/ PriorityScore(p) >= 75}
Guarded(b)  == {p \in Listed : pdbsKnown /\ FirstPDB[p] = b}
Evictable   == {p \in Workload : \A b \in PDB : p \in Guarded(b) => allowedSeen[b] > 0}

(* pdbNodeCounts: the budgets that select a pod of the pool, and how many  *)
(* such pods each node has.                                                *)
PodsOn(b, n) == Cardinality({p \in Guarded(b) : podsSeen[p] = n})
Entries      == {x \in PDB \X Node : PodsOn(x[1], x[2]) > 0}
Present      == {b \in PDB : Guarded(b) # {}}

(* calculateWeightedPercentile at 0.95 of the startup times that are known.*)
Timed       == {p \in Listed : StartupTime(p) > 0}
Weight(S)   == SumFunctionOnSet([p \in Pod |-> Larger(Facts[p].cpu, 1)], S)
Reaches(t)  == 100 * Weight({p \in Timed : StartupTime(p) <= t}) >= 95 * Weight(Timed)
StartupP95  ==
    IF Timed = {} THEN 60
    ELSE LET times == {StartupTime(p) : p \in Timed}
         IN  CHOOSE t \in times : Reaches(t) /\ \A u \in times : Reaches(u) => t <= u

OnDemand == {n \in nodesSeen \cap Member : n \notin Spot}

HeadroomUnclamped(util) == Cardinality(OnDemand) * (100 - util)
Headroom(util) == Cardinality(OnDemand) * (100 - Clamp01(util))

CountsWith(util) ==
    [workload |-> Cardinality(Workload), stateful |-> Cardinality(Stateful),
     evictable |-> Cardinality(Evictable), critical |-> Cardinality(Critical),
     onSpot |-> Cardinality({p \in Critical : podsSeen[p] \in Spot}),
     slackOne |-> minOne, slackTwo |-> minTwo, restart |-> StartupP95,
     headroom |-> Headroom(util),
     zones |-> Cardinality({ZoneOf(n) : n \in nodesSeen \cap Group})]

(* computePoolSafetyVector and its normalisation. *)
VectorOf(v) ==
    IF v.workload = 0 THEN DefaultVector
    ELSE [risk |-> Risk(v), slack |-> v.slackOne, safeMax |-> SafeMax(v), other |-> TRUE]

-----------------------------------------------------------------------------
Init ==
    /\ nodes = Node /\ on \in InitOn /\ allowed \in InitAllowed
    /\ pc = "idle" /\ nodesSeen = {} /\ podsSeen = [p \in Pod |-> Nowhere]
    /\ pdbsKnown = FALSE /\ allowedSeen = [b \in PDB |-> 0]
    /\ todo = {} /\ maxOne = [b \in PDB |-> 0] /\ maxTwo = [b \in PDB |-> 0]
    /\ pending = {} /\ minOne = 0 /\ minTwo = 0
    /\ counts = NoCounts /\ vector = DefaultVector /\ act = "hold"
    /\ cycle = 0 /\ churn = 0

(* Collect: the nodes first; a failed list ends the collection and, in     *)
(* Reconcile, the cycle.                                                   *)
ListNodes ==
    /\ pc = "idle" /\ cycle < MaxCycles /\ cycle' = cycle + 1
    /\ act' = "hold"
    /\ \/ pc' = "pods" /\ nodesSeen' = nodes
       \/ UNCHANGED <<pc, nodesSeen>>
    /\ UNCHANGED <<clusterVars, podsSeen, pdbsKnown, allowedSeen, scanVars, counts,
                   vector, churn>>

ListPods ==
    /\ pc = "pods"
    /\ \/ pc' = "pdbs" /\ podsSeen' = on
       \/ pc' = "idle" /\ UNCHANGED podsSeen
    /\ UNCHANGED <<clusterVars, nodesSeen, pdbsKnown, allowedSeen, scanVars, counts,
                   vector, act, cycle, churn>>

(* A failed list of the budgets is only logged: there are none then.       *)
ListPDBs ==
    /\ pc = "pdbs" /\ pc' = "scan"
    /\ pdbsKnown' \in BOOLEAN
    /\ allowedSeen' = allowed
    /\ UNCHANGED <<clusterVars, nodesSeen, podsSeen, counts, vector, act, cycle, churn>>
    /\ todo' = Entries' /\ pending' = Present'
    /\ maxOne' = [b \in PDB |-> 0] /\ maxTwo' = [b \in PDB |-> 0]
    /\ minOne' = 0 /\ minTwo' = 0

(* One turn of the loop that looks for the two densest nodes of a budget.  *)
DensestOnly(c, one, two) == IF c >= one THEN <<c, two>> ELSE <<one, two>>
Densest(c, one, two) ==
    IF c >= one THEN <<c, one>> ELSE IF c > two THEN <<one, c>> ELSE <<one, two>>

Scan(b, n) ==
    /\ pc = "scan" /\ <<b, n>> \in todo
    /\ todo' = todo \ {<<b, n>>}
    /\ LET top == Densest(PodsOn(b, n), maxOne[b], maxTwo[b])
       IN  /\ maxOne' = [maxOne EXCEPT ![b] = top[1]]
           /\ maxTwo' = [maxTwo EXCEPT ![b] = top[2]]
    /\ UNCHANGED <<clusterVars, pc, seenVars, pending, minOne, minTwo, counts, vector,
                   act, cycle, churn>>

(* The end of that loop: the slack of the budget goes into the minimum,    *)
(* which starts out infinite and counts as 0 if there is no budget.        *)
Fold(b) ==
    LET one == allowedSeen[b] - maxOne[b]
        two == allowedSeen[b] - (maxOne[b] + maxTwo[b])
    IN  /\ pc = "scan" /\ b \in pending /\ \A n \in Node : <<b, n>> \notin todo
        /\ pending' = pending \ {b}
        /\ minOne' = IF pending = Present \/ one < minOne THEN one ELSE minOne
        /\ minTwo' = IF pending = Present \/ two < minTwo THEN two ELSE minTwo
        /\ UNCHANGED <<clusterVars, pc, seenVars, todo, maxOne, maxTwo, counts, vector,
                       act, cycle, churn>>

(* The features are published; a pool without a listed node has none.      *)
Finalize ==
    /\ pc = "scan" /\ todo = {} /\ pending = {}
    /\ IF nodesSeen \cap Member = {}
       THEN counts' = NoCounts /\ vector' = DefaultVector
       ELSE \E util \in Utils : counts' = CountsWith(util) /\ vector' = VectorOf(counts')
    /\ pc' = "decide"
    /\ UNCHANGED <<clusterVars, seenVars, scanVars, act, cycle, churn>>

(* The deterministic policy with the published vector; the prices, risk    *)
(* scores and the share of spot come from elsewhere.                       *)
Decide ==
    /\ pc = "decide" /\ pc' = "idle"
    /\ \E c \in RawConfigs, s \in Signals, share \in Shares :
          act' = Evaluate(Load(c), [s EXCEPT !.safety = vector], share[1], share[2]).action
    /\ UNCHANGED <<clusterVars, seenVars, scanVars, counts, vector, cycle, churn>>

-----------------------------------------------------------------------------
(* Others: pods are moved, budgets recomputed, nodes come and go. *)
Disturb == churn < MaxChurn /\ churn' = churn + 1

MovePod(p) ==
    /\ Disturb
    /\ \E n \in (nodes \cup {Nowhere}) \ {on[p]} : on' = [on EXCEPT ![p] = n]
    /\ UNCHANGED <<nodes, allowed, pc, seenVars, scanVars, counts, vector, act, cycle>>

ChangeAllowed(b) ==
    /\ Disturb
    /\ \E a \in Allowance \ {allowed[b]} : allowed' = [allowed EXCEPT ![b] = a]
    /\ UNCHANGED <<nodes, on, pc, seenVars, scanVars, counts, vector, act, cycle>>

ChangeNode(n) ==
    /\ Disturb
    /\ nodes' = IF n \in nodes THEN nodes \ {n} ELSE nodes \cup {n}
    /\ UNCHANGED <<on, allowed, pc, seenVars, scanVars, counts, vector, act, cycle>>

Collect == ListNodes \/ ListPods \/ ListPDBs \/ Finalize \/ Decide
           \/ \E b \in PDB : Fold(b) \/ \E n \in Node : Scan(b, n)
Others == \/ \E p \in Pod : MovePod(p)
          \/ \E b \in PDB : ChangeAllowed(b)
          \/ \E n \in Node : ChangeNode(n)

Next == Collect \/ Others
Spec == Init /\ [][Next]_vars

-----------------------------------------------------------------------------
(* The published slack is what the worst loss of one or two nodes leaves,  *)
(* over the budgets with pods in the listed pool, whatever order the maps  *)
(* were walked in (README: "the two densest node placements").             *)
Left(b, lost) == allowedSeen[b] - Cardinality({p \in Guarded(b) : podsSeen[p] \in lost})

Losses(k) == {lost \in SUBSET Node : Cardinality(lost) \in 1..k}

SlackIsWorstCase ==
    pc = "decide" /\ counts.workload > 0 /\ Present # {} =>
        /\ \A b \in Present, lost \in Losses(1) : counts.slackOne <= Left(b, lost)
        /\ \E b \in Present, lost \in Losses(1) : counts.slackOne = Left(b, lost)
        /\ \A b \in Present, lost \in Losses(2) : counts.slackTwo <= Left(b, lost)
        /\ \E b \in Present, lost \in Losses(2) : counts.slackTwo = Left(b, lost)

(* The policy adds spot to a pool with workloads only if the budgets were  *)
(* listed, no loss of one node exhausts one of them, no loss of two nodes  *)
(* overruns one, and less than half of the critical pods sit on spot.      *)
GrowthIsSafe ==
    act \in Increase /\ Workload # {} =>
        /\ pdbsKnown /\ Present # {}
        /\ \A b \in Present, lost \in Losses(1) : Left(b, lost) >= 1
        /\ \A b \in Present, lost \in Losses(2) : Left(b, lost) >= 0
        /\ 2 * Cardinality({p \in Critical : podsSeen[p] \in Spot}) < Cardinality(Critical)
           \/ Critical = {}

(* A pool that became safer in no respect is not allowed more spot: no     *)
(* signal loosens the cap another one set.                                 *)
CapFollowsSafety ==
    [][counts.workload > 0 /\ counts'.workload > 0 /\ NoSafer(counts', counts)
          => vector'.safeMax <= vector.safeMax]_vars
=============================================================================
