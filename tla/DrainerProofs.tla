---------------------------- MODULE DrainerProofs ----------------------------
(***************************************************************************)
(* Proofs of Drainer's safety properties for every set of pods, kinds,     *)
(* budgets and bounds.                                                     *)
(***************************************************************************)
EXTENDS Drainer, FiniteSetTheorems, TLAPS

-----------------------------------------------------------------------------
(* The cordon comes before the list, and from the list on every pod that   *)
(* runs on the node is one the loop skips, has still to reach, or one that *)
(* landed there too late for the list.                                     *)
SealedInv ==
    mode = "live" /\ ~reopened =>
        /\ pc \in {"list", "evict"} => cordoned
        /\ pc = "evict" /\ ~failed =>
              \A p \in Pod \ late : loc[p] = "here" => Skipped(p) \/ p \in rest
        /\ outcome = "success" =>
              cordoned /\ \A p \in Pod \ late : loc[p] = "here" => Skipped(p)

(* Only a drain that is not a dry run cordons or evicts. *)
EvictInv ==
    /\ mode = "dry-run" => ~cordoned /\ hit = {}
    /\ pc \in {"list", "evict"} /\ mode = "live" => cordoned \/ reopened
    /\ hit # {} => cordoned \/ reopened

(* A listed pod is on the node or gone until its name is used again. *)
NameInv ==
    /\ pc \in {"cordon", "list"} => stray = {}
    /\ pc = "evict" => \A p \in list \ reborn : loc[p] \in {"here", "leaving", "gone"}
    /\ stray \subseteq reborn

Inv == TypeOK /\ EvictInv

(* Every action keeps the types and EvictInv. *)
LEMMA InvStep == Inv /\ [Next]_vars => Inv'
<1>. SUFFICES ASSUME Inv, [Next]_vars PROVE Inv'
  OBVIOUS
<1>. USE DrainerAssumption
     DEF Inv, TypeOK, EvictInv, clusterVars, callVars, historyVars, boundVars, Place
<1>1. CASE Begin
  <2>1. failed' \in BOOLEAN /\ reopened' \in BOOLEAN /\ cordoned' = cordoned
    BY <1>1, Zenon DEF Begin, NewResult
  <2>2. /\ pc' = "cordon" /\ list' = {} /\ rest' = {} /\ outcome' = "none"
        /\ late' = {} /\ reborn' = {} /\ hit' = {} /\ stray' = {} /\ drains' \in 0..MaxDrains
        /\ UNCHANGED <<loc, allowed, mode, changes>>
    BY <1>1 DEF Begin, NewResult
  <2>. QED  BY <2>1, <2>2
<1>2. CASE CordonNode
  <2>1. cordoned' \in BOOLEAN /\ (mode = "dry-run" => cordoned' = cordoned)
    BY <1>2, Zenon DEF CordonNode
  <2>2. cordoned => cordoned'
    BY <1>2, Zenon DEF CordonNode
  <2>3. pc' = "list" /\ mode = "live" => cordoned'
    BY <1>2 DEF CordonNode, Abort
  <2>4. /\ \/ pc' = "list" /\ outcome' = outcome /\ rest' = rest
           \/ pc' = "idle" /\ outcome' = "failure" /\ rest' = {}
        /\ UNCHANGED <<loc, allowed, list, failed, historyVars, boundVars>>
    BY <1>2 DEF CordonNode, Abort
  <2>. QED  BY <1>2, <2>1, <2>2, <2>3, <2>4 DEF CordonNode
<1>3. CASE ListPods
  BY <1>3 DEF ListPods, Abort, Here
<1>4. CASE Finish
  BY <1>4 DEF Finish
<1>5. ASSUME NEW p \in Pod, SkipPod(p) PROVE Inv'
  BY <1>5 DEF SkipPod
<1>e. ASSUME NEW p \in Pod, Evict(p), ~Refused(p)
      PROVE  /\ loc' \in [Pod -> Place] /\ allowed' \in 0..MaxAllowed
             /\ hit' \subseteq Pod /\ stray' \subseteq hit'
  BY <1>e DEF Evict, Refused
<1>6. ASSUME NEW p \in Pod, EvictPod(p) PROVE Inv'
  <2>1. /\ loc' \in [Pod -> Place] /\ allowed' \in 0..MaxAllowed
        /\ hit' \subseteq Pod /\ stray' \subseteq hit'
    BY <1>6, <1>e DEF EvictPod
  <2>2. mode = "dry-run" => hit' = hit
    BY <1>6 DEF EvictPod
  <2>. QED  BY <1>6, <2>1, <2>2 DEF EvictPod
<1>7. ASSUME NEW p \in Pod, EvictFails(p) PROVE Inv'
  <2>1. /\ loc' \in [Pod -> Place] /\ allowed' \in 0..MaxAllowed
        /\ hit' \subseteq Pod /\ stray' \subseteq hit'
    BY <1>7, <1>e DEF EvictFails
  <2>. QED  BY <1>7, <2>1 DEF EvictFails, AfterFailure, Abort
<1>8. ASSUME NEW p \in Pod, PodEnds(p) \/ Recreate(p) \/ Bind(p) PROVE Inv'
  BY <1>8 DEF PodEnds, Recreate, Bind, Other
<1>9. CASE Uncordon
  <2>1. cordoned' \in BOOLEAN /\ reopened' \in BOOLEAN /\ reopened' /\ ~cordoned'
    BY <1>9, Zenon DEF Uncordon
  <2>2. changes' \in 0..MaxChanges /\ UNCHANGED <<loc, allowed, callVars, late, reborn, hit, stray, mode, drains>>
    BY <1>9 DEF Uncordon, Other
  <2>. QED  BY <2>1, <2>2
<1>10. CASE BudgetMoves
  BY <1>10 DEF BudgetMoves
<1>11. CASE UNCHANGED vars
  BY <1>11 DEF vars
<1>. QED
  BY <1>1, <1>2, <1>3, <1>4, <1>5, <1>6, <1>7, <1>8, <1>9, <1>10, <1>11
     DEF Next, Drain, Others

(* Inv holds in every reachable state. *)
THEOREM Invariance == Spec => []Inv
<1>1. Init => Inv
  <2>. SUFFICES ASSUME Init PROVE Inv
    OBVIOUS
  <2>1. /\ cordoned \in BOOLEAN /\ failed \in BOOLEAN /\ reopened \in BOOLEAN
        /\ ~cordoned
    BY Zenon DEF Init
  <2>2. /\ loc \in [Pod -> Place] /\ allowed \in 0..MaxAllowed
        /\ drains \in 0..MaxDrains /\ changes \in 0..MaxChanges
    BY DrainerAssumption DEF Init, Place
  <2>3. /\ pc = "idle" /\ list = {} /\ rest = {} /\ outcome = "none"
        /\ late = {} /\ reborn = {} /\ hit = {} /\ stray = {} /\ mode \in Modes
    BY DEF Init
  <2>. QED  BY <2>1, <2>2, <2>3 DEF Inv, TypeOK, EvictInv
<1>. QED  BY <1>1, InvStep, PTL DEF Spec

(* Types; no pod is left to reach outside of a drain. *)
THEOREM TypeCorrect == Spec => []TypeOK
<1>1. Inv => TypeOK
  BY DEF Inv
<1>. QED  BY Invariance, <1>1, PTL

(* A dry run neither cordons nor evicts. *)
THEOREM DryRunsAreInert == Spec => []DryRunInert
<1>1. Inv => DryRunInert
  BY DEF Inv, EvictInv, DryRunInert
<1>. QED  BY Invariance, <1>1, PTL

(* Nothing is evicted from a node before it is cordoned. *)
THEOREM CordonPrecedesEviction == Spec => []CordonedBeforeEviction
<1>1. Inv => CordonedBeforeEviction
  BY DEF Inv, EvictInv, CordonedBeforeEviction
<1>. QED  BY Invariance, <1>1, PTL

-----------------------------------------------------------------------------
(* Every action keeps SealedInv. *)
LEMMA SealedStep ==
    ASSUME Inv, SealedInv, [Next]_vars
    PROVE  SealedInv'
<1>. USE DrainerAssumption
     DEF Inv, TypeOK, SealedInv, clusterVars, callVars, historyVars, boundVars, Place,
         Skipped
<1>1. CASE Begin
  BY <1>1 DEF Begin, NewResult
<1>2. CASE CordonNode
  BY <1>2 DEF CordonNode, Abort
<1>3. CASE ListPods
  BY <1>3 DEF ListPods, Abort, Here
<1>4. CASE Finish
  BY <1>4 DEF Finish
<1>5. ASSUME NEW p \in Pod, SkipPod(p) PROVE SealedInv'
  BY <1>5 DEF SkipPod
<1>6. ASSUME NEW p \in Pod, EvictPod(p) PROVE SealedInv'
  BY <1>6 DEF EvictPod, Evict
<1>7. ASSUME NEW p \in Pod, EvictFails(p) PROVE SealedInv'
  BY <1>7 DEF EvictFails, AfterFailure, Abort
<1>8. ASSUME NEW p \in Pod, PodEnds(p) \/ Recreate(p) PROVE SealedInv'
  BY <1>8 DEF PodEnds, Recreate
<1>9. ASSUME NEW p \in Pod, Bind(p) PROVE SealedInv'
  BY <1>9 DEF Bind
<1>10. CASE Uncordon
  BY <1>10 DEF Uncordon
<1>11. CASE BudgetMoves
  BY <1>11 DEF BudgetMoves
<1>12. CASE UNCHANGED vars
  BY <1>12 DEF vars
<1>. QED
  BY <1>1, <1>2, <1>3, <1>4, <1>5, <1>6, <1>7, <1>8, <1>9, <1>10, <1>11, <1>12
     DEF Next, Drain, Others

(* A successful drain leaves nothing on the node but pods that are skipped *)
(* or leaving, and bindings that landed after the list.                    *)
THEOREM SuccessMeansEvacuated == Spec => []EvacuatedOnSuccess
<1>1. Init => SealedInv
  BY DEF Init, SealedInv
<1>2. Inv /\ SealedInv /\ [Next]_vars => SealedInv'
  BY SealedStep
<1>3. SealedInv => EvacuatedOnSuccess
  BY DEF SealedInv, EvacuatedOnSuccess
<1>. QED  BY Invariance, <1>1, <1>2, <1>3, PTL DEF Spec
-----------------------------------------------------------------------------
(* Every action keeps NameInv: the list starts with pods of the node, and  *)
(* only Recreate brings a name back.                                       *)
LEMMA NameStep ==
    ASSUME Inv, NameInv, [Next]_vars
    PROVE  NameInv'
<1>. USE DrainerAssumption
     DEF Inv, TypeOK, NameInv, clusterVars, callVars, historyVars, boundVars, Place
<1>1. CASE Begin
  BY <1>1 DEF Begin
<1>2. CASE CordonNode
  BY <1>2 DEF CordonNode, Abort
<1>3. CASE ListPods
  BY <1>3 DEF ListPods, Abort, Here
<1>4. CASE Finish
  BY <1>4 DEF Finish
<1>5. ASSUME NEW p \in Pod, SkipPod(p) PROVE NameInv'
  BY <1>5 DEF SkipPod
<1>e. ASSUME NEW p \in rest, pc = "evict", Evict(p), list' = list, reborn' = reborn
      PROVE  /\ \A q \in list' \ reborn' : loc'[q] \in {"here", "leaving", "gone"}
             /\ stray' \subseteq reborn'
  BY <1>e DEF Evict
<1>6. ASSUME NEW p \in Pod, EvictPod(p) PROVE NameInv'
  BY <1>6, <1>e DEF EvictPod
<1>7. ASSUME NEW p \in Pod, EvictFails(p) PROVE NameInv'
  BY <1>7, <1>e DEF EvictFails, AfterFailure, Abort
<1>8. ASSUME NEW p \in Pod, PodEnds(p) \/ Recreate(p) PROVE NameInv'
  BY <1>8 DEF PodEnds, Recreate
<1>9. ASSUME NEW p \in Pod, Bind(p) PROVE NameInv'
  BY <1>9 DEF Bind
<1>10. CASE Uncordon
  BY <1>10 DEF Uncordon
<1>11. CASE BudgetMoves
  BY <1>11 DEF BudgetMoves
<1>12. CASE UNCHANGED vars
  BY <1>12 DEF vars
<1>. QED
  BY <1>1, <1>2, <1>3, <1>4, <1>5, <1>6, <1>7, <1>8, <1>9, <1>10, <1>11, <1>12
     DEF Next, Drain, Others

(* Whatever evictPod hits away from the node was recreated under the name  *)
(* of a pod getPodsOnNode returned, after it returned.                     *)
THEOREM StraysAreRecreated == Spec => []StraysWereRecreated
<1>1. Init => NameInv
  BY DEF Init, NameInv
<1>2. Inv /\ NameInv /\ [Next]_vars => NameInv'
  BY NameStep
<1>3. NameInv => StraysWereRecreated
  BY DEF NameInv, StraysWereRecreated
<1>. QED  BY Invariance, <1>1, <1>2, <1>3, PTL DEF Spec
-----------------------------------------------------------------------------
(* A drain is finite: a call for the cordon, one for the list and one for  *)
(* each pod of it.  Every step of the drain uses one up, refusals and      *)
(* errors included, and nothing others do meanwhile adds any: a pod that   *)
(* is recreated or placed during the loop does not prolong it.             *)
CallsLeft ==
    CASE pc = "idle"  -> 0
      [] pc = "evict" -> Cardinality(rest) + 1
      [] pc = "list"  -> Cardinality(Pod) + 2
      [] OTHER        -> Cardinality(Pod) + 3

DrainAdvances ==
    [][ /\ Drain => CallsLeft' < CallsLeft
        /\ pc # "idle" => CallsLeft' <= CallsLeft ]_vars

LEMMA RestBounded ==
    ASSUME TypeOK
    PROVE  /\ IsFiniteSet(rest) /\ Cardinality(rest) \in Nat
           /\ Cardinality(Pod) \in Nat /\ Cardinality(rest) <= Cardinality(Pod)
<1>1. IsFiniteSet(Pod) /\ Cardinality(Pod) \in Nat
  BY DrainerAssumption, FS_CardinalityType
<1>2. rest \in SUBSET Pod
  BY DEF TypeOK
<1>3. IsFiniteSet(rest) /\ Cardinality(rest) <= Cardinality(Pod)
  BY <1>1, <1>2, FS_Subset
<1>. QED  BY <1>1, <1>3, FS_CardinalityType

LEMMA CallsLess ==
    ASSUME TypeOK, TypeOK', Drain
    PROVE  CallsLeft' \in Nat /\ CallsLeft' < CallsLeft
<1>. DEFINE N == Cardinality(Pod)
            k == Cardinality(rest)
            l == Cardinality(rest')
<1>1. IsFiniteSet(rest) /\ N \in Nat /\ k \in Nat
  BY RestBounded
<1>2. l \in Nat /\ l <= N
  <2>1. rest' \in SUBSET Pod /\ IsFiniteSet(Pod)
    BY DrainerAssumption DEF TypeOK
  <2>. QED  BY <2>1, FS_Subset, FS_CardinalityType
<1>3. /\ pc = "cordon" => CallsLeft = N + 3
      /\ pc = "list" => CallsLeft = N + 2
      /\ pc = "evict" => CallsLeft = k + 1
      /\ pc' = "idle" => CallsLeft' = 0
      /\ pc' = "list" => CallsLeft' = N + 2
      /\ pc' = "evict" => CallsLeft' = l + 1
  BY DEF CallsLeft
<1>4. ASSUME NEW p \in rest, rest' = rest \ {p} PROVE l = k - 1
  BY <1>1, <1>4, FS_RemoveElement
<1>. HIDE DEF N, k, l
<1>5. CASE CordonNode
  <2>1. pc = "cordon" /\ pc' \in {"list", "idle"}
    BY <1>5 DEF CordonNode, Abort
  <2>. QED  BY <2>1, <1>1, <1>2, <1>3
<1>6. CASE ListPods
  <2>1. pc = "list" /\ pc' \in {"evict", "idle"}
    BY <1>6 DEF ListPods, Abort
  <2>. QED  BY <2>1, <1>1, <1>2, <1>3
<1>7. CASE Finish
  <2>1. pc = "evict" /\ pc' = "idle"
    BY <1>7 DEF Finish
  <2>. QED  BY <2>1, <1>1, <1>2, <1>3
<1>8. ASSUME NEW p \in Pod, SkipPod(p) \/ EvictPod(p) \/ EvictFails(p)
      PROVE  CallsLeft' \in Nat /\ CallsLeft' < CallsLeft
  <2>1. /\ pc = "evict" /\ p \in rest
        /\ \/ pc' = "evict" /\ rest' = rest \ {p}
           \/ pc' = "idle"
    BY <1>8 DEF SkipPod, EvictPod, EvictFails, AfterFailure, Abort
  <2>. QED  BY <2>1, <1>1, <1>2, <1>3, <1>4
<1>. QED  BY <1>5, <1>6, <1>7, <1>8 DEF Drain

(* For any set of pods a drain takes at most three steps more than there   *)
(* are pods, whatever budgets and other actors do: the safety half of      *)
(* DrainReturns.                                                           *)
THEOREM DrainsAdvance == Spec => DrainAdvances
<1>1. ASSUME Inv, Inv', [Next]_vars
      PROVE  /\ Drain => CallsLeft' < CallsLeft
             /\ pc # "idle" => CallsLeft' <= CallsLeft
  <2>t. TypeOK /\ TypeOK'
    BY <1>1 DEF Inv
  <2>1. CallsLeft \in Nat
    BY <2>t, RestBounded DEF CallsLeft
  <2>2. CASE Drain
    <3>1. CallsLeft' \in Nat /\ CallsLeft' < CallsLeft
      BY <2>t, <2>2, CallsLess
    <3>. QED  BY <2>1, <3>1
  <2>3. Drain => CallsLeft' < CallsLeft
    BY <2>t, CallsLess
  <2>4. CASE Begin
    BY <2>3, <2>4 DEF Begin
  <2>5. ASSUME UNCHANGED <<pc, rest>> PROVE CallsLeft' = CallsLeft
    BY <2>5 DEF CallsLeft
  <2>6. CASE Others \/ UNCHANGED vars
    <3>1. UNCHANGED <<pc, rest>>
      BY <2>6 DEF Others, PodEnds, Recreate, Bind, Uncordon, BudgetMoves, vars, callVars
    <3>. QED  BY <2>1, <2>3, <2>5, <3>1
  <2>. QED  BY <1>1, <2>2, <2>4, <2>6 DEF Next
<1>2. Inv /\ Inv' /\ [Next]_vars =>
        [ /\ Drain => CallsLeft' < CallsLeft
          /\ pc # "idle" => CallsLeft' <= CallsLeft ]_vars
  BY <1>1
<1>. QED  BY Invariance, <1>2, PTL DEF Spec, DrainAdvances
=============================================================================
