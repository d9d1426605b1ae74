--------------------------- MODULE ReconcileProofs ---------------------------
(***************************************************************************)
(* Proofs of the safety properties of Reconcile for every cluster, every   *)
(* set of assessments and every bound.  All of them follow from one        *)
(* inductive invariant, Inv.                                               *)
(***************************************************************************)
EXTENDS Reconcile, SumTheorems

-----------------------------------------------------------------------------
(* The inductive invariant, part by part. *)
InHand    == {"recheck", "drain", "cleanup"}
Selected  == {"guard", "steer", "request", "prepare", "execute"} \cup InHand

(* The nodes the drain limit let through that are there to be drained. *)
Drains == {n \in todo : plan[n].action # "hold"}

(* executeAction works on a node of the list that its loop has left behind *)
(* and has not drained before; drained nodes come from the list too.       *)
CursorInv ==
    /\ pc \in InHand => cur \in todo \ pending
    /\ pc \in {"recheck", "drain"} => cur \notin attempted
    /\ attempted \subseteq todo \ pending
    /\ pc \notin Executing => attempted = {}

(* What applyDrainLimit decided still holds of what is left of its list. *)
LimitInv ==
    /\ pc \in Selected => Cardinality(Drains) <= DrainLimit(total, budget)
    /\ pc \in Selected => \A n \in Drains, d \in deferred : ~Before(d, n)
    /\ pc \notin Selected => deferred = {} /\ limits = {}
    /\ \A l \in limits : KarpenterEnabled /\ 0 <= budget /\ budget <= l

(* The guardrails never turn a capacity-only entry into a drain, and what  *)
(* reaches the drainer has the direction of its node.                      *)
ActionInv ==
    /\ pc \in Selected => \A n \in todo : plan[n].action = "hold" => act[n] = "hold"
    /\ \A n \in attempted : act[n] # "hold" /\ DirectionFits(act[n], n)
    /\ pc \in InHand => act[cur] # "hold" /\ DirectionFits(act[cur], cur)

(* seen records every node that is managed while the loop executes. *)
SeenInv ==
    /\ pc \in Executing => \A n \in Node : label[n] = "managed" => n \in seen
    /\ pc \in InHand => cur \in seen
    /\ attempted \subseteq seen

(* The cleanup is reached only through a completed drain, never in a dry   *)
(* run.                                                                    *)
CleanupInv ==
    /\ terminated \subseteq emptied
    /\ pc = "cleanup" => cur \in emptied /\ mode # "dry-run"
    /\ mode = "dry-run" => cordoned = {} /\ terminated = {}

Inv == TypeOK /\ CursorInv /\ LimitInv /\ ActionInv /\ SeenInv /\ CleanupInv

-----------------------------------------------------------------------------
(* Facts about the operators. *)

(* GuardrailChecker.Check never turns a hold into a move, nor an increase  *)
(* into a decrease or back.                                                *)
LEMMA CheckKeepsDirection ==
    ASSUME NEW a \in Action, NEW s, NEW c, NEW u \in Percent, NEW pods
    PROVE  /\ Check(a, s, c, u, pods).approved \in BOOLEAN
           /\ Check(a, s, c, u, pods).action \in Action
           /\ a = "hold" <=> Check(a, s, c, u, pods).action = "hold"
           /\ a \in Increase => Check(a, s, c, u, pods).action \in Increase
           /\ a \in Decrease => Check(a, s, c, u, pods).action \in Decrease
<1>1. /\ CheckHighUtilization(a, u).approved \in BOOLEAN
      /\ CheckHighUtilization(a, u).action \in {a, "decrease30"}
      /\ a \notin Decrease => CheckHighUtilization(a, u).action = a
  BY DEF CheckHighUtilization, Approve, Block, Action, Increase, Decrease, Percent
<1>2. /\ Check(a, s, c, u, pods).approved \in BOOLEAN
      /\ Check(a, s, c, u, pods).action \in {a, "decrease30"}
      /\ a \notin Decrease => Check(a, s, c, u, pods).action = a
  <2>1. CASE a = "hold"
    BY <2>1 DEF Check, Approve
  <2>2. CASE a # "hold" /\ (FractionTooHigh(s) \/ LowConfidence(c))
    BY <2>2 DEF Check, Block
  <2>3. CASE a # "hold" /\ ~(FractionTooHigh(s) \/ LowConfidence(c))
    <3>1. Check(a, s, c, u, pods) = IF MustBeGraceful(a, pods) THEN Approve("decrease30")
                                    ELSE CheckHighUtilization(a, u)
      BY <2>3 DEF Check
    <3>2. CASE MustBeGraceful(a, pods)
      <4>1. a = "exit"
        BY <3>2, Zenon DEF MustBeGraceful
      <4>2. Check(a, s, c, u, pods) = Approve("decrease30")
        BY <3>1, <3>2
      <4>3. /\ Check(a, s, c, u, pods).approved = TRUE
            /\ Check(a, s, c, u, pods).action = "decrease30"
        BY <4>2 DEF Approve
      <4>. QED  BY <4>1, <4>3 DEF Decrease
    <3>3. CASE ~MustBeGraceful(a, pods)
      BY <3>1, <3>3, <1>1
    <3>. QED  BY <3>2, <3>3
  <2>. QED  BY <2>1, <2>2, <2>3
<1>. QED  BY <1>2 DEF Action, Increase, Decrease

(* The clamp to [minSpotRatio, maxSpotRatio] keeps a ratio a ratio. *)
LEMMA NextRatioType ==
    ASSUME NEW a \in Action, NEW r \in Tenths
    PROVE  NextRatio(a, r) \in Tenths
<1>1. Delta(a) \in {-3, -1, 0, 1, 3}
  BY DEF Delta, Action, Increase, Decrease
<1>. QED  BY <1>1, ReconcileAssumption DEF NextRatio, Clamp, Tenths

(* The drain limit is a share of the cluster, or one node, and never above *)
(* a budget that was read.                                                 *)
LEMMA DrainLimitBound ==
    ASSUME NEW t \in Nat, NEW b \in Int
    PROVE  /\ DrainLimit(t, b) \in Nat
           /\ DrainLimit(t, b) <= 1 \/ 100 * DrainLimit(t, b) <= MaxDrainPct * t
           /\ KarpenterEnabled /\ b >= 0 => DrainLimit(t, b) <= b
<1>. DEFINE x == t * MaxDrainPct
<1>1. x \in Nat /\ x = MaxDrainPct * t
  BY MaxDrainPctAssumption
<1>2. ASSUME NEW y \in Nat PROVE y \div 100 \in Nat /\ 100 * (y \div 100) <= y
  OBVIOUS
<1>. HIDE DEF x
<1>3. MaxDrain(t) = IF x \div 100 < 1 THEN 1 ELSE x \div 100
  BY DEF MaxDrain, x
<1>4. MaxDrain(t) \in Nat /\ (MaxDrain(t) <= 1 \/ 100 * MaxDrain(t) <= x)
  BY <1>1, <1>2, <1>3
<1>5. DrainLimit(t, b) = IF KarpenterEnabled /\ 0 <= b /\ b < MaxDrain(t)
                        THEN b ELSE MaxDrain(t)
  BY DEF DrainLimit
<1>6. CASE KarpenterEnabled /\ 0 <= b /\ b < MaxDrain(t)
  BY <1>1, <1>4, <1>5, <1>6
<1>7. CASE ~(KarpenterEnabled /\ 0 <= b /\ b < MaxDrain(t))
  BY <1>1, <1>4, <1>5, <1>7
<1>. QED  BY <1>6, <1>7

(* The minimum of the limits is one of them, hence no larger than any.     *)
LEMMA MostRestrictiveBound ==
    ASSUME NEW L \in SUBSET Nat, NEW b \in MostRestrictive(L)
    PROVE  b \in Int /\ \A l \in L : 0 <= b /\ b <= l
  BY DEF MostRestrictive

(* Limits are counts, and none is read without Karpenter. *)
LEMMA LimitsReadType ==
    ASSUME NEW D, NEW L \in LimitsRead(D)
    PROVE  L \subseteq Nat /\ (L # {} => KarpenterEnabled)
<1>1. CASE ~KarpenterEnabled
  BY <1>1 DEF LimitsRead
<1>2. CASE KarpenterEnabled
  <2>1. \E spec, read, got : L = LimitsOf(spec, read, got)
    BY <1>2 DEF LimitsRead
  <2>2. \A spec, read, got : LimitsOf(spec, read, got) \subseteq Nat
    BY DEF LimitsOf, Limits
  <2>. QED  BY <1>2, <2>1, <2>2
<1>. QED  BY <1>1, <1>2, ReconcileAssumption

-----------------------------------------------------------------------------
(* Every action keeps the types. *)
LEMMA TypeStep == Inv /\ [Next]_vars => TypeOK'
<1>. SUFFICES ASSUME Inv, [Next]_vars PROVE TypeOK'
  OBVIOUS
<1>. USE ReconcileAssumption
     DEF TypeOK, clusterVars, memoryVars, cycleVars, historyVars, boundVars
<1>t. TypeOK /\ (pc \in InHand => cur \in todo)
  BY DEF Inv, CursorInv
<1>1. CASE Observe
  <2>1. PICK t \in Totals, A \in SUBSET Node \ {{}} : \E f \in [A -> Assessment] :
          LET keep == {n \in A : Actionable(f[n])}
          IN  /\ Cardinality(A) <= t
              /\ keep # {}
              /\ total' = t
              /\ todo' = keep
              /\ plan' = [n \in Node |-> IF n \in keep THEN Upgraded(f[n]) ELSE NoPlan]
    BY <1>1 DEF Observe
  <2>2. PICK f \in [A -> Assessment] :
          /\ total' = t
          /\ todo' = {n \in A : Actionable(f[n])}
          /\ plan' = [n \in Node |-> IF n \in {k \in A : Actionable(f[k])}
                                    THEN Upgraded(f[n]) ELSE NoPlan]
    BY <2>1
  <2>3. NoPlan \in PlanRecord
    BY DEF NoPlan, PlanRecord, Action, Percent
  <2>4. ASSUME NEW n \in A PROVE Upgraded(f[n]) \in PlanRecord
    <3>1. f[n] \in PlanRecord
      BY DEF PlanRecord
    <3>. QED  BY <3>1 DEF Upgraded, PlanRecord, Action, Decrease
  <2>5. plan' \in [Node -> PlanRecord]
    BY <2>2, <2>3, <2>4
  <2>6. todo' \subseteq Node /\ total' \in Nat
    BY <2>2
  <2>7. tick' \in 0..MaxTicks
    BY <1>t, <1>1 DEF Observe
  <2>. QED  BY <1>t, <1>1, <2>5, <2>6, <2>7 DEF Observe, PC
<1>2. CASE FilterExecutable
  BY <1>t, <1>2 DEF FilterExecutable, PC
<1>3. CASE ApplyDrainLimit
  <2>1. act' \in [Node -> Action]
    BY <1>t, <1>3 DEF ApplyDrainLimit, PlanRecord
  <2>2. todo' \subseteq todo /\ deferred' \subseteq Node
    BY <1>t, <1>3 DEF ApplyDrainLimit
  <2>3. limits' \subseteq Nat /\ budget' \in Int
    <3>1. /\ limits' \in LimitsRead({n \in todo : plan[n].action # "hold"})
          /\ budget' \in MostRestrictive(limits')
      BY <1>3 DEF ApplyDrainLimit
    <3>. QED  BY <3>1, LimitsReadType, MostRestrictiveBound
  <2>. QED  BY <1>t, <1>3, <2>1, <2>2, <2>3 DEF ApplyDrainLimit, PC
<1>4. ASSUME NEW n \in Node, GuardBeforePrep(n) PROVE TypeOK'
  <2>1. \A pods \in PodFacts : Guarded(n, pods).action \in Action
    BY <1>t, CheckKeepsDirection DEF Guarded, PlanRecord
  <2>2. act' \in [Node -> Action]
    BY <1>t, <1>4, <2>1 DEF GuardBeforePrep
  <2>3. todo' \subseteq Node /\ pending' \subseteq todo'
    BY <1>t, <1>4 DEF GuardBeforePrep
  <2>. QED  BY <1>t, <1>4, <2>2, <2>3 DEF GuardBeforePrep, PC
<1>5. CASE GuardDone
  BY <1>t, <1>5 DEF GuardDone, PC
<1>6. CASE SteerWeights
  <2>1. weight' \in [Pool -> [Capacity -> {"high", "low"}]]
    BY <1>t, <1>6 DEF SteerWeights, SetWeight, WeightFor
  <2>2. cooling' \subseteq Pool
    BY <1>t, <1>6 DEF SteerWeights
  <2>. QED  BY <1>t, <1>6, <2>1, <2>2 DEF SteerWeights, PC
<1>7. CASE RequestSwaps
  <2>1. swap' \in [Pool -> Capacity \cup {None}]
    BY <1>t, <1>7 DEF RequestSwaps, SwapTo, Capacity
  <2>. QED  BY <1>t, <1>7, <2>1 DEF RequestSwaps, PC
<1>8. ASSUME NEW p \in Pool, PrepareSwap(p) PROVE TypeOK'
  <2>1. swap' \in [Pool -> Capacity \cup {None}] /\ swap[p] \in Capacity
    BY <1>t, <1>8 DEF PrepareSwap
  <2>2. desired' \in [Pool \cup {NoPool} -> [Capacity -> Int]]
    <3>1. [desired[p] EXCEPT ![swap[p]] = @ + 1] \in [Capacity -> Int]
      BY <1>t, <2>1
    <3>2. \/ desired' = desired
          \/ desired' = [desired EXCEPT ![p] = [desired[p] EXCEPT ![swap[p]] = @ + 1]]
      BY <1>8 DEF PrepareSwap
    <3>3. desired \in [Pool \cup {NoPool} -> [Capacity -> Int]]
      BY <1>t
    <3>. QED  BY <3>1, <3>2, <3>3
  <2>3. prepared' \subseteq Pool \X Capacity
    BY <1>t, <1>8, <2>1 DEF PrepareSwap
  <2>. QED  BY <1>t, <1>8, <2>1, <2>2, <2>3 DEF PrepareSwap, PC
<1>9. CASE PrepareDone
  BY <1>t, <1>9 DEF PrepareDone, PC
<1>10. ASSUME NEW n \in Node, Execute(n) PROVE TypeOK'
  BY <1>t, <1>10 DEF Execute, PC
<1>11. CASE Recheck
  <2>1. cur \in Node
    BY <1>t, <1>11 DEF Recheck, InHand
  <2>2. \A pods \in PodFacts : Guarded(cur, pods).action \in Action
    BY <1>t, <2>1, CheckKeepsDirection DEF Guarded, PlanRecord
  <2>3. act' \in [Node -> Action]
    BY <1>t, <1>11, <2>1, <2>2 DEF Recheck
  <2>4. targetSpotRatio' \in [RatioPool -> Tenths]
    <3>1. \/ targetSpotRatio' = targetSpotRatio
          \/ \E pods \in PodFacts : targetSpotRatio' =
                [targetSpotRatio EXCEPT ![PoolKey[cur]] =
                    NextRatio(Guarded(cur, pods).action, targetSpotRatio[PoolKey[cur]])]
      BY <1>11 DEF Recheck
    <3>2. PoolKey[cur] \in RatioPool /\ targetSpotRatio \in [RatioPool -> Tenths]
      BY <1>t, <2>1 DEF RatioPool
    <3>3. \A pods \in PodFacts :
             NextRatio(Guarded(cur, pods).action, targetSpotRatio[PoolKey[cur]]) \in Tenths
      BY <3>2, <2>2, NextRatioType
    <3>. QED  BY <3>1, <3>2, <3>3
  <2>5. pc' \in PC \ {"idle"} /\ cur' \in Node \cup {None}
    BY <1>t, <1>11, <2>1 DEF Recheck, Back, PC
  <2>. QED  BY <1>t, <1>11, <2>3, <2>4, <2>5 DEF Recheck
<1>12. CASE Drain
  <2>1. cur \in Node
    BY <1>t, <1>12 DEF Drain, InHand
  <2>2. pc' \in PC \ {"idle"} /\ cur' \in Node \cup {None}
    BY <1>t, <1>12, <2>1 DEF Drain, Back, PC
  <2>3. lastMigration' \subseteq Market
    BY <1>t, <1>12, <2>1 DEF Drain, Market
  <2>. QED  BY <1>t, <1>12, <2>1, <2>2, <2>3 DEF Drain
<1>13. CASE Cleanup
  <2>1. cur \in Node
    BY <1>t, <1>13 DEF Cleanup, InHand
  <2>2. desired' \in [Pool \cup {NoPool} -> [Capacity -> Int]]
    <3>1. PoolOf[cur] \in Pool \cup {NoPool} /\ SourceOf(cur) \in Capacity
      BY <1>t, <2>1 DEF SourceOf, Capacity, PoolOf
    <3>2. [desired[PoolOf[cur]] EXCEPT ![SourceOf(cur)] = @ - 1] \in [Capacity -> Int]
      BY <1>t, <3>1
    <3>3. \/ desired' = desired
          \/ desired' = [desired EXCEPT ![PoolOf[cur]] =
                            [desired[PoolOf[cur]] EXCEPT ![SourceOf(cur)] = @ - 1]]
      BY <1>13 DEF Cleanup, DesiredLess
    <3>4. desired \in [Pool \cup {NoPool} -> [Capacity -> Int]]
      BY <1>t
    <3>. QED  BY <3>1, <3>2, <3>3, <3>4
  <2>3. label' \in [Node -> Label]
    BY <1>t, <1>13, <2>1 DEF Cleanup, Label
  <2>4. lastMigration' \subseteq Market
    BY <1>t, <1>13, <2>1 DEF Cleanup, Market
  <2>5. terminated' \subseteq Node
    BY <1>t, <1>13, <2>1 DEF Cleanup
  <2>. QED  BY <1>t, <1>13, <2>2, <2>3, <2>4, <2>5 DEF Cleanup, Back, PC
<1>14. CASE Return
  BY <1>t, <1>14 DEF Return, Forget, PC, NoPlan, PlanRecord, Action, Percent
<1>15. ASSUME NEW n \in Node, Relabel(n) PROVE TypeOK'
  BY <1>t, <1>15 DEF Relabel
<1>16. ASSUME NEW p \in Pool, CooldownOver(p) PROVE TypeOK'
  BY <1>t, <1>16 DEF CooldownOver
<1>17. CASE Crash
  BY <1>t, <1>17 DEF Crash, Forget, SeedTargets, PC, NoPlan, PlanRecord, Action, Percent
<1>18. CASE UNCHANGED vars
  BY <1>t, <1>18 DEF vars
<1>. QED
  BY <1>1, <1>2, <1>3, <1>4, <1>5, <1>6, <1>7, <1>8, <1>9, <1>10, <1>11, <1>12,
     <1>13, <1>14, <1>15, <1>16, <1>17, <1>18 DEF Next, Controller, Environment

(* The loop over the selected nodes never comes back to one of them. *)
LEMMA CursorStep == Inv /\ [Next]_vars => CursorInv'
<1>. SUFFICES ASSUME Inv, [Next]_vars PROVE CursorInv'
  OBVIOUS
<1>. USE DEF TypeOK, CursorInv, clusterVars, memoryVars, cycleVars, historyVars, boundVars,
             InHand, Selected, Executing
<1>t. TypeOK /\ CursorInv
  BY DEF Inv
<1>1. CASE Observe
  BY <1>t, <1>1 DEF Observe
<1>2. CASE FilterExecutable
  BY <1>t, <1>2 DEF FilterExecutable
<1>3. CASE ApplyDrainLimit
  BY <1>t, <1>3 DEF ApplyDrainLimit
<1>4. ASSUME NEW n \in Node, GuardBeforePrep(n) PROVE CursorInv'
  BY <1>t, <1>4 DEF GuardBeforePrep
<1>5. CASE GuardDone
  BY <1>t, <1>5 DEF GuardDone
<1>6. CASE SteerWeights
  BY <1>t, <1>6 DEF SteerWeights
<1>7. CASE RequestSwaps
  BY <1>t, <1>7 DEF RequestSwaps
<1>8. ASSUME NEW p \in Pool, PrepareSwap(p) PROVE CursorInv'
  BY <1>t, <1>8 DEF PrepareSwap
<1>9. CASE PrepareDone
  BY <1>t, <1>9 DEF PrepareDone
<1>10. ASSUME NEW n \in Node, Execute(n) PROVE CursorInv'
  BY <1>t, <1>10 DEF Execute, First
<1>11. CASE Recheck
  BY <1>t, <1>11 DEF Recheck, Back
<1>12. CASE Drain
  BY <1>t, <1>12 DEF Drain, Back
<1>13. CASE Cleanup
  BY <1>t, <1>13 DEF Cleanup, Back
<1>14. CASE Return
  BY <1>t, <1>14 DEF Return, Forget
<1>15. ASSUME NEW n \in Node, Relabel(n) PROVE CursorInv'
  BY <1>t, <1>15 DEF Relabel
<1>16. ASSUME NEW p \in Pool, CooldownOver(p) PROVE CursorInv'
  BY <1>t, <1>16 DEF CooldownOver
<1>17. CASE Crash
  BY <1>t, <1>17 DEF Crash, Forget
<1>18. CASE UNCHANGED vars
  BY <1>t, <1>18 DEF vars
<1>. QED
  BY <1>1, <1>2, <1>3, <1>4, <1>5, <1>6, <1>7, <1>8, <1>9, <1>10, <1>11, <1>12,
     <1>13, <1>14, <1>15, <1>16, <1>17, <1>18 DEF Next, Controller, Environment

(* Every node that is or becomes managed during a cycle is recorded. *)
LEMMA SeenStep == Inv /\ [Next]_vars => SeenInv'
<1>. SUFFICES ASSUME Inv, [Next]_vars PROVE SeenInv'
  OBVIOUS
<1>. USE DEF TypeOK, CursorInv, SeenInv, clusterVars, memoryVars, cycleVars, historyVars, boundVars,
             InHand, Selected, Executing
<1>t. TypeOK /\ CursorInv /\ SeenInv
  BY DEF Inv
<1>1. CASE Observe
  BY <1>t, <1>1 DEF Observe
<1>2. CASE FilterExecutable
  BY <1>t, <1>2 DEF FilterExecutable
<1>3. CASE ApplyDrainLimit
  BY <1>t, <1>3 DEF ApplyDrainLimit
<1>4. ASSUME NEW n \in Node, GuardBeforePrep(n) PROVE SeenInv'
  BY <1>t, <1>4 DEF GuardBeforePrep
<1>5. CASE GuardDone
  BY <1>t, <1>5 DEF GuardDone
<1>6. CASE SteerWeights
  BY <1>t, <1>6 DEF SteerWeights
<1>7. CASE RequestSwaps
  BY <1>t, <1>7 DEF RequestSwaps
<1>8. ASSUME NEW p \in Pool, PrepareSwap(p) PROVE SeenInv'
  BY <1>t, <1>8 DEF PrepareSwap
<1>9. CASE PrepareDone
  BY <1>t, <1>9 DEF PrepareDone
<1>10. ASSUME NEW n \in Node, Execute(n) PROVE SeenInv'
  BY <1>t, <1>10 DEF Execute, MayExecute
<1>11. CASE Recheck
  BY <1>t, <1>11 DEF Recheck, Back
<1>12. CASE Drain
  BY <1>t, <1>12 DEF Drain, Back
<1>13. CASE Cleanup
  BY <1>t, <1>13 DEF Cleanup, Back
<1>14. CASE Return
  BY <1>t, <1>14 DEF Return, Forget
<1>15. ASSUME NEW n \in Node, Relabel(n) PROVE SeenInv'
  BY <1>t, <1>15 DEF Relabel
<1>16. ASSUME NEW p \in Pool, CooldownOver(p) PROVE SeenInv'
  BY <1>t, <1>16 DEF CooldownOver
<1>17. CASE Crash
  BY <1>t, <1>17 DEF Crash, Forget
<1>18. CASE UNCHANGED vars
  BY <1>t, <1>18 DEF vars
<1>. QED
  BY <1>1, <1>2, <1>3, <1>4, <1>5, <1>6, <1>7, <1>8, <1>9, <1>10, <1>11, <1>12,
     <1>13, <1>14, <1>15, <1>16, <1>17, <1>18 DEF Next, Controller, Environment

(* The cleanup follows completed drains only. *)
LEMMA CleanupStep == Inv /\ [Next]_vars => CleanupInv'
<1>. SUFFICES ASSUME Inv, [Next]_vars PROVE CleanupInv'
  OBVIOUS
<1>. USE DEF TypeOK, CursorInv, CleanupInv, clusterVars, memoryVars, cycleVars, historyVars, boundVars,
             InHand, Selected, Executing
<1>t. TypeOK /\ CursorInv /\ CleanupInv
  BY DEF Inv
<1>1. CASE Observe
  BY <1>t, <1>1 DEF Observe
<1>2. CASE FilterExecutable
  BY <1>t, <1>2 DEF FilterExecutable
<1>3. CASE ApplyDrainLimit
  BY <1>t, <1>3 DEF ApplyDrainLimit
<1>4. ASSUME NEW n \in Node, GuardBeforePrep(n) PROVE CleanupInv'
  BY <1>t, <1>4 DEF GuardBeforePrep
<1>5. CASE GuardDone
  BY <1>t, <1>5 DEF GuardDone
<1>6. CASE SteerWeights
  BY <1>t, <1>6 DEF SteerWeights
<1>7. CASE RequestSwaps
  BY <1>t, <1>7 DEF RequestSwaps
<1>8. ASSUME NEW p \in Pool, PrepareSwap(p) PROVE CleanupInv'
  BY <1>t, <1>8 DEF PrepareSwap
<1>9. CASE PrepareDone
  BY <1>t, <1>9 DEF PrepareDone
<1>10. ASSUME NEW n \in Node, Execute(n) PROVE CleanupInv'
  BY <1>t, <1>10 DEF Execute
<1>11. CASE Recheck
  BY <1>t, <1>11 DEF Recheck, Back
<1>12. CASE Drain
  BY <1>t, <1>12 DEF Drain, Back, DrainOutcomes, NeedsCleanup
<1>13. CASE Cleanup
  BY <1>t, <1>13 DEF Cleanup, Back
<1>14. CASE Return
  BY <1>t, <1>14 DEF Return, Forget
<1>15. ASSUME NEW n \in Node, Relabel(n) PROVE CleanupInv'
  BY <1>t, <1>15 DEF Relabel
<1>16. ASSUME NEW p \in Pool, CooldownOver(p) PROVE CleanupInv'
  BY <1>t, <1>16 DEF CooldownOver
<1>17. CASE Crash
  BY <1>t, <1>17 DEF Crash, Forget
<1>18. CASE UNCHANGED vars
  BY <1>t, <1>18 DEF vars
<1>. QED
  BY <1>1, <1>2, <1>3, <1>4, <1>5, <1>6, <1>7, <1>8, <1>9, <1>10, <1>11, <1>12,
     <1>13, <1>14, <1>15, <1>16, <1>17, <1>18 DEF Next, Controller, Environment

(* No guardrail pass, and no order of the two, turns a hold into a drain   *)
(* or a drain around.                                                      *)
LEMMA ActionStep == Inv /\ [Next]_vars => ActionInv'
<1>. SUFFICES ASSUME Inv, [Next]_vars PROVE ActionInv'
  OBVIOUS
<1>. USE DEF TypeOK, CursorInv, ActionInv, clusterVars, memoryVars, cycleVars, historyVars, boundVars,
             InHand, Selected, Executing
<1>t. TypeOK /\ CursorInv /\ ActionInv
  BY DEF Inv
<1>1. CASE Observe
  BY <1>t, <1>1 DEF Observe
<1>2. CASE FilterExecutable
  BY <1>t, <1>2 DEF FilterExecutable
<1>3. CASE ApplyDrainLimit
  BY <1>t, <1>3 DEF ApplyDrainLimit
<1>4. ASSUME NEW n \in Node, GuardBeforePrep(n) PROVE ActionInv'
  <2>1. ASSUME NEW pods \in PodFacts, act[n] = "hold"
        PROVE  Guarded(n, pods).action = "hold"
    BY <1>t, <2>1, CheckKeepsDirection DEF Guarded, PlanRecord
  <2>2. ASSUME NEW k \in todo', plan[k].action = "hold" PROVE act'[k] = "hold"
    BY <1>t, <1>4, <2>1, <2>2 DEF GuardBeforePrep
  <2>. QED  BY <1>t, <1>4, <2>2 DEF GuardBeforePrep
<1>5. CASE GuardDone
  BY <1>t, <1>5 DEF GuardDone
<1>6. CASE SteerWeights
  BY <1>t, <1>6 DEF SteerWeights
<1>7. CASE RequestSwaps
  BY <1>t, <1>7 DEF RequestSwaps
<1>8. ASSUME NEW p \in Pool, PrepareSwap(p) PROVE ActionInv'
  BY <1>t, <1>8 DEF PrepareSwap
<1>9. CASE PrepareDone
  BY <1>t, <1>9 DEF PrepareDone
<1>10. ASSUME NEW n \in Node, Execute(n) PROVE ActionInv'
  BY <1>t, <1>10 DEF Execute, MayExecute
<1>11. CASE Recheck
  <2>1. cur \in Node /\ cur \notin attempted
    BY <1>t, <1>11 DEF Recheck
  <2>2. ASSUME NEW pods \in PodFacts
        PROVE  LET a == Guarded(cur, pods).action
               IN  a # "hold" /\ DirectionFits(a, cur)
    <3>1. act[cur] \in Action \ {"hold"} /\ DirectionFits(act[cur], cur)
      BY <1>t, <1>11, <2>1 DEF Recheck
    <3>2. plan[cur].util \in Percent
      BY <1>t, <2>1 DEF PlanRecord
    <3>3. LET a == Guarded(cur, pods).action
          IN  /\ a # "hold"
              /\ act[cur] \in Increase => a \in Increase
              /\ act[cur] \in Decrease => a \in Decrease
      BY <3>1, <3>2, CheckKeepsDirection DEF Guarded
    <3>. QED  BY <3>1, <3>3 DEF DirectionFits, Action, Increase, Decrease
  <2>3. /\ \A n \in Node \ {cur} : act'[n] = act[n]
        /\ \/ act'[cur] = act[cur]
           \/ act'[cur] # "hold" /\ DirectionFits(act'[cur], cur)
    BY <1>t, <1>11, <2>1, <2>2 DEF Recheck
  <2>. QED  BY <1>t, <1>11, <2>1, <2>3 DEF Recheck, Back
<1>12. CASE Drain
  BY <1>t, <1>12 DEF Drain, Back
<1>13. CASE Cleanup
  BY <1>t, <1>13 DEF Cleanup, Back
<1>14. CASE Return
  BY <1>t, <1>14 DEF Return, Forget
<1>15. ASSUME NEW n \in Node, Relabel(n) PROVE ActionInv'
  BY <1>t, <1>15 DEF Relabel
<1>16. ASSUME NEW p \in Pool, CooldownOver(p) PROVE ActionInv'
  BY <1>t, <1>16 DEF CooldownOver
<1>17. CASE Crash
  BY <1>t, <1>17 DEF Crash, Forget
<1>18. CASE UNCHANGED vars
  BY <1>t, <1>18 DEF vars
<1>. QED
  BY <1>1, <1>2, <1>3, <1>4, <1>5, <1>6, <1>7, <1>8, <1>9, <1>10, <1>11, <1>12,
     <1>13, <1>14, <1>15, <1>16, <1>17, <1>18 DEF Next, Controller, Environment

(* Later steps only shorten the list applyDrainLimit left. *)
LEMMA LimitStep == Inv /\ [Next]_vars => LimitInv'
<1>. SUFFICES ASSUME Inv, [Next]_vars PROVE LimitInv'
  OBVIOUS
<1>. USE DEF clusterVars, memoryVars, cycleVars, historyVars, boundVars
<1>t. TypeOK /\ CursorInv /\ LimitInv
  BY DEF Inv
<1>fin. IsFiniteSet(Drains) /\ Cardinality(Drains) \in Nat
  <2>1. Drains \subseteq Node
    BY <1>t DEF Drains, TypeOK
  <2>. QED  BY <2>1, ReconcileAssumption, FS_Subset, FS_CardinalityType
<1>keep. ASSUME pc \in Selected, pc' \in Selected, todo' \subseteq todo,
                UNCHANGED <<plan, total, budget, deferred, limits>>
         PROVE  LimitInv'
  <2>1. Drains' \subseteq Drains
    BY <1>keep DEF Drains
  <2>2. Cardinality(Drains') <= Cardinality(Drains) /\ Cardinality(Drains') \in Nat
    BY <2>1, <1>fin, FS_Subset, FS_CardinalityType
  <2>3. DrainLimit(total, budget) \in Nat /\ DrainLimit(total, budget)' = DrainLimit(total, budget)
    BY <1>t, <1>keep, DrainLimitBound DEF TypeOK, DrainLimit, MaxDrain
  <2>4. Cardinality(Drains)' <= DrainLimit(total, budget)'
    BY <1>t, <1>keep, <1>fin, <2>2, <2>3 DEF LimitInv
  <2>5. \A d, n : Before(d, n)' <=> Before(d, n)
    BY <1>keep DEF Before, Class
  <2>6. \A n \in Drains', d \in deferred' : ~Before(d, n)'
    BY <1>t, <1>keep, <2>1, <2>5 DEF LimitInv
  <2>. QED  BY <2>4, <2>6, <1>keep, <1>t DEF LimitInv
<1>drop. ASSUME deferred' = {}, limits' = {}, pc' \notin Selected PROVE LimitInv'
  BY <1>drop DEF LimitInv
<1>1. CASE Observe
  BY <1>t, <1>1, <1>drop DEF Observe, LimitInv, Selected, InHand
<1>2. CASE FilterExecutable
  BY <1>t, <1>2, <1>drop DEF FilterExecutable, LimitInv, Selected, InHand
<1>3. CASE ApplyDrainLimit
  <2>. DEFINE D == {n \in todo : plan[n].action # "hold"}
  <2>1. PICK keep \in SUBSET D :
          /\ Cardinality(keep) <= DrainLimit(total, budget')
          /\ \A k \in keep, d \in D \ keep : ~Before(d, k)
          /\ todo' = (todo \ D) \cup keep
          /\ deferred' = D \ keep
    BY <1>3 DEF ApplyDrainLimit
  <2>2. total' = total /\ plan' = plan /\ pc' = "guard"
    BY <1>3 DEF ApplyDrainLimit
  <2>3. Drains' = keep
    BY <2>1, <2>2 DEF Drains
  <2>4. DrainLimit(total, budget)' = DrainLimit(total, budget')
    BY <2>2 DEF DrainLimit, MaxDrain
  <2>5. \A d, n : Before(d, n)' <=> Before(d, n)
    BY <2>2 DEF Before, Class
  <2>6. /\ limits' \in LimitsRead(D)
        /\ budget' \in MostRestrictive(limits')
    BY <1>3 DEF ApplyDrainLimit
  <2>7. \A l \in limits' : KarpenterEnabled /\ 0 <= budget' /\ budget' <= l
    BY <2>6, LimitsReadType, MostRestrictiveBound
  <2>. QED  BY <2>1, <2>2, <2>3, <2>4, <2>5, <2>7 DEF LimitInv, Selected
<1>4. ASSUME NEW n \in Node, GuardBeforePrep(n) PROVE LimitInv'
  BY <1>4, <1>keep DEF GuardBeforePrep, Selected
<1>5. CASE GuardDone
  BY <1>5, <1>keep DEF GuardDone, Selected
<1>6. CASE SteerWeights
  BY <1>6, <1>keep DEF SteerWeights, Selected
<1>7. CASE RequestSwaps
  BY <1>7, <1>keep DEF RequestSwaps, Selected
<1>8. ASSUME NEW p \in Pool, PrepareSwap(p) PROVE LimitInv'
  BY <1>8, <1>keep DEF PrepareSwap, Selected
<1>9. CASE PrepareDone
  BY <1>9, <1>keep DEF PrepareDone, Selected
<1>10. ASSUME NEW n \in Node, Execute(n) PROVE LimitInv'
  BY <1>10, <1>keep DEF Execute, Selected, InHand
<1>11. CASE Recheck
  BY <1>11, <1>keep DEF Recheck, Back, Selected, InHand
<1>12. CASE Drain
  BY <1>12, <1>keep DEF Drain, Back, Selected, InHand
<1>13. CASE Cleanup
  BY <1>13, <1>keep DEF Cleanup, Back, Selected, InHand
<1>14. CASE Return
  BY <1>14, <1>drop DEF Return, Forget, Selected, InHand
<1>15. ASSUME NEW n \in Node, Relabel(n) PROVE LimitInv'
  <2>1. CASE pc \in Selected
    BY <1>15, <2>1, <1>keep DEF Relabel
  <2>2. CASE pc \notin Selected
    BY <1>t, <1>15, <2>2, <1>drop DEF Relabel, LimitInv
  <2>. QED  BY <2>1, <2>2
<1>16. ASSUME NEW p \in Pool, CooldownOver(p) PROVE LimitInv'
  <2>1. CASE pc \in Selected
    BY <1>16, <2>1, <1>keep DEF CooldownOver
  <2>2. CASE pc \notin Selected
    BY <1>t, <1>16, <2>2, <1>drop DEF CooldownOver, LimitInv
  <2>. QED  BY <2>1, <2>2
<1>17. CASE Crash
  BY <1>17, <1>drop DEF Crash, Forget, Selected, InHand
<1>18. CASE UNCHANGED vars
  <2>1. CASE pc \in Selected
    BY <1>18, <2>1, <1>keep DEF vars
  <2>2. CASE pc \notin Selected
    BY <1>t, <1>18, <2>2, <1>drop DEF vars, LimitInv
  <2>. QED  BY <2>1, <2>2
<1>. QED
  BY <1>1, <1>2, <1>3, <1>4, <1>5, <1>6, <1>7, <1>8, <1>9, <1>10, <1>11, <1>12,
     <1>13, <1>14, <1>15, <1>16, <1>17, <1>18 DEF Next, Controller, Environment

-----------------------------------------------------------------------------
LEMMA InitInv == Init => Inv
<1>. SUFFICES ASSUME Init PROVE Inv
  OBVIOUS
<1>1. TypeOK
  <2>1. NoPlan \in PlanRecord /\ "hold" \in Action
    BY DEF NoPlan, PlanRecord, Action, Percent
  <2>2. weight \in [Pool -> [Capacity -> {"high", "low"}]]
    BY DEF Init, WeightFor
  <2>3. desired \in [Pool \cup {NoPool} -> [Capacity -> Int]]
    BY ReconcileAssumption DEF Init
  <2>4. targetSpotRatio \in [RatioPool -> Tenths]
    BY ReconcileAssumption DEF Init
  <2>5. tick \in 0..MaxTicks /\ churn \in 0..MaxChurn
    BY ReconcileAssumption DEF Init
  <2>6. /\ label \in [Node -> Label]
        /\ swap \in [Pool -> Capacity \cup {None}]
        /\ plan \in [Node -> PlanRecord] /\ act \in [Node -> Action]
    BY <2>1, ReconcileAssumption DEF Init
  <2>7. /\ pc = "idle" /\ total = 0 /\ budget = -1 /\ cur = None
        /\ todo = {} /\ pending = {} /\ cooling = {} /\ lastMigration = {}
        /\ cordoned = {} /\ terminated = {} /\ emptied = {} /\ prepared = {}
        /\ seen = {} /\ deferred = {} /\ attempted = {} /\ mode \in Modes
        /\ limits = {}
    BY DEF Init
  <2>. QED  BY <2>2, <2>3, <2>4, <2>5, <2>6, <2>7 DEF TypeOK, PC
<1>2. CursorInv /\ ActionInv /\ SeenInv /\ CleanupInv
  BY DEF Init, CursorInv, ActionInv, SeenInv, CleanupInv, InHand, Selected, Executing
<1>3. LimitInv
  BY DEF Init, LimitInv, Selected, InHand
<1>. QED  BY <1>1, <1>2, <1>3 DEF Inv

(* Inv holds in every reachable state, for every value of the constants. *)
THEOREM Invariance == Spec => []Inv
<1>1. Inv /\ [Next]_vars => Inv'
  BY TypeStep, CursorStep, LimitStep, ActionStep, SeenStep, CleanupStep DEF Inv
<1>. QED  BY InitInv, <1>1, PTL DEF Spec

(* Every variable of the controller and the cluster keeps its type; in     *)
(* particular targetSpotRatio stays a ratio whatever order of actions and  *)
(* crashes moves it.                                                       *)
THEOREM TypeCorrect == Spec => []TypeOK
<1>1. Inv => TypeOK
  BY DEF Inv
<1>. QED  BY Invariance, <1>1, PTL

(* The number of nodes a cycle hands to the drainer never exceeds the      *)
(* share applyDrainLimit computes, nor the disruption budget it read.      *)
THEOREM DrainsStayWithinLimit == Spec => []DrainsWithinLimit
<1>1. Inv => DrainsWithinLimit
  <2>. SUFFICES ASSUME Inv PROVE DrainsWithinLimit
    OBVIOUS
  <2>t. total \in Nat /\ budget \in Int /\ limits \subseteq Nat /\ todo \subseteq Node
    BY DEF Inv, TypeOK
  <2>1. CASE pc \notin Executing
    <3>1. Cardinality(attempted) = 0
      BY <2>1, FS_EmptySet DEF Inv, CursorInv
    <3>. QED  BY <2>t, <3>1 DEF DrainsWithinLimit
  <2>2. CASE pc \in Executing
    <3>1. attempted \subseteq Drains /\ pc \in Selected
      BY <2>2 DEF Inv, CursorInv, ActionInv, Drains, Executing, Selected, InHand
    <3>2. IsFiniteSet(Drains)
      BY <2>t, ReconcileAssumption, FS_Subset DEF Drains
    <3>3. /\ Cardinality(attempted) \in Nat /\ Cardinality(Drains) \in Nat
          /\ Cardinality(attempted) <= Cardinality(Drains)
      BY <3>1, <3>2, FS_Subset, FS_CardinalityType
    <3>4. Cardinality(Drains) <= DrainLimit(total, budget)
      BY <3>1 DEF Inv, LimitInv
    <3>5. /\ DrainLimit(total, budget) \in Nat
          /\ \/ DrainLimit(total, budget) <= 1
             \/ 100 * DrainLimit(total, budget) <= MaxDrainPct * total
          /\ KarpenterEnabled /\ budget >= 0 => DrainLimit(total, budget) <= budget
      BY <2>t, DrainLimitBound
    <3>6. Cardinality(attempted) <= DrainLimit(total, budget)
      BY <3>3, <3>4, <3>5
    <3>7. MaxDrainPct * total \in Nat
      BY <2>t, MaxDrainPctAssumption
    <3>8. ASSUME NEW l \in limits PROVE Cardinality(attempted) <= l
      <4>1. KarpenterEnabled /\ 0 <= budget /\ budget <= l
        BY DEF Inv, LimitInv
      <4>. QED  BY <2>t, <3>3, <3>5, <3>6, <4>1
    <3>9. \/ Cardinality(attempted) <= 1
          \/ 100 * Cardinality(attempted) <= MaxDrainPct * total
      BY <3>3, <3>5, <3>6, <3>7
    <3>. QED  BY <3>8, <3>9 DEF DrainsWithinLimit
  <2>. QED  BY <2>1, <2>2
<1>. QED  BY Invariance, <1>1, PTL

(* A node that is not managed at any time of the cycle is not drained. *)
THEOREM OnlyManagedNodesDrained == Spec => []OnlyManagedDrained
<1>1. Inv => OnlyManagedDrained
  BY DEF Inv, SeenInv, OnlyManagedDrained
<1>. QED  BY Invariance, <1>1, PTL

(* Decreases drain spot nodes, increases drain on-demand nodes. *)
THEOREM DrainsHaveDirection == Spec => []DrainDirection
<1>1. Inv => DrainDirection
  <2>. SUFFICES ASSUME Inv, NEW n \in attempted
                PROVE  IF n \in Spot THEN act[n] \in Decrease ELSE act[n] \in Increase
    BY DEF DrainDirection
  <2>1. act[n] \in Action /\ act[n] # "hold" /\ DirectionFits(act[n], n)
    BY DEF Inv, TypeOK, ActionInv
  <2>. QED  BY <2>1 DEF DirectionFits, Action
<1>. QED  BY Invariance, <1>1, PTL

(* No emergency waits for a later cycle behind a less urgent drain. *)
THEOREM EmergenciesGoFirst == Spec => []EmergenciesFirst
<1>1. Inv => EmergenciesFirst
  <2>. SUFFICES ASSUME Inv, NEW d \in deferred, NEW n \in attempted,
                       plan[d].action = "exit"
                PROVE  plan[n].action = "exit" /\ plan[n].score >= plan[d].score
    BY DEF EmergenciesFirst
  <2>1. plan[n].score \in Percent /\ plan[d].score \in Percent
    BY DEF Inv, TypeOK, PlanRecord
  <2>2. n \in Drains /\ pc \in Selected
    BY DEF Inv, CursorInv, ActionInv, Drains, Executing, Selected, InHand
  <2>3. ~Before(d, n)
    BY <2>2 DEF Inv, LimitInv
  <2>4. plan[n].action # "hold"
    BY <2>2 DEF Drains
  <2>5. Class(d) = 1 /\ Class(n) = IF plan[n].action = "exit" THEN 1 ELSE 2
    BY <2>4 DEF Class
  <2>6. plan[n].action = "exit"
    BY <2>3, <2>5 DEF Before
  <2>7. ~(plan[d].score > plan[n].score)
    BY <2>3, <2>5, <2>6 DEF Before
  <2>8. \A x, y \in Percent : ~(x > y) => y >= x
    BY DEF Percent
  <2>. QED  BY <2>1, <2>6, <2>7, <2>8
<1>. QED  BY Invariance, <1>1, PTL

(* No instance is terminated unless a drain of its node completed. *)
THEOREM TerminatedNodesWereEmptied == Spec => []TerminatedWereEmptied
<1>1. Inv => TerminatedWereEmptied
  BY DEF Inv, CleanupInv, TerminatedWereEmptied
<1>. QED  BY Invariance, <1>1, PTL

(* In dry-run no node is cordoned and no instance terminated.              *)
DryRunDrainsNothing == mode = "dry-run" => cordoned = {} /\ terminated = {}

(* A dry run neither cordons a node nor terminates an instance. *)
THEOREM DryRunIsInert == Spec => []DryRunDrainsNothing
<1>1. Inv => DryRunDrainsNothing
  BY DEF Inv, CleanupInv, DryRunDrainsNothing
<1>. QED  BY Invariance, <1>1, PTL
-----------------------------------------------------------------------------
(* The capacity books.  Before PrepareSwap has run for a pool the cycle    *)
(* still has its one scale-up to go: without that term the upper bound is  *)
(* not inductive.                                                          *)
Wanted(p)  == desired[p]["spot"] + desired[p]["on-demand"]
Drawn(p)   == Cardinality({n \in terminated : PoolOf[n] = p})
ToSwap     == {"filter", "limit", "guard", "steer", "request"}
Open(p)    == IF pc \in ToSwap \/ (pc = "prepare" /\ swap[p] # None) THEN 1 ELSE 0

BooksInv ==
    \A p \in Pool : /\ 2 * InitDesired <= Wanted(p) + Drawn(p)
                    /\ Wanted(p) + Drawn(p) + Open(p) <= 2 * InitDesired + tick

(* Both terms are integers. *)
LEMMA BooksTyped ==
    ASSUME TypeOK, NEW p \in Pool
    PROVE  /\ desired[p]["spot"] \in Int /\ desired[p]["on-demand"] \in Int
           /\ Wanted(p) \in Int /\ Drawn(p) \in Nat /\ tick \in Nat
<1>1. {n \in terminated : PoolOf[n] = p} \in SUBSET Node
  BY DEF TypeOK
<1>2. Drawn(p) \in Nat
  BY <1>1, ReconcileAssumption, FS_Subset, FS_CardinalityType DEF Drawn
<1>3. desired[p] \in [Capacity -> Int]
  BY DEF TypeOK
<1>4. desired[p]["spot"] \in Int /\ desired[p]["on-demand"] \in Int
  BY <1>3 DEF Capacity
<1>. QED  BY <1>2, <1>4 DEF Wanted, TypeOK

LEMMA BooksStep == Inv /\ BooksInv /\ [Next]_vars => BooksInv'
<1>. SUFFICES ASSUME Inv, BooksInv, [Next]_vars, NEW p \in Pool
              PROVE  /\ 2 * InitDesired <= Wanted(p)' + Drawn(p)'
                     /\ Wanted(p)' + Drawn(p)' + Open(p)' <= 2 * InitDesired + tick'
  BY DEF BooksInv
<1>. DEFINE Kept == /\ 2 * InitDesired <= Wanted(p)' + Drawn(p)'
                    /\ Wanted(p)' + Drawn(p)' + Open(p)' <= 2 * InitDesired + tick'
<1>t. TypeOK /\ (pc \in InHand => cur \in todo)
  BY DEF Inv, CursorInv
<1>b. /\ 2 * InitDesired <= Wanted(p) + Drawn(p)
      /\ Wanted(p) + Drawn(p) + Open(p) <= 2 * InitDesired + tick
  BY DEF BooksInv
<1>i. /\ Wanted(p) \in Int /\ Drawn(p) \in Nat /\ tick \in Nat /\ InitDesired \in Nat
      /\ Open(p) \in {0, 1} /\ Open(p)' \in {0, 1}
      /\ desired[p]["spot"] \in Int /\ desired[p]["on-demand"] \in Int
  BY <1>t, BooksTyped, ReconcileAssumption DEF Open
<1>keep. ASSUME UNCHANGED <<desired, terminated, tick>>, Open(p)' <= Open(p)
         PROVE  Kept
  <2>1. Wanted(p)' = Wanted(p) /\ Drawn(p)' = Drawn(p)
    BY <1>keep DEF Wanted, Drawn
  <2>. QED  BY <1>keep, <1>b, <1>i, <2>1
<1>1. CASE Observe
  <2>1. UNCHANGED <<desired, terminated>> /\ pc = "idle" /\ tick' = tick + 1
    BY <1>1 DEF Observe, clusterVars
  <2>2. Wanted(p)' = Wanted(p) /\ Drawn(p)' = Drawn(p) /\ Open(p) = 0
    BY <2>1 DEF Wanted, Drawn, Open, ToSwap
  <2>. QED  BY <1>b, <1>i, <2>1, <2>2
<1>2. CASE FilterExecutable
  BY <1>2, <1>keep DEF FilterExecutable, Open, ToSwap, clusterVars, boundVars
<1>3. CASE ApplyDrainLimit
  BY <1>3, <1>keep DEF ApplyDrainLimit, Open, ToSwap, clusterVars, boundVars
<1>4. ASSUME NEW n \in Node, GuardBeforePrep(n) PROVE Kept
  BY <1>4, <1>keep DEF GuardBeforePrep, Open, ToSwap, clusterVars, boundVars
<1>5. CASE GuardDone
  BY <1>5, <1>keep DEF GuardDone, Open, ToSwap, clusterVars, boundVars
<1>6. CASE SteerWeights
  BY <1>6, <1>keep DEF SteerWeights, Open, ToSwap, boundVars
<1>7. CASE RequestSwaps
  BY <1>7, <1>keep DEF RequestSwaps, Open, ToSwap, clusterVars, boundVars
<1>8. ASSUME NEW q \in Pool, PrepareSwap(q) PROVE Kept
  <2>1. /\ pc = "prepare" /\ pc' = "prepare" /\ swap[q] # None
        /\ swap' = [swap EXCEPT ![q] = None]
        /\ UNCHANGED <<terminated, tick>>
        /\ \/ desired' = [desired EXCEPT ![q] = [desired[q] EXCEPT ![swap[q]] = @ + 1]]
           \/ desired' = desired
    BY <1>8 DEF PrepareSwap, boundVars
  <2>2. Drawn(p)' = Drawn(p) /\ swap \in [Pool -> Capacity \cup {None}]
    BY <1>t, <2>1 DEF Drawn, TypeOK
  <2>3. desired \in [Pool \cup {NoPool} -> [Capacity -> Int]]
    BY <1>t DEF TypeOK
  <2>4. CASE q # p
    <3>1. swap'[p] = swap[p] /\ desired'[p] = desired[p]
      BY <2>1, <2>2, <2>3, <2>4
    <3>2. Wanted(p)' = Wanted(p) /\ Open(p)' = Open(p)
      BY <2>1, <3>1 DEF Wanted, Open, ToSwap
    <3>. QED  BY <1>b, <1>i, <2>1, <2>2, <3>2
  <2>5. CASE q = p
    <3>1. Open(p) = 1 /\ Open(p)' = 0
      BY <2>1, <2>2, <2>5 DEF Open, ToSwap
    <3>2. swap[p] \in Capacity
      BY <2>1, <2>2, <2>5
    <3>3. desired'[p] = desired[p] \/ desired'[p] = [desired[p] EXCEPT ![swap[p]] = @ + 1]
      BY <2>1, <2>3, <2>5
    <3>4. Wanted(p)' \in {Wanted(p), Wanted(p) + 1}
      <4>1. desired[p] \in [Capacity -> Int]
        BY <2>3
      <4>2. CASE desired'[p] = desired[p]
        BY <4>2 DEF Wanted
      <4>3. CASE desired'[p] = [desired[p] EXCEPT ![swap[p]] = @ + 1]
        BY <1>i, <3>2, <4>1, <4>3 DEF Wanted, Capacity
      <4>. QED  BY <3>3, <4>2, <4>3
    <3>. QED  BY <1>b, <1>i, <2>1, <2>2, <3>1, <3>4
  <2>. QED  BY <2>4, <2>5
<1>9. CASE PrepareDone
  BY <1>9, <1>keep, <1>i DEF PrepareDone, Open, ToSwap, clusterVars, boundVars
<1>10. ASSUME NEW n \in Node, Execute(n) PROVE Kept
  BY <1>10, <1>keep DEF Execute, Open, ToSwap, clusterVars, boundVars
<1>11. CASE Recheck
  BY <1>11, <1>keep DEF Recheck, Back, Open, ToSwap, clusterVars, boundVars
<1>12. CASE Drain
  BY <1>12, <1>keep DEF Drain, Back, Open, ToSwap, boundVars
<1>13. CASE Cleanup
  <2>1. /\ Open(p)' = 0 /\ Open(p) = 0 /\ tick' = tick
    BY <1>13 DEF Cleanup, Back, Open, ToSwap, boundVars
  <2>2. cur \in Node /\ SourceOf(cur) \in Capacity
    BY <1>t, <1>13 DEF Cleanup, InHand, TypeOK, SourceOf, Capacity
  <2>3. CASE UNCHANGED <<desired, terminated>>
    BY <2>1, <2>3, <1>keep
  <2>4. CASE /\ cur \notin terminated /\ terminated' = terminated \cup {cur}
             /\ desired' = [desired EXCEPT ![PoolOf[cur]] =
                              [desired[PoolOf[cur]] EXCEPT ![SourceOf(cur)] = @ - 1]]
    <3>. DEFINE S == {n \in terminated : PoolOf[n] = p}
    <3>1. S \in SUBSET Node /\ IsFiniteSet(S)
      <4>1. S \in SUBSET Node
        BY <1>t DEF TypeOK
      <4>. QED  BY <4>1, ReconcileAssumption, FS_Subset
    <3>2. desired \in [Pool \cup {NoPool} -> [Capacity -> Int]]
      BY <1>t DEF TypeOK
    <3>3. CASE PoolOf[cur] = p
      <4>1. {n \in terminated' : PoolOf[n] = p} = S \cup {cur} /\ cur \notin S
        BY <2>4, <3>3
      <4>2. Cardinality(S \cup {cur}) = Cardinality(S) + 1
        <5>. HIDE DEF S
        <5>. QED  BY <3>1, <4>1, FS_AddElement
      <4>3. Drawn(p)' = Drawn(p) + 1
        BY <4>1, <4>2 DEF Drawn
      <4>4. desired'[p] = [desired[p] EXCEPT ![SourceOf(cur)] = @ - 1]
        BY <2>4, <3>2, <3>3
      <4>5. Wanted(p)' = Wanted(p) - 1
        <5>1. desired[p] \in [Capacity -> Int]
          BY <3>2
        <5>. QED  BY <1>i, <2>2, <4>4, <5>1 DEF Wanted, Capacity
      <4>. QED  BY <1>b, <1>i, <2>1, <4>3, <4>5
    <3>4. CASE PoolOf[cur] # p
      <4>1. {n \in terminated' : PoolOf[n] = p} = S
        BY <2>4, <3>4
      <4>2. desired'[p] = desired[p]
        BY <2>4, <3>2, <3>4
      <4>3. Drawn(p)' = Drawn(p) /\ Wanted(p)' = Wanted(p)
        BY <4>1, <4>2 DEF Drawn, Wanted
      <4>. QED  BY <1>b, <1>i, <2>1, <4>3
    <3>. QED  BY <3>3, <3>4
  <2>. QED  BY <1>13, <2>3, <2>4 DEF Cleanup, DesiredLess
<1>14. CASE Return
  BY <1>14, <1>keep, <1>i DEF Return, Open, ToSwap, clusterVars, boundVars
<1>15. ASSUME NEW n \in Node, Relabel(n) PROVE Kept
  BY <1>15, <1>keep, <1>i DEF Relabel, Open, cycleVars
<1>16. ASSUME NEW q \in Pool, CooldownOver(q) PROVE Kept
  BY <1>16, <1>keep, <1>i DEF CooldownOver, Open, cycleVars, clusterVars, boundVars
<1>17. CASE Crash
  BY <1>17, <1>keep, <1>i DEF Crash, Open, ToSwap, clusterVars
<1>18. CASE UNCHANGED vars
  BY <1>18, <1>keep, <1>i DEF vars, Open, cycleVars, clusterVars, boundVars
<1>. QED
  BY <1>1, <1>2, <1>3, <1>4, <1>5, <1>6, <1>7, <1>8, <1>9, <1>10, <1>11, <1>12,
     <1>13, <1>14, <1>15, <1>16, <1>17, <1>18 DEF Next, Controller, Environment

(* For any pools, cycles, failures and restarts, what the agent did to the *)
(* desired capacities is one scale-up per cycle and one less for each      *)
(* instance it terminated.                                                 *)
THEOREM CapacityIsAccounted == Spec => []CapacityAccounted
<1>1. Init => BooksInv
  <2>. SUFFICES ASSUME Init, NEW p \in Pool
                PROVE  /\ 2 * InitDesired <= Wanted(p) + Drawn(p)
                       /\ Wanted(p) + Drawn(p) + Open(p) <= 2 * InitDesired + tick
    BY DEF BooksInv
  <2>1. Wanted(p) = 2 * InitDesired /\ InitDesired \in Nat
    <3>1. desired[p] = [c \in Capacity |-> InitDesired]
      BY DEF Init
    <3>. QED  BY <3>1, ReconcileAssumption DEF Wanted, Capacity
  <2>2. Drawn(p) = 0
    <3>1. {n \in terminated : PoolOf[n] = p} = {}
      BY DEF Init
    <3>. QED  BY <3>1, FS_EmptySet DEF Drawn
  <2>3. Open(p) = 0 /\ tick = 0
    BY DEF Init, Open, ToSwap
  <2>. QED  BY <2>1, <2>2, <2>3
<1>2. Inv /\ BooksInv => CapacityAccounted
  <2>. SUFFICES ASSUME Inv, BooksInv, NEW p \in Pool
                PROVE  Wanted(p) + Drawn(p) \in (2 * InitDesired)..(2 * InitDesired + tick)
    BY DEF CapacityAccounted, Wanted, Drawn
  <2>1. /\ Wanted(p) \in Int /\ Drawn(p) \in Nat /\ tick \in Nat /\ InitDesired \in Nat
        /\ Open(p) \in {0, 1}
    BY BooksTyped, ReconcileAssumption DEF Open, Inv
  <2>. QED  BY <2>1 DEF BooksInv
<1>. QED  BY Invariance, BooksStep, <1>1, <1>2, PTL DEF Spec
-----------------------------------------------------------------------------
(* A cycle is finite: it has a bounded number of steps ahead (four API     *)
(* rounds per node, one check, one swap per pool), each of its own steps   *)
(* uses one up, and nothing others do in between adds any.                 *)
StepsLeft ==
    LET n == Cardinality(Node)
        k == Cardinality(pending)
    IN  CASE pc = "idle"    -> 0
          [] pc = "execute" -> 4 * k + 1
          [] pc = "cleanup" -> 4 * k + 2
          [] pc = "drain"   -> 4 * k + 3
          [] pc = "recheck" -> 4 * k + 4
          [] pc = "prepare" -> 4 * n + 2 + Cardinality({p \in Pool : swap[p] # None})
          [] pc = "request" -> 5 * n + 3
          [] pc = "steer"   -> 5 * n + 4
          [] pc = "guard"   -> 5 * n + 5 + k
          [] pc = "limit"   -> 6 * n + 6
          [] OTHER          -> 6 * n + 7

CycleAdvances ==
    [][ /\ Controller => StepsLeft' < StepsLeft
        /\ pc # "idle" => StepsLeft' <= StepsLeft ]_vars

(* The length of a cycle.  Swaps are requested for pools of known nodes    *)
(* only, so there are no more of them than nodes.                          *)
Requested == {p \in Pool : swap[p] # None}
SwapInv   == \A p \in Requested : \E n \in Node : PoolOf[n] = p

LEMMA SwapStep == Inv /\ SwapInv /\ [Next]_vars => SwapInv'
<1>. SUFFICES ASSUME Inv, SwapInv, [Next]_vars PROVE SwapInv'
  OBVIOUS
<1>t. TypeOK
  BY DEF Inv
<1>keep. ASSUME Requested' \subseteq Requested PROVE SwapInv'
  BY <1>keep DEF SwapInv
<1>same. ASSUME UNCHANGED swap PROVE SwapInv'
  BY <1>same, <1>keep DEF Requested
<1>none. ASSUME swap' = [p \in Pool |-> None] PROVE SwapInv'
  BY <1>none, <1>keep DEF Requested
<1>1. CASE RequestSwaps
  <2>1. PICK got \in Fetched, first \in [Pool -> Node \cup {None}] :
          /\ \A p \in Pool : IF SwapVoters(p, got) = {} THEN first[p] = None
                             ELSE first[p] \in First(SwapVoters(p, got))
          /\ swap' = [p \in Pool |-> IF first[p] = None THEN None
                                     ELSE SwapTo(act[first[p]])]
    BY <1>1 DEF RequestSwaps
  <2>2. ASSUME NEW p \in Requested' PROVE \E n \in Node : PoolOf[n] = p
    <3>1. p \in Pool /\ first[p] # None
      BY <2>1, <2>2 DEF Requested
    <3>2. SwapVoters(p, got) # {}
      BY <2>1, <3>1
    <3>3. PICK n \in got : PoolOf[n] = p
      BY <3>2 DEF SwapVoters
    <3>4. n \in Node
      BY <1>t, <2>1 DEF Fetched, TypeOK
    <3>. QED  BY <3>3, <3>4
  <2>. QED  BY <2>2 DEF SwapInv
<1>2. ASSUME NEW q \in Pool, PrepareSwap(q) PROVE SwapInv'
  <2>1. swap' = [swap EXCEPT ![q] = None] /\ swap \in [Pool -> Capacity \cup {None}]
    BY <1>2, <1>t DEF PrepareSwap, TypeOK
  <2>2. Requested' \subseteq Requested
    BY <2>1 DEF Requested
  <2>. QED  BY <2>2, <1>keep
<1>3. CASE Return \/ Crash
  BY <1>3, <1>none DEF Return, Crash, Forget
<1>4. CASE Observe \/ FilterExecutable \/ ApplyDrainLimit \/ GuardDone \/ SteerWeights
           \/ PrepareDone \/ Recheck \/ Drain \/ Cleanup
  BY <1>4, <1>same DEF Observe, FilterExecutable, ApplyDrainLimit, GuardDone, SteerWeights,
     PrepareDone, Recheck, Drain, Cleanup
<1>5. ASSUME NEW n \in Node, GuardBeforePrep(n) \/ Execute(n) PROVE SwapInv'
  BY <1>5, <1>same DEF GuardBeforePrep, Execute
<1>6. ASSUME NEW n \in Node, Relabel(n) PROVE SwapInv'
  BY <1>6, <1>same DEF Relabel, cycleVars
<1>7. ASSUME NEW q \in Pool, CooldownOver(q) PROVE SwapInv'
  BY <1>7, <1>same DEF CooldownOver, cycleVars
<1>8. CASE UNCHANGED vars
  BY <1>8, <1>same DEF vars, cycleVars
<1>. QED
  BY <1>1, <1>2, <1>3, <1>4, <1>5, <1>6, <1>7, <1>8 DEF Next, Controller, Environment

(* Neither the loops nor the swaps are longer than the list of the nodes. *)
LEMMA CycleBounded ==
    ASSUME TypeOK, SwapInv
    PROVE  /\ Cardinality(Node) \in Nat
           /\ IsFiniteSet(pending) /\ IsFiniteSet(Requested)
           /\ Cardinality(pending) \in Nat /\ Cardinality(pending) <= Cardinality(Node)
           /\ Cardinality(Requested) \in Nat /\ Cardinality(Requested) <= Cardinality(Node)
<1>1. IsFiniteSet(Node) /\ Cardinality(Node) \in Nat
  BY ReconcileAssumption, FS_CardinalityType
<1>2. pending \in SUBSET Node
  BY DEF TypeOK
<1>3. IsFiniteSet(pending) /\ Cardinality(pending) <= Cardinality(Node)
  BY <1>1, <1>2, FS_Subset
<1>. DEFINE T == {PoolOf[n] : n \in Node}
            f == [n \in Node |-> PoolOf[n]]
<1>4. f \in Surjection(Node, T)
  BY DEF Surjection
<1>5. Requested \in SUBSET T
  BY DEF SwapInv
<1>. HIDE DEF f, T
<1>6. IsFiniteSet(T) /\ Cardinality(T) <= Cardinality(Node) /\ Cardinality(T) \in Nat
  BY <1>1, <1>4, FS_Surjection, FS_CardinalityType
<1>7. IsFiniteSet(Requested) /\ Cardinality(Requested) <= Cardinality(T)
  BY <1>5, <1>6, FS_Subset
<1>8. Cardinality(pending) \in Nat /\ Cardinality(Requested) \in Nat
  BY <1>3, <1>7, FS_CardinalityType
<1>. QED  BY <1>1, <1>3, <1>6, <1>7, <1>8

(* Each step of the controller brings the cycle nearer to its end. *)
LEMMA StepsLess ==
    ASSUME Inv, Inv', SwapInv, SwapInv', Controller
    PROVE  StepsLeft' \in Nat /\ StepsLeft' < StepsLeft
<1>. DEFINE N == Cardinality(Node)
            k == Cardinality(pending)
            l == Cardinality(pending')
            r == Cardinality(Requested)
            s == Cardinality(Requested')
<1>t. TypeOK /\ TypeOK'
  BY DEF Inv
<1>n. /\ N \in Nat /\ k \in Nat /\ l \in Nat /\ r \in Nat /\ s \in Nat
      /\ k <= N /\ l <= N /\ r <= N /\ s <= N
      /\ IsFiniteSet(pending) /\ IsFiniteSet(Requested)
  <2>1. /\ N \in Nat /\ k \in Nat /\ r \in Nat /\ k <= N /\ r <= N
        /\ IsFiniteSet(pending) /\ IsFiniteSet(Requested)
    BY <1>t, CycleBounded
  <2>2. /\ IsFiniteSet(Node) /\ Cardinality(Node) \in Nat
    BY ReconcileAssumption, FS_CardinalityType
  <2>3. pending' \in SUBSET Node
    BY <1>t DEF TypeOK
  <2>4. l \in Nat /\ l <= N
    BY <2>2, <2>3, FS_Subset, FS_CardinalityType
  <2>5. s \in Nat /\ s <= N
    <3>. DEFINE T == {PoolOf[n] : n \in Node}
                f == [n \in Node |-> PoolOf[n]]
    <3>1. f \in Surjection(Node, T)
      BY DEF Surjection
    <3>2. Requested' \in SUBSET T
      BY DEF SwapInv
    <3>. HIDE DEF f, T
    <3>3. IsFiniteSet(T) /\ Cardinality(T) <= N /\ Cardinality(T) \in Nat
      BY <2>2, <3>1, FS_Surjection, FS_CardinalityType
    <3>4. IsFiniteSet(Requested') /\ Cardinality(Requested') <= Cardinality(T)
      BY <3>2, <3>3, FS_Subset
    <3>. QED  BY <2>2, <3>3, <3>4, FS_CardinalityType
  <2>. QED  BY <2>1, <2>4, <2>5
<1>a. /\ pc = "execute" => StepsLeft = 4 * k + 1
      /\ pc = "cleanup" => StepsLeft = 4 * k + 2
      /\ pc = "drain"   => StepsLeft = 4 * k + 3
      /\ pc = "recheck" => StepsLeft = 4 * k + 4
      /\ pc = "prepare" => StepsLeft = 4 * N + 2 + r
      /\ pc = "request" => StepsLeft = 5 * N + 3
      /\ pc = "steer"   => StepsLeft = 5 * N + 4
      /\ pc = "guard"   => StepsLeft = 5 * N + 5 + k
      /\ pc = "limit"   => StepsLeft = 6 * N + 6
      /\ pc = "filter"  => StepsLeft = 6 * N + 7
  BY DEF StepsLeft, Requested
<1>b. /\ pc' = "idle"    => StepsLeft' = 0
      /\ pc' = "execute" => StepsLeft' = 4 * l + 1
      /\ pc' = "cleanup" => StepsLeft' = 4 * l + 2
      /\ pc' = "drain"   => StepsLeft' = 4 * l + 3
      /\ pc' = "recheck" => StepsLeft' = 4 * l + 4
      /\ pc' = "prepare" => StepsLeft' = 4 * N + 2 + s
      /\ pc' = "request" => StepsLeft' = 5 * N + 3
      /\ pc' = "steer"   => StepsLeft' = 5 * N + 4
      /\ pc' = "guard"   => StepsLeft' = 5 * N + 5 + l
      /\ pc' = "limit"   => StepsLeft' = 6 * N + 6
      /\ pc' = "filter"  => StepsLeft' = 6 * N + 7
  BY DEF StepsLeft, Requested
<1>out. ASSUME NEW x \in pending, pending' = pending \ {x} PROVE l = k - 1
  BY <1>out, <1>n, FS_RemoveElement
<1>. HIDE DEF N, k, l, r, s
<1>0. StepsLeft' \in Nat
  <2>1. pc' \in PC
    BY <1>t DEF TypeOK
  <2>. QED  BY <2>1, <1>n, <1>b DEF PC
<1>. SUFFICES StepsLeft' < StepsLeft
  BY <1>0
<1>1. CASE FilterExecutable
  BY <1>1, <1>n, <1>a, <1>b DEF FilterExecutable
<1>2. CASE ApplyDrainLimit
  BY <1>2, <1>n, <1>a, <1>b DEF ApplyDrainLimit
<1>3. ASSUME NEW n \in Node, GuardBeforePrep(n) PROVE StepsLeft' < StepsLeft
  <2>1. pc = "guard" /\ pc' = "guard" /\ n \in pending /\ pending' = pending \ {n}
    BY <1>3 DEF GuardBeforePrep
  <2>. QED  BY <2>1, <1>out, <1>n, <1>a, <1>b
<1>4. CASE GuardDone
  BY <1>4, <1>n, <1>a, <1>b DEF GuardDone
<1>5. CASE SteerWeights
  BY <1>5, <1>n, <1>a, <1>b DEF SteerWeights
<1>6. CASE RequestSwaps
  BY <1>6, <1>n, <1>a, <1>b DEF RequestSwaps
<1>7. ASSUME NEW q \in Pool, PrepareSwap(q) PROVE StepsLeft' < StepsLeft
  <2>1. /\ pc = "prepare" /\ pc' = "prepare" /\ swap[q] # None
        /\ swap' = [swap EXCEPT ![q] = None] /\ swap \in [Pool -> Capacity \cup {None}]
    BY <1>7, <1>t DEF PrepareSwap, TypeOK
  <2>2. Requested' = Requested \ {q} /\ q \in Requested
    BY <2>1 DEF Requested
  <2>3. s = r - 1
    BY <2>2, <1>n, FS_RemoveElement DEF s, r
  <2>. QED  BY <2>1, <2>3, <1>n, <1>a, <1>b
<1>8. CASE PrepareDone
  BY <1>8, <1>n, <1>a, <1>b DEF PrepareDone
<1>9. ASSUME NEW n \in Node, Execute(n) PROVE StepsLeft' < StepsLeft
  <2>1. /\ pc = "execute" /\ pc' \in {"execute", "recheck"}
        /\ n \in pending /\ pending' = pending \ {n}
    BY <1>9 DEF Execute, First
  <2>. QED  BY <2>1, <1>out, <1>n, <1>a, <1>b
<1>10. ASSUME pending' = pending PROVE l = k
  BY <1>10 DEF l, k
<1>11. CASE Recheck
  <2>1. pc = "recheck" /\ pc' \in {"execute", "drain"} /\ pending' = pending
    BY <1>11 DEF Recheck, Back
  <2>. QED  BY <2>1, <1>10, <1>n, <1>a, <1>b
<1>12. CASE Drain
  <2>1. pc = "drain" /\ pc' \in {"execute", "cleanup"} /\ pending' = pending
    BY <1>12 DEF Drain, Back
  <2>. QED  BY <2>1, <1>10, <1>n, <1>a, <1>b
<1>13. CASE Cleanup
  <2>1. pc = "cleanup" /\ pc' = "execute" /\ pending' = pending
    BY <1>13 DEF Cleanup, Back
  <2>. QED  BY <2>1, <1>10, <1>n, <1>a, <1>b
<1>14. CASE Return
  BY <1>14, <1>n, <1>a, <1>b DEF Return
<1>. QED
  BY <1>1, <1>2, <1>3, <1>4, <1>5, <1>6, <1>7, <1>8, <1>9, <1>11, <1>12, <1>13, <1>14
  DEF Controller

(* For any cluster a cycle takes at most 6 steps per node and 7 more of    *)
(* its own, whatever others do meanwhile.                                  *)
THEOREM CyclesAdvance == Spec => CycleAdvances
<1>1. Init => SwapInv
  BY DEF Init, SwapInv, Requested
<1>2. ASSUME Inv, Inv', SwapInv, SwapInv', [Next]_vars
      PROVE  /\ Controller => StepsLeft' < StepsLeft
             /\ pc # "idle" => StepsLeft' <= StepsLeft
  <2>1. Controller => StepsLeft' < StepsLeft
    BY <1>2, StepsLess
  <2>t. TypeOK /\ TypeOK'
    BY <1>2 DEF Inv
  <2>2. StepsLeft \in Nat
    <3>1. /\ Cardinality(Node) \in Nat /\ Cardinality(pending) \in Nat
          /\ Cardinality({p \in Pool : swap[p] # None}) \in Nat
      BY <1>2, <2>t, CycleBounded DEF Requested
    <3>. QED  BY <3>1, <2>t DEF StepsLeft, TypeOK, PC
  <2>3. CASE Controller
    <3>1. StepsLeft' \in Nat /\ StepsLeft' < StepsLeft
      BY <1>2, <2>3, StepsLess
    <3>. QED  BY <2>2, <3>1
  <2>4. CASE Observe
    BY <2>1, <2>4 DEF Observe
  <2>5. CASE Crash
    <3>1. StepsLeft' = 0
      BY <2>5 DEF Crash, StepsLeft
    <3>. QED  BY <2>1, <2>2, <2>3, <3>1
  <2>6. ASSUME UNCHANGED <<pc, pending, swap>>
        PROVE  StepsLeft' = StepsLeft
    BY <2>6 DEF StepsLeft
  <2>7. ASSUME NEW n \in Node, Relabel(n) PROVE UNCHANGED <<pc, pending, swap>>
    BY <2>7 DEF Relabel, cycleVars
  <2>8. ASSUME NEW p \in Pool, CooldownOver(p) PROVE UNCHANGED <<pc, pending, swap>>
    BY <2>8 DEF CooldownOver, cycleVars
  <2>9. CASE UNCHANGED vars
    BY <2>1, <2>2, <2>3, <2>6, <2>9 DEF vars, cycleVars
  <2>. QED
    BY <1>2, <2>1, <2>2, <2>3, <2>4, <2>5, <2>6, <2>7, <2>8, <2>9 DEF Next, Environment
<1>3. Inv /\ Inv' /\ SwapInv /\ SwapInv' /\ [Next]_vars =>
        [ /\ Controller => StepsLeft' < StepsLeft
          /\ pc # "idle" => StepsLeft' <= StepsLeft ]_vars
  BY <1>2
<1>. QED  BY Invariance, SwapStep, <1>1, <1>3, PTL DEF Spec, CycleAdvances
-----------------------------------------------------------------------------
(* A request waits only while prepareCapacitySwaps runs. *)
WaitInv == pc # "prepare" => \A p \in Pool : swap[p] = None

LEMMA WaitStep == Inv /\ WaitInv /\ [Next]_vars => WaitInv'
<1>. SUFFICES ASSUME Inv, WaitInv, [Next]_vars PROVE WaitInv'
  OBVIOUS
<1>same. ASSUME UNCHANGED swap, pc # "prepare" \/ pc' = pc PROVE WaitInv'
  BY <1>same DEF WaitInv
<1>1. CASE RequestSwaps \/ (\E p \in Pool : PrepareSwap(p))
  BY <1>1 DEF RequestSwaps, PrepareSwap, WaitInv
<1>2. CASE PrepareDone
  BY <1>2 DEF PrepareDone, WaitInv
<1>3. CASE Return \/ Crash
  BY <1>3 DEF Return, Crash, Forget, WaitInv
<1>4. CASE Observe \/ FilterExecutable \/ ApplyDrainLimit \/ GuardDone \/ SteerWeights
           \/ Recheck \/ Drain \/ Cleanup
  BY <1>4, <1>same DEF Observe, FilterExecutable, ApplyDrainLimit, GuardDone, SteerWeights,
     Recheck, Drain, Cleanup
<1>5. ASSUME NEW n \in Node, GuardBeforePrep(n) \/ Execute(n) PROVE WaitInv'
  BY <1>5, <1>same DEF GuardBeforePrep, Execute
<1>6. ASSUME NEW n \in Node, Relabel(n) PROVE WaitInv'
  BY <1>6, <1>same DEF Relabel, cycleVars
<1>7. ASSUME NEW q \in Pool, CooldownOver(q) PROVE WaitInv'
  BY <1>7, <1>same DEF CooldownOver, cycleVars
<1>8. CASE UNCHANGED vars
  BY <1>8, <1>same DEF vars, cycleVars
<1>. QED
  BY <1>1, <1>2, <1>3, <1>4, <1>5, <1>6, <1>7, <1>8 DEF Next, Controller, Environment

LEMMA PoolStep ==
    ASSUME Inv, WaitInv, [Next]_vars, NEW p \in Pool
    PROVE  PoolContract(p)!Next \/ UNCHANGED PoolContract(p)!vars
<1>t. TypeOK
  BY DEF Inv
<1>same. ASSUME UNCHANGED <<swap, desired, terminated>>
         PROVE  UNCHANGED PoolContract(p)!vars
  BY <1>same DEF PoolContract!vars
<1>1. CASE RequestSwaps
  <2>1. swap[p] = None
    BY <1>1 DEF RequestSwaps, WaitInv
  <2>2. UNCHANGED <<desired, terminated>>
    BY <1>1 DEF RequestSwaps, clusterVars
  <2>3. CASE swap'[p] = None
    BY <2>1, <2>2, <2>3 DEF PoolContract!vars
  <2>4. CASE swap'[p] # None
    <3>1. swap'[p] \in Capacity
      <4>1. TypeOK'
        BY TypeStep
      <4>. QED  BY <2>4, <4>1 DEF TypeOK
    <3>2. PoolContract(p)!Begin(swap'[p])
      BY <2>1, <2>2, <2>4 DEF PoolContract!Begin
    <3>. QED  BY <3>1, <3>2 DEF PoolContract!Next, PoolContract!Capacity, Capacity
  <2>. QED  BY <2>3, <2>4
<1>2. ASSUME NEW q \in Pool, PrepareSwap(q)
      PROVE  PoolContract(p)!Next \/ UNCHANGED PoolContract(p)!vars
  <2>1. /\ swap[q] # None /\ swap' = [swap EXCEPT ![q] = None]
        /\ UNCHANGED terminated
        /\ desired' = desired \/ desired' = [desired EXCEPT ![q][swap[q]] = @ + 1]
        /\ swap \in [Pool -> Capacity \cup {None}]
        /\ desired \in [Pool \cup {NoPool} -> [Capacity -> Int]]
    BY <1>2, <1>t DEF PrepareSwap, TypeOK
  <2>2. CASE p # q
    <3>1. swap'[p] = swap[p] /\ desired'[p] = desired[p]
      BY <2>1, <2>2
    <3>. QED  BY <2>1, <3>1 DEF PoolContract!vars
  <2>3. CASE p = q
    <3>1. /\ swap[p] \in Capacity /\ swap'[p] = None
          /\ desired'[p] \in {desired[p], [desired[p] EXCEPT ![swap[p]] = @ + 1]}
      BY <2>1, <2>3
    <3>2. PoolContract(p)!Fail
      BY <2>1, <2>3, <3>1 DEF PoolContract!Fail, PoolContract!Grown, PoolContract!Capacity, Capacity
    <3>. QED  BY <3>2 DEF PoolContract!Next
  <2>. QED  BY <2>2, <2>3
<1>3. CASE Return \/ Crash
  <2>1. UNCHANGED <<desired, terminated>> /\ swap' = [x \in Pool |-> None]
    BY <1>3 DEF Return, Crash, Forget, clusterVars
  <2>2. CASE swap[p] = None
    BY <2>1, <2>2 DEF PoolContract!vars
  <2>3. CASE swap[p] # None
    <3>1. swap[p] \in Capacity /\ swap'[p] = None
      BY <1>t, <2>1, <2>3 DEF TypeOK
    <3>2. PoolContract(p)!Fail
      BY <2>1, <2>3, <3>1 DEF PoolContract!Fail, PoolContract!Capacity, Capacity
    <3>. QED  BY <3>2 DEF PoolContract!Next
  <2>. QED  BY <2>2, <2>3
<1>4. CASE Cleanup
  <2>1. pc = "cleanup" /\ UNCHANGED swap /\ cur \in Node /\ swap[p] = None
    BY <1>4, <1>t DEF Cleanup, Inv, CursorInv, InHand, TypeOK, WaitInv
  <2>2. CASE UNCHANGED <<desired, terminated>>
    BY <1>same, <2>1, <2>2
  <2>3. CASE cur \notin terminated /\ terminated' = terminated \cup {cur} /\ desired' = DesiredLess
    <3>1. desired \in [Pool \cup {NoPool} -> [Capacity -> Int]] /\ PoolOf[cur] \in Pool \cup {NoPool}
      BY <1>t, <2>1, ReconcileAssumption DEF TypeOK, PoolOf
    <3>2. CASE PoolOf[cur] # p
      <4>1. desired'[p] = desired[p]
        BY <2>3, <3>1, <3>2 DEF DesiredLess
      <4>2. {n \in terminated' : PoolOf[n] = p} = {n \in terminated : PoolOf[n] = p}
        BY <2>3, <3>2
      <4>. QED  BY <2>1, <4>1, <4>2 DEF PoolContract!vars
    <3>3. CASE PoolOf[cur] = p
      <4>1. desired'[p] = [desired[p] EXCEPT ![SourceOf(cur)] = @ - 1]
        BY <2>3, <3>1, <3>3 DEF DesiredLess
      <4>2. /\ {n \in terminated' : PoolOf[n] = p} = {n \in terminated : PoolOf[n] = p} \cup {cur}
            /\ cur \notin {n \in terminated : PoolOf[n] = p}
        BY <2>3, <3>3
      <4>3. PICK x \in {n \in Node : PoolOf[n] = p} : x = cur
        BY <2>1, <3>3
      <4>4. [n \in Node |-> SourceOf(n)][x] = SourceOf(cur)
        BY <4>3
      <4>5. PoolContract(p)!Terminate(x)
        BY <2>1, <4>1, <4>2, <4>3, <4>4 DEF PoolContract!Terminate
      <4>. QED  BY <4>5 DEF PoolContract!Next
    <3>. QED  BY <3>2, <3>3
  <2>. QED  BY <1>4, <2>2, <2>3 DEF Cleanup
<1>5. CASE Observe \/ FilterExecutable \/ ApplyDrainLimit \/ GuardDone \/ SteerWeights
           \/ PrepareDone \/ Recheck \/ Drain
  BY <1>5, <1>same DEF Observe, FilterExecutable, ApplyDrainLimit, GuardDone, SteerWeights,
     PrepareDone, Recheck, Drain, clusterVars
<1>6. ASSUME NEW n \in Node, GuardBeforePrep(n) \/ Execute(n)
      PROVE  UNCHANGED <<swap, desired, terminated>>
  BY <1>6 DEF GuardBeforePrep, Execute, clusterVars
<1>7. ASSUME NEW n \in Node, Relabel(n) PROVE UNCHANGED <<swap, desired, terminated>>
  BY <1>7 DEF Relabel, cycleVars
<1>8. ASSUME NEW q \in Pool, CooldownOver(q) PROVE UNCHANGED <<swap, desired, terminated>>
  BY <1>8 DEF CooldownOver, cycleVars, clusterVars
<1>9. CASE UNCHANGED vars
  BY <1>9, <1>same DEF vars, cycleVars, clusterVars
<1>. QED
  BY <1>1, <1>2, <1>3, <1>4, <1>5, <1>6, <1>7, <1>8, <1>9, <1>same
  DEF Next, Controller, Environment

(* For any cluster, number of cycles and crashes, what Reconcile does to   *)
(* the groups of a pool are steps of SwapContract.                         *)
THEOREM SwapsFollowContract == Spec => UsesContract
<1>1. Init => (\A p \in Pool : PoolContract(p)!Init) /\ WaitInv
  <2>. SUFFICES ASSUME Init PROVE (\A p \in Pool : PoolContract(p)!Init) /\ WaitInv
    OBVIOUS
  <2>1. /\ swap = [p \in Pool |-> None] /\ terminated = {}
        /\ \A p \in Pool : desired[p] \in [Capacity -> Nat]
    BY ReconcileAssumption DEF Init
  <2>. QED  BY <2>1 DEF PoolContract!Init, PoolContract!Capacity, Capacity, WaitInv
<1>2. Inv /\ WaitInv /\ [Next]_vars =>
        [\A p \in Pool : PoolContract(p)!Next \/ UNCHANGED PoolContract(p)!vars]_vars
  BY PoolStep
<1>. QED  BY Invariance, WaitStep, <1>1, <1>2, PTL DEF Spec, UsesContract
=============================================================================
