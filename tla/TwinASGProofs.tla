---------------------------- MODULE TwinASGProofs ----------------------------
(***************************************************************************)
(* Proofs for every set of instances and every bound: TwinASG keeps its    *)
(* types, returns only new nodes, and implements SwapContract until        *)
(* somebody else writes the desired capacities.                            *)
(***************************************************************************)
EXTENDS TwinASG, FiniteSetTheorems, TLAPS

-----------------------------------------------------------------------------
(* Between the read and the return the target group is where PrepareSwap   *)
(* put it.                                                                 *)
LedgerInv ==
    foreign = {} => /\ pc = "scale" => desired[dir] = read
                    /\ pc \in Scaled => desired[dir] = read + 1

(* A node that was registered once and whose instance still runs is        *)
(* registered; so the snapshot holds every node of before and of handed    *)
(* that can be seen again.                                                 *)
SnapshotInv ==
    /\ before \subseteq launched
    /\ (before \cup handed) \cap alive \subseteq node
    /\ pc = "poll" => (before \cup handed) \cap node \subseteq existing

Inv == TypeOK /\ LedgerInv /\ SnapshotInv

LEMMA InitInv == Init => Inv
<1>. SUFFICES ASSUME Init PROVE Inv
  OBVIOUS
<1>1. \A c \in Capacity : Size(c, InitAlive) \in Nat
  <2>1. \A c : {i \in InitAlive : HomeOf[i] = c} \subseteq Instance
    BY TwinASGAssumption
  <2>2. \A S : S \subseteq Instance => Cardinality(S) \in Nat
    BY TwinASGAssumption, FS_Subset, FS_CardinalityType
  <2>. QED  BY <2>1, <2>2 DEF Size
<1>2. TypeOK
  <2>1. desired \in [Capacity -> 0..MaxSize] /\ dir \in Capacity
    BY <1>1, TwinASGAssumption DEF Init, Capacity
  <2>2. 0 \in 0..MaxCalls /\ 0 \in 0..MaxChanges
    BY TwinASGAssumption
  <2>3. pc \in PC /\ read \in 0..MaxSize /\ victim \in Instance \cup {None}
    BY TwinASGAssumption DEF Init, PC
  <2>4. cancelled \in BOOLEAN
    BY Zenon DEF Init
  <2>5. /\ pc = "idle" /\ launched = InitAlive /\ alive = InitAlive
        /\ node = InitAlive /\ ready = InitAlive /\ existing = {} /\ before = {}
        /\ handed = {} /\ terminated = {} /\ foreign = {} /\ calls = 0 /\ changes = 0
    BY DEF Init
  <2>. QED  BY <2>1, <2>2, <2>3, <2>4, <2>5, TwinASGAssumption DEF TypeOK
<1>3. LedgerInv /\ SnapshotInv
  BY DEF Init, LedgerInv, SnapshotInv, Scaled
<1>. QED  BY <1>2, <1>3 DEF Inv

LEMMA Step_Inv == Inv /\ [Next]_vars => Inv'
<1>. SUFFICES ASSUME Inv, [Next]_vars PROVE Inv'
  OBVIOUS
<1>. USE TwinASGAssumption
     DEF Inv, TypeOK, LedgerInv, SnapshotInv, cloudVars, callVars, historyVars,
         boundVars, PC, Swapping, Scaled, Step
<1>1. ASSUME NEW c \in Capacity, BeginSwap(c) PROVE Inv'
  BY <1>1 DEF BeginSwap
<1>2. ASSUME NEW n \in Instance, BeginCleanup(n) PROVE Inv'
  BY <1>2 DEF BeginCleanup
<1>3. CASE DiscoverTwinASGs
  BY <1>3 DEF DiscoverTwinASGs, Return, Capacity
<1>4. CASE ScaleUp
  BY <1>4 DEF ScaleUp, Increment, Return, Capacity
<1>5. CASE Snapshot
  BY <1>5 DEF Snapshot
<1>6. ASSUME NEW n \in Instance, Poll(n) PROVE Inv'
  BY <1>6 DEF Poll, Replacement, Return, Capacity
<1>7. CASE GiveUp
  BY <1>7 DEF GiveUp
<1>8. CASE Rollback
  BY <1>8 DEF Rollback, RollbackValue, Return, Capacity
<1>9. CASE FetchNode
  BY <1>9 DEF FetchNode, Return, Capacity
<1>10. CASE TerminateInstance
  BY <1>10 DEF TerminateInstance, MayTerminate, Return, Capacity
<1>11. ASSUME NEW i \in Instance, Launch(i) PROVE Inv'
  BY <1>11 DEF Launch
<1>12. ASSUME NEW i \in Instance, ScaleIn(i) PROVE Inv'
  BY <1>12 DEF ScaleIn
<1>13. ASSUME NEW i \in Instance, Join(i) PROVE Inv'
  BY <1>13 DEF Join
<1>14. ASSUME NEW i \in Instance, BecomeReady(i) PROVE Inv'
  BY <1>14 DEF BecomeReady
<1>15. ASSUME NEW i \in Instance, Vanish(i) PROVE Inv'
  BY <1>15 DEF Vanish
<1>16. ASSUME NEW i \in Instance, Interrupt(i) PROVE Inv'
  BY <1>16 DEF Interrupt
<1>17. ASSUME NEW c \in Capacity, OtherWrite(c) PROVE Inv'
  BY <1>17 DEF OtherWrite
<1>18. CASE Cancel
  BY <1>18 DEF Cancel
<1>19. CASE Restart
  <2>1. changes' \in 0..MaxChanges
    <3>1. CASE cancelled
      BY <1>19, <3>1 DEF Restart
    <3>2. CASE ~cancelled
      BY <1>19, <3>2 DEF Restart
    <3>. QED  BY <3>1, <3>2
  <2>2. cancelled' \in BOOLEAN
    BY <1>19, Zenon DEF Restart
  <2>3. /\ pc' = "idle" /\ dir' = "spot" /\ read' = 0
        /\ existing' = {} /\ victim' = None /\ before' = {}
        /\ UNCHANGED <<cloudVars, handed, terminated, foreign, calls>>
    BY <1>19, Zenon DEF Restart, Return
  <2>. QED  BY <2>1, <2>2, <2>3 DEF Capacity
<1>20. CASE UNCHANGED vars
  BY <1>20 DEF vars
<1>. QED
  BY <1>1, <1>2, <1>3, <1>4, <1>5, <1>6, <1>7, <1>8, <1>9, <1>10, <1>11, <1>12,
     <1>13, <1>14, <1>15, <1>16, <1>17, <1>18, <1>19, <1>20
     DEF Next, Agent, Service

(* Inv holds in every reachable state, for every value of the constants. *)
THEOREM Invariance == Spec => []Inv
BY InitInv, Step_Inv, PTL DEF Spec

(* Types are kept; an instance the agent terminated never runs again. *)
THEOREM TypeCorrect == Spec => []TypeOK
<1>1. Inv => TypeOK
  BY DEF Inv
<1>. QED  BY Invariance, <1>1, PTL

(* PrepareSwap returns only Ready nodes of the requested type that joined  *)
(* after the scale-up.                                                     *)
THEOREM ReplacementsAreNew == Spec => ReplacementIsNew
<1>. DEFINE New == \A n \in handed' \ handed :
                      n \in ready /\ HomeOf[n] = dir /\ n \notin before
<1>1. ASSUME Inv, Next PROVE New
  <2>1. ASSUME NEW n \in Instance, Poll(n) PROVE New
    BY <1>1, <2>1 DEF Poll, Replacement, Inv, TypeOK, SnapshotInv
  <2>2. CASE \A n \in Instance : ~Poll(n)
    <3>1. handed' = handed
      BY <1>1, <2>2
         DEF Next, Agent, Service, BeginSwap, BeginCleanup, DiscoverTwinASGs, ScaleUp,
             Snapshot, GiveUp, Rollback, FetchNode, TerminateInstance, Launch, ScaleIn,
             Join, BecomeReady, Vanish, Interrupt, OtherWrite, Cancel, Restart, historyVars
    <3>. QED  BY <3>1
  <2>. QED  BY <2>1, <2>2
<1>2. Inv /\ [Next]_vars => [New]_vars
  BY <1>1
<1>. QED  BY Invariance, <1>2, PTL DEF Spec, ReplacementIsNew

-----------------------------------------------------------------------------
(* TwinASG implements SwapContract. *)
LEMMA ContractInit == Init => Contract!Init
<1>. SUFFICES ASSUME Init PROVE Contract!Init
  OBVIOUS
<1>1. \A c \in Capacity : Size(c, InitAlive) \in Nat
  <2>1. \A c : {i \in InitAlive : HomeOf[i] = c} \subseteq Instance
    BY TwinASGAssumption
  <2>2. \A S : S \subseteq Instance => Cardinality(S) \in Nat
    BY TwinASGAssumption, FS_Subset, FS_CardinalityType
  <2>. QED  BY <2>1, <2>2 DEF Size
<1>2. settled \in [Capacity -> Nat]
  BY <1>1 DEF Init, settled, Scaled
<1>. QED  BY <1>2 DEF Init, Contract!Init, Contract!Capacity, Capacity, Swapping, Scaled

LEMMA ContractStep ==
    ASSUME foreign = {}, foreign' = {}, Inv, [Next]_vars
    PROVE  [Contract!Next]_(Contract!vars)
<1>. DEFINE st == IF pc \in Swapping THEN dir ELSE "idle"
<1>. USE DEF cloudVars, callVars, historyVars, boundVars, Step
<1>t. TypeOK /\ LedgerInv /\ SnapshotInv
  BY DEF Inv
<1>stutter. ASSUME settled' = settled, st' = st, UNCHANGED <<handed, terminated>>
            PROVE  UNCHANGED Contract!vars
  BY <1>stutter DEF Contract!vars
<1>fail. ASSUME pc \in Swapping, pc' = "idle", UNCHANGED <<handed, terminated>>,
                desired' \in {settled, [settled EXCEPT ![dir] = @ + 1]}
         PROVE  Contract!Next
  <2>1. settled' = desired' /\ st' = "idle" /\ st = dir
    BY <1>fail DEF settled, Swapping, Scaled
  <2>. QED  BY <1>t, <1>fail, <2>1
            DEF Contract!Next, Contract!Fail, Contract!Grown, Contract!Capacity,
                TypeOK, Capacity
<1>same. ASSUME UNCHANGED <<desired, pc, dir, read, handed, terminated>>
         PROVE  UNCHANGED Contract!vars
  <2>1. settled' = settled /\ st' = st
    BY <1>same DEF settled
  <2>. QED  BY <1>same, <2>1, <1>stutter
<1>home. /\ settled \in [Capacity -> Int]
         /\ pc \in Scaled => desired = [settled EXCEPT ![dir] = @ + 1]
  BY <1>t DEF settled, TypeOK, LedgerInv
<1>1. ASSUME NEW c \in Capacity, BeginSwap(c) PROVE Contract!Next
  <2>1. st = "idle" /\ st' = c /\ settled' = settled
    BY <1>1 DEF BeginSwap, settled, Swapping, Scaled
  <2>. QED  BY <1>1, <2>1
            DEF BeginSwap, Contract!Next, Contract!Begin, Contract!Capacity, Capacity
<1>2. ASSUME NEW n \in Instance, BeginCleanup(n) PROVE UNCHANGED Contract!vars
  <2>1. settled' = settled /\ st' = st
    BY <1>2 DEF BeginCleanup, settled, Swapping, Scaled
  <2>. QED  BY <1>2, <2>1, <1>stutter DEF BeginCleanup
<1>3. CASE DiscoverTwinASGs
  <2>1. CASE pc' = "idle"
    BY <1>3, <2>1, <1>fail DEF DiscoverTwinASGs, Return, settled, Swapping, Scaled
  <2>2. CASE pc' # "idle"
    <3>1. settled' = settled /\ st' = st
      BY <1>3, <2>2 DEF DiscoverTwinASGs, Return, settled, Swapping, Scaled
    <3>. QED  BY <1>3, <3>1, <1>stutter DEF DiscoverTwinASGs
  <2>. QED  BY <2>1, <2>2
<1>4. CASE ScaleUp
  <2>1. pc = "scale" /\ settled = desired /\ desired[dir] = read
    BY <1>t, <1>4 DEF ScaleUp, LedgerInv, settled, Scaled
  <2>2. CASE pc' = "idle"
    <3>1. desired' \in {settled, [settled EXCEPT ![dir] = @ + 1]}
      BY <1>4, <2>1 DEF ScaleUp, Increment
    <3>. QED  BY <1>4, <2>1, <2>2, <3>1, <1>fail DEF ScaleUp, Swapping
  <2>3. CASE pc' # "idle"
    <3>1. /\ pc' = "snapshot" /\ UNCHANGED <<dir, read>>
          /\ desired' = [desired EXCEPT ![dir] = read + 1]
      BY <1>4, <2>3 DEF ScaleUp, Increment, Return
    <3>2. settled' = settled /\ st' = st
      BY <1>t, <2>1, <3>1 DEF settled, Swapping, Scaled, TypeOK
    <3>. QED  BY <1>4, <3>2, <1>stutter DEF ScaleUp
  <2>. QED  BY <2>2, <2>3
<1>5. CASE Snapshot
  <2>1. settled' = settled /\ st' = st
    BY <1>5 DEF Snapshot, settled, Swapping, Scaled
  <2>. QED  BY <1>5, <2>1, <1>stutter DEF Snapshot
<1>6. ASSUME NEW n \in Instance, Poll(n) PROVE Contract!Next
  <2>1. pc = "poll" /\ pc' = "idle" /\ desired' = desired
    BY <1>6 DEF Poll, Return
  <2>2. st = dir /\ st' = "idle" /\ settled' = desired
    BY <2>1 DEF settled, Swapping, Scaled
  <2>3. n \notin handed /\ HomeOf[n] = dir
    BY <1>t, <1>6 DEF Poll, Replacement, TypeOK, SnapshotInv
  <2>4. desired = [settled EXCEPT ![dir] = @ + 1]
    BY <1>home, <2>1 DEF Scaled
  <2>. QED  BY <1>t, <1>6, <2>2, <2>3, <2>4
            DEF Poll, Contract!Next, Contract!Succeed, Contract!Grown,
                Contract!Capacity, TypeOK, Capacity
<1>7. CASE GiveUp
  <2>1. settled' = settled /\ st' = st
    BY <1>7 DEF GiveUp, settled, Swapping, Scaled
  <2>. QED  BY <1>7, <2>1, <1>stutter DEF GiveUp
<1>8. CASE Rollback
  <2>1. pc = "rollback" /\ pc' = "idle"
    BY <1>8 DEF Rollback, Return
  <2>2. desired' \in {settled, [settled EXCEPT ![dir] = @ + 1]}
    BY <1>8, <2>1, <1>home DEF Rollback, RollbackValue, settled, Scaled
  <2>. QED  BY <1>8, <2>1, <2>2, <1>fail DEF Rollback, Swapping, Scaled
<1>9. CASE FetchNode
  <2>1. settled' = settled /\ st' = st
    BY <1>9 DEF FetchNode, Return, settled, Swapping, Scaled
  <2>. QED  BY <1>9, <2>1, <1>stutter DEF FetchNode
<1>10. CASE TerminateInstance
  <2>1. settled = desired /\ settled' = desired' /\ st = "idle" /\ st' = "idle"
    BY <1>10 DEF TerminateInstance, Return, settled, Swapping, Scaled
  <2>2. CASE UNCHANGED <<desired, terminated>>
    BY <1>10, <2>1, <2>2, <1>stutter DEF TerminateInstance
  <2>3. CASE ~UNCHANGED <<desired, terminated>>
    <3>1. /\ victim \in alive /\ terminated' = terminated \cup {victim}
          /\ desired' = [desired EXCEPT ![HomeOf[victim]] = @ - 1]
      BY <1>10, <2>3 DEF TerminateInstance, MayTerminate
    <3>2. victim \in Instance /\ victim \notin terminated
      BY <1>t, <3>1 DEF TypeOK
    <3>3. handed' = handed
      BY <1>10 DEF TerminateInstance
    <3>. QED  BY <2>1, <3>1, <3>2, <3>3 DEF Contract!Next, Contract!Terminate
  <2>. QED  BY <2>2, <2>3
<1>11. CASE Service
  <2>1. \A c \in Capacity : ~OtherWrite(c)
    BY DEF OtherWrite
  <2>. QED  BY <1>11, <2>1, <1>same
            DEF Service, Launch, ScaleIn, Join, BecomeReady, Vanish, Interrupt
<1>12. CASE Cancel
  BY <1>12, <1>same DEF Cancel
<1>13. CASE Restart
  <2>1. pc' = "idle" /\ UNCHANGED <<desired, handed, terminated>>
    BY <1>13 DEF Restart, Return
  <2>2. CASE pc \in Swapping
    <3>1. desired \in {settled, [settled EXCEPT ![dir] = @ + 1]}
      BY <1>home DEF settled
    <3>. QED  BY <2>1, <2>2, <3>1, <1>fail
  <2>3. CASE pc \notin Swapping
    <3>1. settled' = settled /\ st' = st
      BY <2>1, <2>3 DEF settled, Swapping, Scaled
    <3>. QED  BY <2>1, <3>1, <1>stutter
  <2>. QED  BY <2>2, <2>3
<1>14. CASE UNCHANGED vars
  BY <1>14, <1>same DEF vars
<1>. QED
  BY <1>1, <1>2, <1>3, <1>4, <1>5, <1>6, <1>7, <1>8, <1>9, <1>10, <1>11, <1>12,
     <1>13, <1>14 DEF Next, Agent

(* Until somebody else writes one of the desired capacities, the           *)
(* chain of calls PrepareSwap and PostDrainCleanup make is the atomic      *)
(* contract the controller uses them by, crashes and lost answers          *)
(* included.                                                               *)
THEOREM ImplementsContract ==
    Spec => ContractHolds
<1>1. Inv /\ [Next]_vars => [foreign = {} /\ foreign' = {} => Contract!Next]_(Contract!vars)
  BY ContractStep
<1>. QED  BY Invariance, ContractInit, <1>1, PTL DEF Spec, ContractHolds
=============================================================================
