----------------------------- MODULE AgentProofs -----------------------------
(***************************************************************************)
(* Proofs for any number of goroutines that start and stop the controller  *)
(* and any cluster: types are kept, two cycles overlap only after a Start  *)
(* that followed a Stop, the stop channel is closed once without one, and  *)
(* the reliability counters hold what happened, once.                      *)
(***************************************************************************)
EXTENDS Agent, SumTheorems

-----------------------------------------------------------------------------
(* Until a Start follows a Stop there is at most one loop, none before the *)
(* first Start, and a stopped controller is not running.                   *)
LoopInv ==
    restarted = FALSE =>
        /\ running = FALSE /\ closed = FALSE =>
              \A g \in Starter : pc[g] \notin Looping
        /\ \A g, h \in Starter : pc[g] \in Looping /\ pc[h] \in Looping => g = h
        /\ closed = TRUE => running = FALSE

(* The lock is held by exactly the goroutines inside a cycle. *)
ReaderInv == readers = {g \in Starter : pc[g] \in Cycling}

PanicInv == panicked = TRUE => restarted = TRUE

LifecycleInv == LifecycleTypeOK /\ LoopInv /\ ReaderInv /\ PanicInv
LEMMA InitLifecycle == Init => LifecycleInv
BY LifecycleAssumption
   DEF Init, LifecycleInit, LifecycleInv, LifecycleTypeOK, LoopInv, ReaderInv, PanicInv,
       Goroutine, PC, Looping, Cycling

(* A step of the lifecycle that changes no flag and moves one goroutine.   *)
LEMMA MoveLifecycle ==
    ASSUME LifecycleInv, NEW g \in Goroutine, NEW to \in PC,
           UNCHANGED flagVars,
           writer' \in Goroutine \cup {Nobody}, ticked' \subseteq Starter,
           pc' = [pc EXCEPT ![g] = to],
           to \in Looping => g \in Starter /\ pc[g] \in Looping,
           readers' = {h \in Starter : pc'[h] \in Cycling}
    PROVE  LifecycleInv'
<1>1. LifecycleTypeOK'
  BY Zenon DEF LifecycleInv, LifecycleTypeOK, flagVars, Goroutine, Looping
<1>. QED
  BY <1>1 DEF LifecycleInv, LifecycleTypeOK, LoopInv, ReaderInv, PanicInv, flagVars, Goroutine

LEMMA StepLifecycle ==
    ASSUME LifecycleInv, [Next]_vars
    PROVE  LifecycleInv'
<1>. USE LifecycleAssumption
<1>. USE DEF LifecycleInv
<1>t. /\ pc \in [Goroutine -> PC] /\ ReaderInv /\ ticked \subseteq Starter
      /\ writer \in Goroutine \cup {Nobody} /\ \A g \in Stopper : pc[g] \notin Looping
  BY DEF LifecycleTypeOK
<1>m. ASSUME NEW g \in Goroutine, NEW to \in PC, UNCHANGED flagVars,
             writer' \in Goroutine \cup {Nobody}, ticked' \subseteq Starter,
             pc' = [pc EXCEPT ![g] = to],
             to \in Looping => pc[g] \in Looping,
             readers' = {h \in Starter : pc'[h] \in Cycling}
      PROVE  LifecycleInv'
  <2>1. to \in Looping => g \in Starter
    BY <1>m, <1>t DEF Goroutine
  <2>. QED  BY <1>m, <2>1, MoveLifecycle DEF LifecycleInv
<1>1. ASSUME NEW g \in Starter, NEW from \in Looping, NEW to \in Looping, Goto(g, from, to),
             from \in Cycling, to \in Cycling
      PROVE  LifecycleInv'
  <2>1. g \in Goroutine /\ to \in PC
    BY DEF Goroutine, PC
  <2>2. readers' = {h \in Starter : pc'[h] \in Cycling}
    BY <1>1, <1>t DEF Goto, ReaderInv, Goroutine
  <2>. QED  BY <1>1, <1>t, <1>m, <2>1, <2>2 DEF Goto, flagVars
<1>2. ASSUME NEW g \in Goroutine, Call(g) PROVE LifecycleInv'
  BY <1>2, <1>t, <1>m DEF Call, flagVars, ReaderInv, Goroutine, PC, Looping, Cycling
<1>3. ASSUME NEW g \in Goroutine, Announce(g) PROVE LifecycleInv'
  BY <1>3 DEF Announce, flagVars, LifecycleTypeOK, LoopInv, ReaderInv, PanicInv
<1>4. ASSUME NEW g \in Goroutine, RLock(g) PROVE LifecycleInv'
  <2>1. g \in Starter
    BY <1>4, <1>t DEF RLock, Goroutine, Looping
  <2>2. CASE writer = Nobody
    BY <1>4, <2>1, <2>2, <1>t, <1>m
       DEF RLock, flagVars, ReaderInv, Goroutine, PC, Looping, Cycling
  <2>3. CASE writer # Nobody
    BY <1>4, <2>1, <2>3, <1>t, <1>m
       DEF RLock, flagVars, ReaderInv, Goroutine, PC, Looping, Cycling
  <2>. QED  BY <2>2, <2>3
<1>5. ASSUME NEW g \in Goroutine, RUnlock(g) PROVE LifecycleInv'
  BY <1>5, <1>t, <1>m DEF RUnlock, flagVars, ReaderInv, Goroutine, PC, Looping, Cycling
<1>6. ASSUME NEW g \in Goroutine, Leave(g) PROVE LifecycleInv'
  BY <1>6, <1>t, <1>m DEF Leave, flagVars, ReaderInv, Goroutine, PC, Looping, Cycling
<1>7. ASSUME NEW g \in Goroutine, NextCycle(g) PROVE LifecycleInv'
  BY <1>7, <1>t, <1>m DEF NextCycle, flagVars, ReaderInv, Goroutine, PC, Looping, Cycling
<1>8. ASSUME NEW g \in Starter, TickerFires(g) PROVE LifecycleInv'
  BY <1>8 DEF TickerFires, flagVars, LifecycleTypeOK, LoopInv, ReaderInv, PanicInv
<1>9. CASE Cancel
  BY <1>9 DEF Cancel, LifecycleTypeOK, LoopInv, ReaderInv, PanicInv
<1>u. ASSUME NEW g \in Goroutine, NEW next \in {"returned", "rlock"}, Locked(g),
             UnlockTo(g, next), next = "rlock" => g \in Starter
      PROVE  /\ writer' = Nobody /\ readers' \subseteq Starter
             /\ pc' \in [Goroutine -> PC] /\ pc'[g] = next
             /\ \A h \in Stopper : pc'[h] \notin Looping
             /\ ReaderInv'
             /\ \A h \in Starter : h # g => (pc'[h] \in Looping <=> pc[h] \in Looping)
             /\ pc[g] \notin Looping
  <2>1. pc' = [h \in Goroutine |-> IF h = g THEN next
                                   ELSE IF h \in Queued THEN "cycle" ELSE pc[h]]
    BY <1>u DEF UnlockTo
  <2>2. \A h \in Starter : pc[h] \notin Cycling
    BY <1>u DEF Locked, ReaderInv
  <2>3. \A h \in Queued : h \in Starter /\ pc[h] = "queued"
    BY DEF Queued
  <2>4. readers' = Queued /\ writer' = Nobody /\ pc[g] = "lock"
    BY <1>u DEF UnlockTo, Locked
  <2>5. pc' \in [Goroutine -> PC] /\ pc'[g] = next
    BY <2>1, <1>t DEF PC, Looping, Cycling
  <2>6. \A h \in Stopper : pc'[h] \notin Looping
    BY <2>1, <2>3, <1>t, <1>u DEF Goroutine, Looping, Cycling
  <2>7. ReaderInv'
    BY <2>1, <2>2, <2>3, <2>4, <1>u, <1>t DEF ReaderInv, Goroutine, Cycling, Queued
  <2>8. \A h \in Starter : h # g => (pc'[h] \in Looping <=> pc[h] \in Looping)
    BY <2>1, <2>3 DEF Goroutine, Looping, Cycling
  <2>9. pc[g] \notin Looping
    BY <2>4 DEF Looping, Cycling
  <2>. QED  BY <2>3, <2>4, <2>5, <2>6, <2>7, <2>8, <2>9
<1>10. ASSUME NEW g \in Starter, Start(g) PROVE LifecycleInv'
  <2>g. g \in Goroutine /\ Locked(g)
    BY <1>10 DEF Start, Goroutine
  <2>1. CASE running = TRUE
    <3>1. UnlockTo(g, "returned") /\ UNCHANGED flagVars
      BY <1>10, <2>1, Zenon DEF Start, AlreadyRunning, flagVars
    <3>2. /\ writer' = Nobody /\ readers' \subseteq Starter
          /\ pc' \in [Goroutine -> PC] /\ pc'[g] = "returned"
          /\ \A h \in Stopper : pc'[h] \notin Looping
          /\ ReaderInv'
          /\ \A h \in Starter : h # g => (pc'[h] \in Looping <=> pc[h] \in Looping)
      BY <1>u, <2>g, <3>1
    <3>3. pc'[g] \notin Looping
      BY <3>2 DEF Looping, Cycling
    <3>4. ticked' = ticked
      BY <1>10 DEF Start
    <3>5. LifecycleTypeOK'
      BY <3>1, <3>2, <3>4, Zenon DEF LifecycleTypeOK, flagVars
    <3>6. LoopInv' /\ PanicInv'
      BY <3>1, <3>2, <3>3, <2>1 DEF LoopInv, PanicInv, flagVars
    <3>. QED  BY <3>2, <3>5, <3>6
  <2>2. CASE running = FALSE
    <3>1. /\ UnlockTo(g, "rlock") /\ running' = TRUE /\ restarted' = (restarted \/ closed)
          /\ UNCHANGED <<closed, cancelled, ticked, callers, panicked>>
      BY <1>10, <2>2, Zenon DEF Start, AlreadyRunning
    <3>2. /\ writer' = Nobody /\ readers' \subseteq Starter
          /\ pc' \in [Goroutine -> PC]
          /\ \A h \in Stopper : pc'[h] \notin Looping
          /\ ReaderInv'
          /\ \A h \in Starter : h # g => (pc'[h] \in Looping <=> pc[h] \in Looping)
      BY <1>u, <2>g, <3>1
    <3>5. LifecycleTypeOK'
      BY <3>1, <3>2, Zenon DEF LifecycleTypeOK
    <3>6. restarted' = FALSE => restarted = FALSE /\ closed = FALSE
      BY <3>1, Zenon DEF LifecycleTypeOK
    <3>7. LoopInv'
      BY <3>1, <3>2, <3>6, <2>2 DEF LoopInv, LifecycleTypeOK
    <3>8. PanicInv'
      BY <3>1, Zenon DEF PanicInv, LifecycleTypeOK
    <3>. QED  BY <3>2, <3>5, <3>7, <3>8
  <2>. QED  BY <2>1, <2>2 DEF LifecycleTypeOK
<1>11. ASSUME NEW g \in Stopper, Stop(g) PROVE LifecycleInv'
  <2>1. /\ g \in Goroutine /\ Locked(g) /\ UnlockTo(g, "returned")
        /\ closed' = (closed \/ running) /\ panicked' = (closed /\ running)
        /\ running' = FALSE /\ UNCHANGED <<cancelled, ticked, callers, restarted>>
    BY <1>11 DEF Stop, Goroutine, RunningAfterStop
  <2>2. /\ writer' = Nobody /\ readers' \subseteq Starter
        /\ pc' \in [Goroutine -> PC]
        /\ \A h \in Stopper : pc'[h] \notin Looping
        /\ ReaderInv'
        /\ \A h \in Starter : h # g => (pc'[h] \in Looping <=> pc[h] \in Looping)
    BY <1>u, <2>1
  <2>3. \A h \in Starter : h # g
    OBVIOUS
  <2>4. LifecycleTypeOK'
    BY <2>1, <2>2, Zenon DEF LifecycleTypeOK
  <2>5. closed' = FALSE => closed = FALSE /\ running = FALSE
    BY <2>1, Zenon DEF LifecycleTypeOK
  <2>6. LoopInv'
    BY <2>1, <2>2, <2>3, <2>5 DEF LoopInv
  <2>7. panicked' = TRUE => closed = TRUE /\ running = TRUE
    BY <2>1, Zenon DEF LifecycleTypeOK
  <2>8. PanicInv'
    BY <2>1, <2>7 DEF PanicInv, LoopInv, LifecycleTypeOK
  <2>. QED  BY <2>2, <2>4, <2>6, <2>8
<1>12. CASE UNCHANGED lifecycleVars
  BY <1>12 DEF lifecycleVars, flagVars, LifecycleTypeOK, LoopInv, ReaderInv, PanicInv
<1>13. ASSUME NEW g \in Starter, Cycle(g) PROVE LifecycleInv'
  BY <1>13, <1>1 DEF Cycle, SkipCycle, BeginPoll, Looping, Cycling
<1>14. ASSUME NEW g \in Goroutine, Lifecycle(g) PROVE LifecycleInv'
  BY <1>14, <1>3, <1>4, <1>5, <1>6, <1>7, <1>10, <1>11 DEF Lifecycle
<1>. QED
  BY <1>2, <1>8, <1>9, <1>12, <1>13, <1>14, Zenon DEF Next, Callers, Cluster, vars

-----------------------------------------------------------------------------
LEMMA InitTelemetry == Init => TelemetryTypeOK
BY TelemetryAssumption
   DEF Init, TelemetryInit, TelemetryTypeOK, Phase, Unseen, NoPoller

LEMMA StepTelemetry ==
    ASSUME TelemetryTypeOK, [Next]_vars
    PROVE  TelemetryTypeOK'
<1>. USE TelemetryAssumption, AgentAssumption
<1>. USE DEF TelemetryTypeOK
<1>1. CASE UNCHANGED telemetryVars
  BY <1>1 DEF telemetryVars, clusterVars, collectorVars
<1>2. CASE Cluster
  <2>. USE DEF collectorVars, Happens
  <2>0. UNCHANGED collectorVars
    BY <1>2 DEF Cluster
  <2>1. ASSUME NEW n \in Node, NodeChanges(n) PROVE TelemetryTypeOK'
    BY <2>0, <2>1 DEF NodeChanges
  <2>2. ASSUME NEW p \in Pod, PodChanges(p) PROVE TelemetryTypeOK'
    <3>1. pod' \in [Pod -> [phase : Phase, created : 0..MaxClock, started : 0..MaxClock,
                            count : Nat]]
      BY <2>2 DEF PodChanges, Phase
    <3>. QED  BY <2>0, <2>2, <3>1 DEF PodChanges
  <2>3. ASSUME NEW p \in Pod, ContainerRestarts(p) PROVE TelemetryTypeOK'
    <3>1. pod' \in [Pod -> [phase : Phase, created : 0..MaxClock, started : 0..MaxClock,
                            count : Nat]]
      BY <2>3 DEF ContainerRestarts
    <3>. QED  BY <2>0, <2>3, <3>1 DEF ContainerRestarts
  <2>4. CASE TimePasses
    BY <2>0, <2>4 DEF TimePasses
  <2>. QED  BY <1>2, <2>1, <2>2, <2>3, <2>4 DEF Cluster
<1>3. ASSUME NEW g \in Starter, CollectNodes(g) PROVE TelemetryTypeOK'
  <2>1. CASE NodesUnlisted(g)
    BY <1>3, <2>1 DEF CollectNodes, NodesUnlisted, clusterVars
  <2>2. CASE lastSeenNodes' = Present /\ lastNodeReady' = ReadyAfter
             /\ everListed' = everListed \cup Present
    <3>1. Present \subseteq Node
      BY DEF Present
    <3>2. DOMAIN ReadyAfter = Present
      BY DEF ReadyAfter
    <3>3. \A n \in Present : ReadyAfter[n] \in BOOLEAN
      BY DEF ReadyAfter
    <3>. QED  BY <1>3, <2>2, <3>1, <3>2, <3>3 DEF CollectNodes, clusterVars
  <2>. QED  BY <1>3, <2>1, <2>2 DEF CollectNodes
<1>4. ASSUME NEW g \in Starter, CollectPods(g) PROVE TelemetryTypeOK'
  <2>1. \A p \in Pod : StatusAfter(p) \in [phase : Phase \cup {Unseen}, since : 0..MaxClock]
    BY DEF StatusAfter, PendingSince, PendingStartTime, Phase
  <2>2. \A S : [p \in Pod |-> IF p \in S THEN pod[p].count ELSE -1] \in [Pod -> Nat \cup {-1}]
    OBVIOUS
  <2>3. lastPod' \in [Pod -> [phase : Phase \cup {Unseen}, since : 0..MaxClock]]
    BY <1>4, <2>1 DEF CollectPods
  <2>4. lastRestarts' \in [Pod -> Nat \cup {-1}]
    <3>1. CASE lastRestarts' = lastRestarts
      BY <3>1
    <3>2. CASE \E S \in StatusSets :
                  lastRestarts' = [p \in Pod |-> IF p \in S THEN pod[p].count ELSE -1]
      <4>1. PICK S \in StatusSets :
               lastRestarts' = [p \in Pod |-> IF p \in S THEN pod[p].count ELSE -1]
        BY <3>2
      <4>. QED BY <2>2, <4>1
    <3>. QED BY <1>4, <3>1, <3>2, Zenon DEF CollectPods
  <2>5. /\ UNCHANGED <<clusterVars, lastNodeReady, lastSeenNodes, everListed>>
        /\ holder' = NoPoller /\ now' = 0
    BY <1>4 DEF CollectPods
  <2>. QED  BY <2>3, <2>4, <2>5 DEF clusterVars
<1>5. ASSUME NEW g \in Starter, RecordTelemetry(g) PROVE TelemetryTypeOK'
  BY <1>5 DEF RecordTelemetry, clusterVars, collectorVars
<1>. QED
  BY <1>1, <1>2, <1>3, <1>4, <1>5, Zenon
     DEF Next, Lifecycle, Callers, Cycle, SkipCycle, BeginPoll, vars

-----------------------------------------------------------------------------
(* The reliability telemetry.  Its counters and the snapshots on their way *)
(* to them are natural numbers and sequences of them.                      *)
Snapshot == [terminations : Nat, notReady : Nat, restarts : Nat, pending : [Pod -> Seq(Nat)]]
SnapshotInv == snapshot \in [Poller -> Snapshot] /\ counters \in Snapshot

(* Every node that was listed is there or gone; the lost ones are counted. *)
LossInv ==
    /\ lastSeenNodes \subseteq everListed
    /\ \A n \in everListed : nodeState[n] # "absent"
    /\ TerminationsExact

(* What is counted and what the next list will find did happen. *)
FlapInv == NotReady + Cardinality(BecameNotReady) <= drops
Deltas == [p \in Pod |-> RestartDelta(p)]
RestartInv == Restarts + SumFunctionOnSet(Deltas, Pod) <= restarts

(* A pod that is or was last seen pending has no sample yet, and was seen  *)
(* no later than it was created.                                           *)
LongEnough(s, p) ==
    \A i \in 1..Len(s.pending[p]) : s.pending[p][i] >= pod[p].started - pod[p].created
PendingInv ==
    \A p \in Pod :
        /\ pod[p].phase \in {"absent", "Pending"} => Samples(p) = 0
        /\ lastPod[p].phase = "Pending" =>
              /\ Samples(p) = 0 /\ pod[p].phase # "absent"
              /\ lastPod[p].since <= pod[p].created
        /\ pod[p].phase = "Running" => pod[p].created <= pod[p].started
        /\ Samples(p) <= 1
        /\ pod[p].phase = "Running" =>
              LongEnough(counters, p) /\ \A g \in Poller : LongEnough(snapshot[g], p)

CountInv == SnapshotInv /\ LossInv /\ FlapInv /\ RestartInv /\ PendingInv
Inv == LifecycleInv /\ TelemetryTypeOK /\ CountInv

LEMMA PollersFinite == IsFiniteSet(Poller) /\ IsFiniteSet(Node) /\ IsFiniteSet(Pod)
BY TelemetryAssumption

LEMMA CountsAreNat ==
    ASSUME SnapshotInv
    PROVE  /\ Terminations \in Nat /\ NotReady \in Nat /\ Restarts \in Nat
           /\ \A p \in Pod : Samples(p) \in Nat
<1>1. \A f \in [Poller -> Nat] : OnTheWay(f) \in Nat
  BY PollersFinite, SumType DEF OnTheWay
<1>2. /\ [g \in Poller |-> snapshot[g].terminations] \in [Poller -> Nat]
      /\ [g \in Poller |-> snapshot[g].notReady] \in [Poller -> Nat]
      /\ [g \in Poller |-> snapshot[g].restarts] \in [Poller -> Nat]
      /\ counters.terminations \in Nat /\ counters.notReady \in Nat /\ counters.restarts \in Nat
  BY DEF SnapshotInv, Snapshot
<1>3. ASSUME NEW p \in Pod
      PROVE  /\ [g \in Poller |-> Len(snapshot[g].pending[p])] \in [Poller -> Nat]
             /\ Len(counters.pending[p]) \in Nat
  BY DEF SnapshotInv, Snapshot
<1>4. \A p \in Pod : Samples(p) \in Nat
  BY <1>1, <1>3 DEF Samples
<1>. QED BY <1>1, <1>2, <1>4 DEF Terminations, NotReady, Restarts

(* A pod without samples has none anywhere. *)
LEMMA NoSamples ==
    ASSUME SnapshotInv, NEW p \in Pod, Samples(p) = 0
    PROVE  Len(counters.pending[p]) = 0 /\ \A g \in Poller : Len(snapshot[g].pending[p]) = 0
<1>. DEFINE f == [g \in Poller |-> Len(snapshot[g].pending[p])]
<1>1. f \in [Poller -> Nat] /\ Len(counters.pending[p]) \in Nat
  BY DEF SnapshotInv, Snapshot
<1>2. OnTheWay(f) \in Nat /\ Len(counters.pending[p]) + OnTheWay(f) = 0
  BY <1>1, PollersFinite, SumType DEF OnTheWay, Samples
<1>3. \A g \in Poller : f[g] <= OnTheWay(f)
  <2>. HIDE DEF f
  <2>. QED BY <1>1, PollersFinite, SumAtLeast DEF OnTheWay
<1>4. \A g \in Poller : f[g] = 0
  <2>. HIDE DEF f
  <2>. QED BY <1>1, <1>2, <1>3
<1>. QED BY <1>1, <1>2, <1>4

LEMMA InitCounts == Init => CountInv
<1>. SUFFICES ASSUME Init PROVE CountInv
  OBVIOUS
<1>1. /\ snapshot = [g \in Poller |-> Empty] /\ counters = Empty /\ lastSeenNodes = {}
      /\ everListed = {} /\ drops = 0 /\ restarts = 0
      /\ lastNodeReady = [n \in {} |-> FALSE] /\ lastRestarts = [p \in Pod |-> -1]
      /\ lastPod = [p \in Pod |-> [phase |-> Unseen, since |-> 0]]
      /\ pod = [p \in Pod |-> [phase |-> "absent", created |-> 0, started |-> 0, count |-> 0]]
  BY DEF Init, TelemetryInit
<1>2. Empty \in Snapshot
  BY DEF Empty, Snapshot
<1>3. SnapshotInv
  BY <1>1, <1>2 DEF SnapshotInv
<1>4. /\ Empty.terminations = 0 /\ Empty.notReady = 0 /\ Empty.restarts = 0
      /\ \A p \in Pod : Len(Empty.pending[p]) = 0
  BY DEF Empty
<1>5. \A f \in [Poller -> {0}] : OnTheWay(f) = 0
  BY PollersFinite, SumZero DEF OnTheWay
<1>6. Terminations = 0 /\ NotReady = 0 /\ Restarts = 0
  BY <1>1, <1>4, <1>5 DEF Terminations, NotReady, Restarts
<1>7. \A p \in Pod : Samples(p) = 0
  BY <1>1, <1>4, <1>5 DEF Samples
<1>8. BecameNotReady = {} /\ everListed \ lastSeenNodes = {} /\ Cardinality({}) = 0
  BY <1>1, FS_EmptySet DEF BecameNotReady
<1>9. SumFunctionOnSet(Deltas, Pod) = 0
  <2>1. \A p \in Pod : Deltas[p] = 0
    BY <1>1 DEF Deltas, RestartDelta
  <2>. QED BY <2>1, PollersFinite, SumZero
<1>10. PendingInv
  BY <1>1, <1>7 DEF PendingInv, Unseen
<1>. QED BY <1>1, <1>3, <1>6, <1>8, <1>9, <1>10
        DEF CountInv, LossInv, TerminationsExact, FlapInv, RestartInv

LEMMA CountsKept ==
    ASSUME UNCHANGED <<snapshot, counters>>
    PROVE  /\ Terminations' = Terminations /\ NotReady' = NotReady /\ Restarts' = Restarts
           /\ \A p \in Pod : Samples(p)' = Samples(p)
BY DEF Terminations, NotReady, Restarts, Samples, OnTheWay

LEMMA DeltasAreNat ==
    ASSUME TelemetryTypeOK
    PROVE  Deltas \in [Pod -> Nat] /\ SumFunctionOnSet(Deltas, Pod) \in Nat
<1>1. Deltas \in [Pod -> Nat]
  BY DEF Deltas, RestartDelta, TelemetryTypeOK
<1>. QED BY <1>1, PollersFinite, SumType

LEMMA BecameFinite ==
    IsFiniteSet(BecameNotReady) /\ Cardinality(BecameNotReady) \in Nat
<1>1. BecameNotReady \in SUBSET Node
  BY DEF BecameNotReady, Present
<1>. QED BY <1>1, PollersFinite, FS_Subset, FS_CardinalityType

LEMMA StepNodeChanges ==
    ASSUME TelemetryTypeOK, CountInv, NEW n \in Node, NodeChanges(n),
           UNCHANGED <<collectorVars, snapshot, counters>>
    PROVE  CountInv'
<1>. USE DEF CountInv
<1>1. PICK s \in {"ready", "notready", "gone"} \ {nodeState[n]} :
          /\ nodeState[n] = "absent" => s # "gone"
          /\ nodeState[n] # "gone"
          /\ nodeState' = [nodeState EXCEPT ![n] = s]
          /\ drops' = IF nodeState[n] = "ready" /\ s = "notready" THEN drops + 1 ELSE drops
  BY DEF NodeChanges
<1>2. UNCHANGED <<pod, restarts, lastNodeReady, lastSeenNodes, lastRestarts, lastPod, everListed>>
  BY DEF NodeChanges, collectorVars
<1>3. SnapshotInv' /\ PendingInv'
  BY <1>2, CountsKept DEF SnapshotInv, PendingInv, LongEnough
<1>4. RestartInv'
  BY <1>2, CountsKept DEF RestartInv, Deltas, RestartDelta
<1>5. LossInv'
  <2>1. \A m \in everListed : nodeState'[m] # "absent"
    BY <1>1 DEF LossInv, TelemetryTypeOK
  <2>2. \A m \in everListed \ lastSeenNodes : nodeState'[m] = "gone"
    BY <1>1 DEF LossInv, TerminationsExact, TelemetryTypeOK
  <2>. QED BY <1>2, <2>1, <2>2, CountsKept DEF LossInv, TerminationsExact
<1>6. FlapInv'
  <2>. DEFINE B == BecameNotReady  C == BecameNotReady'
  <2>0. /\ IsFiniteSet(B) /\ Cardinality(B) \in Nat /\ Cardinality(C) \in Nat
        /\ NotReady \in Nat /\ drops \in Nat
    <3>1. C \in SUBSET Node
      BY DEF BecameNotReady, Present
    <3>. QED BY <3>1, BecameFinite, PollersFinite, FS_Subset, FS_CardinalityType, CountsAreNat
            DEF TelemetryTypeOK
  <2>1. CASE nodeState[n] = "ready" /\ s = "notready"
    <3>1. C \subseteq B \cup {n}
      BY <1>1, <1>2 DEF BecameNotReady, Present, TelemetryTypeOK
    <3>2. IsFiniteSet(B \cup {n}) /\ Cardinality(B \cup {n}) <= Cardinality(B) + 1
      <4>. HIDE DEF B
      <4>1. /\ IsFiniteSet(B \cup {n})
            /\ Cardinality(B \cup {n}) = IF n \in B THEN Cardinality(B) ELSE Cardinality(B) + 1
        BY <2>0, FS_AddElement, Zenon
      <4>. QED BY <2>0, <4>1
    <3>3. Cardinality(C) <= Cardinality(B \cup {n}) /\ Cardinality(B \cup {n}) \in Nat
      BY <3>1, <3>2, FS_Subset, FS_CardinalityType
    <3>4. Cardinality(C) <= Cardinality(B) + 1
      <4>. HIDE DEF B, C
      <4>. QED BY <2>0, <3>2, <3>3
    <3>5. NotReady' = NotReady /\ NotReady + Cardinality(B) <= drops /\ drops' = drops + 1
      BY <1>1, <2>1, CountsKept DEF FlapInv
    <3>6. NotReady' + Cardinality(C) <= drops'
      <4>. HIDE DEF B, C
      <4>. QED BY <2>0, <3>4, <3>5
    <3>. QED BY <3>6 DEF FlapInv
  <2>2. CASE ~(nodeState[n] = "ready" /\ s = "notready")
    <3>0. \A m \in lastSeenNodes : nodeState[m] # "absent"
      BY DEF LossInv
    <3>1. C \subseteq B
      BY <1>1, <1>2, <2>2, <3>0 DEF BecameNotReady, Present, TelemetryTypeOK
    <3>2. Cardinality(C) <= Cardinality(B)
      BY <2>0, <3>1, FS_Subset
    <3>. QED BY <1>1, <2>0, <2>2, <3>2, CountsKept DEF FlapInv
  <2>. QED BY <2>1, <2>2
<1>. QED BY <1>3, <1>4, <1>5, <1>6

LEMMA StepPodChanges ==
    ASSUME TelemetryTypeOK, CountInv, NEW p \in Pod, PodChanges(p),
           UNCHANGED <<collectorVars, snapshot, counters>>
    PROVE  CountInv'
<1>. USE DEF CountInv
<1>0. UNCHANGED <<nodeState, drops, restarts, lastNodeReady, lastSeenNodes, lastRestarts, lastPod,
                  everListed, snapshot, counters>>
  BY DEF PodChanges, collectorVars
<1>1. /\ \A q \in Pod \ {p} : pod'[q] = pod[q]
      /\ pod'[p].count = pod[p].count \/ pod'[p].count = 0
  BY DEF PodChanges, TelemetryTypeOK
<1>2. SnapshotInv' /\ LossInv' /\ FlapInv'
  BY <1>0, CountsKept DEF SnapshotInv, LossInv, TerminationsExact, FlapInv, BecameNotReady, Present
<1>3. RestartInv'
  <2>1. \A q \in Pod : Deltas'[q] <= Deltas[q] /\ Deltas[q] \in Int /\ Deltas'[q] \in Int
    BY <1>0, <1>1 DEF Deltas, RestartDelta, TelemetryTypeOK
  <2>2. SumFunctionOnSet(Deltas', Pod) <= SumFunctionOnSet(Deltas, Pod)
    BY <2>1, PollersFinite, SumMonotone
  <2>3. /\ SumFunctionOnSet(Deltas', Pod) \in Int /\ SumFunctionOnSet(Deltas, Pod) \in Int
        /\ Restarts \in Int /\ restarts \in Int
    BY <2>1, PollersFinite, SumType, CountsAreNat DEF TelemetryTypeOK
  <2>4. Restarts' = Restarts /\ restarts' = restarts
    BY <1>0, CountsKept
  <2>. QED BY <2>2, <2>3, <2>4 DEF RestartInv
<1>4. PendingInv'
  <2>. SUFFICES ASSUME NEW q \in Pod
       PROVE /\ pod'[q].phase \in {"absent", "Pending"} => Samples(q)' = 0
             /\ lastPod'[q].phase = "Pending" =>
                   /\ Samples(q)' = 0 /\ pod'[q].phase # "absent"
                   /\ lastPod'[q].since <= pod'[q].created
             /\ pod'[q].phase = "Running" => pod'[q].created <= pod'[q].started
             /\ Samples(q)' <= 1
             /\ pod'[q].phase = "Running" =>
                   LongEnough(counters, q)' /\ \A g \in Poller : LongEnough(snapshot[g], q)'
    BY DEF PendingInv
  <2>1. Samples(q)' = Samples(q) /\ UNCHANGED <<lastPod, counters, snapshot>>
    BY <1>0, CountsKept
  <2>2. CASE q # p
    BY <1>1, <2>1, <2>2 DEF PendingInv, LongEnough
  <2>3. CASE q = p /\ pod[p].phase = "absent"
    BY <2>1, <2>3 DEF PodChanges, PendingInv, TelemetryTypeOK, Listed
  <2>4. CASE q = p /\ pod[p].phase = "Pending"
    <3>1. Samples(p) = 0
      BY <2>4 DEF PendingInv
    <3>2. Len(counters.pending[p]) = 0 /\ \A g \in Poller : Len(snapshot[g].pending[p]) = 0
      BY <3>1, NoSamples
    <3>3. /\ pod'[p].created = pod[p].created /\ pod'[p].phase \in {"Running", "Failed", "gone"}
          /\ pod'[p].phase = "Running" => pod'[p].created <= pod'[p].started
      BY <2>4 DEF PodChanges, TelemetryTypeOK, Listed
    <3>4. LongEnough(counters, p)' /\ \A g \in Poller : LongEnough(snapshot[g], p)'
      BY <2>1, <3>2 DEF LongEnough
    <3>. QED BY <2>1, <2>4, <3>1, <3>3, <3>4 DEF PendingInv
  <2>5. CASE q = p /\ pod[p].phase \in {"Running", "Failed", "gone"}
    <3>1. /\ pod'[p].created = pod[p].created /\ pod'[p].started = pod[p].started
          /\ pod'[p].phase \in {"Running", "Failed", "gone"}
          /\ pod'[p].phase = "Running" => pod[p].phase = "Running"
      BY <2>5 DEF PodChanges, TelemetryTypeOK, Listed
    <3>. QED BY <2>1, <2>5, <3>1 DEF PendingInv, LongEnough
  <2>. QED BY <2>2, <2>3, <2>4, <2>5 DEF TelemetryTypeOK, Phase
<1>. QED BY <1>2, <1>3, <1>4

LEMMA StepRestart ==
    ASSUME TelemetryTypeOK, CountInv, NEW p \in Pod, ContainerRestarts(p),
           UNCHANGED <<collectorVars, snapshot, counters>>
    PROVE  CountInv'
<1>. USE DEF CountInv
<1>0. UNCHANGED <<nodeState, drops, lastNodeReady, lastSeenNodes, lastRestarts, lastPod,
                  everListed, snapshot, counters>>
  BY DEF ContainerRestarts, collectorVars
<1>1. /\ \A q \in Pod \ {p} : pod'[q] = pod[q]
      /\ pod'[p].count = pod[p].count + 1 /\ restarts' = restarts + 1
      /\ \A q \in Pod : /\ pod'[q].phase = pod[q].phase /\ pod'[q].created = pod[q].created
                        /\ pod'[q].started = pod[q].started
  BY DEF ContainerRestarts, TelemetryTypeOK
<1>2. SnapshotInv' /\ LossInv' /\ FlapInv'
  BY <1>0, CountsKept DEF SnapshotInv, LossInv, TerminationsExact, FlapInv, BecameNotReady, Present
<1>3. RestartInv'
  <2>1. /\ \A q \in Pod : Deltas[q] \in Int /\ Deltas'[q] \in Int
        /\ \A q \in Pod \ {p} : Deltas[q] = Deltas'[q]
        /\ Deltas'[p] <= Deltas[p] + 1
    BY <1>0, <1>1 DEF Deltas, RestartDelta, TelemetryTypeOK
  <2>2. SumFunctionOnSet(Deltas', Pod) = SumFunctionOnSet(Deltas, Pod) + (Deltas'[p] - Deltas[p])
    BY <2>1, PollersFinite, SumUpdate
  <2>3. /\ SumFunctionOnSet(Deltas, Pod) \in Int
        /\ Restarts \in Int /\ restarts \in Int
    BY <2>1, PollersFinite, SumType, CountsAreNat DEF TelemetryTypeOK
  <2>4. Restarts' = Restarts /\ restarts' = restarts + 1
    BY <1>0, <1>1, CountsKept
  <2>. QED BY <2>1, <2>2, <2>3, <2>4 DEF RestartInv
<1>4. PendingInv'
  BY <1>0, <1>1, CountsKept DEF PendingInv, LongEnough
<1>. QED BY <1>2, <1>3, <1>4

LEMMA StepTime ==
    ASSUME CountInv, UNCHANGED <<nodeState, pod, drops, restarts, lastNodeReady, lastSeenNodes,
                                 lastRestarts, lastPod, everListed, snapshot, counters>>
    PROVE  CountInv'
BY CountsKept DEF CountInv, SnapshotInv, LossInv, TerminationsExact, FlapInv, BecameNotReady, Present,
                  RestartInv, Deltas, RestartDelta, PendingInv, LongEnough

LEMMA StepCollectNodes ==
    ASSUME TelemetryTypeOK, CountInv, NEW g \in Poller, CollectNodes(g)
    PROVE  CountInv'
<1>. USE DEF CountInv
<1>0. UNCHANGED <<nodeState, pod, drops, restarts, lastRestarts, lastPod, counters>>
  BY DEF CollectNodes, clusterVars
<1>1. CASE NodesUnlisted(g)
  BY <1>0, <1>1, StepTime DEF NodesUnlisted
<1>. DEFINE Lost == lastSeenNodes \ Present  B == BecameNotReady
<1>2. CASE /\ lastSeenNodes' = Present /\ lastNodeReady' = ReadyAfter
           /\ everListed' = everListed \cup Present
           /\ snapshot' = [snapshot EXCEPT ![g] =
                 [terminations |-> snapshot[g].terminations + Cardinality(Lost),
                  notReady |-> snapshot[g].notReady + Cardinality(B),
                  restarts |-> snapshot[g].restarts, pending |-> snapshot[g].pending]]
  <2>1. /\ Cardinality(Lost) \in Nat /\ Cardinality(B) \in Nat /\ IsFiniteSet(Lost)
        /\ IsFiniteSet(everListed \ lastSeenNodes)
    <3>1. Lost \in SUBSET Node /\ everListed \ lastSeenNodes \in SUBSET Node
      BY DEF TelemetryTypeOK
    <3>. QED BY <3>1, BecameFinite, PollersFinite, FS_Subset, FS_CardinalityType
  <2>2. /\ SnapshotInv'
        /\ \A h \in Poller : /\ snapshot'[h].restarts = snapshot[h].restarts
                             /\ snapshot'[h].pending = snapshot[h].pending
        /\ \A h \in Poller \ {g} : snapshot'[h] = snapshot[h]
        /\ snapshot'[g].terminations = snapshot[g].terminations + Cardinality(Lost)
        /\ snapshot'[g].notReady = snapshot[g].notReady + Cardinality(B)
    <3>. HIDE DEF Lost, B
    <3>0. snapshot \in [Poller -> Snapshot] /\ snapshot[g] \in Snapshot
      BY DEF SnapshotInv
    <3>. DEFINE r == [terminations |-> snapshot[g].terminations + Cardinality(Lost),
                      notReady |-> snapshot[g].notReady + Cardinality(B),
                      restarts |-> snapshot[g].restarts, pending |-> snapshot[g].pending]
    <3>1. r \in Snapshot
      BY <2>1, <3>0 DEF Snapshot
    <3>2. snapshot' = [snapshot EXCEPT ![g] = r]
      BY <1>2, Zenon
    <3>3. snapshot' \in [Poller -> Snapshot] /\ snapshot'[g] = r
          /\ \A h \in Poller \ {g} : snapshot'[h] = snapshot[h]
      <4>. HIDE DEF r
      <4>. QED BY <3>0, <3>1, <3>2
    <3>4. counters' \in Snapshot
      BY <1>0 DEF SnapshotInv
    <3>. QED BY <3>0, <3>3, <3>4 DEF SnapshotInv
  <2>. HIDE DEF Lost, B
  <2>3. Restarts' = Restarts /\ \A p \in Pod : Samples(p)' = Samples(p)
    BY <1>0, <2>2 DEF Restarts, Samples, OnTheWay
  <2>4. Terminations' = Terminations + Cardinality(Lost)
    <3>. DEFINE f == [h \in Poller |-> snapshot[h].terminations]  k == f'
    <3>1. /\ f \in [Poller -> Nat] /\ k \in [Poller -> Nat]
          /\ counters.terminations \in Nat /\ counters'.terminations = counters.terminations
          /\ \A x \in Poller \ {g} : k[x] = f[x]
          /\ counters'.terminations + k[g] = counters.terminations + f[g] + Cardinality(Lost)
      BY <1>0, <2>1, <2>2 DEF SnapshotInv, Snapshot
    <3>2. Terminations = counters.terminations + OnTheWay(f)
          /\ Terminations' = counters'.terminations + OnTheWay(k)
      BY DEF Terminations, OnTheWay
    <3>. HIDE DEF f, k
    <3>3. counters'.terminations \in Nat
      BY <3>1
    <3>4. counters'.terminations + OnTheWay(k) = counters.terminations + OnTheWay(f) + Cardinality(Lost)
      <4>1. OnTheWay(k) = OnTheWay(f) + (k[g] - f[g])
        BY <3>1, PollersFinite, SumUpdate DEF OnTheWay
      <4>2. OnTheWay(f) \in Nat /\ f[g] \in Nat /\ k[g] \in Nat
        BY <3>1, PollersFinite, SumType DEF OnTheWay
      <4>. QED BY <2>1, <3>1, <3>3, <4>1, <4>2
    <3>. QED BY <3>2, <3>4
  <2>5. NotReady' = NotReady + Cardinality(B)
    <3>. DEFINE f == [h \in Poller |-> snapshot[h].notReady]  k == f'
    <3>1. /\ f \in [Poller -> Nat] /\ k \in [Poller -> Nat]
          /\ counters.notReady \in Nat /\ counters'.notReady = counters.notReady
          /\ \A x \in Poller \ {g} : k[x] = f[x]
          /\ counters'.notReady + k[g] = counters.notReady + f[g] + Cardinality(B)
      BY <1>0, <2>1, <2>2 DEF SnapshotInv, Snapshot
    <3>2. NotReady = counters.notReady + OnTheWay(f)
          /\ NotReady' = counters'.notReady + OnTheWay(k)
      BY DEF NotReady, OnTheWay
    <3>. HIDE DEF f, k
    <3>3. counters'.notReady \in Nat
      BY <3>1
    <3>4. counters'.notReady + OnTheWay(k) = counters.notReady + OnTheWay(f) + Cardinality(B)
      <4>1. OnTheWay(k) = OnTheWay(f) + (k[g] - f[g])
        BY <3>1, PollersFinite, SumUpdate DEF OnTheWay
      <4>2. OnTheWay(f) \in Nat /\ f[g] \in Nat /\ k[g] \in Nat
        BY <3>1, PollersFinite, SumType DEF OnTheWay
      <4>. QED BY <2>1, <3>1, <3>3, <4>1, <4>2
    <3>. QED BY <3>2, <3>4
  <2>6. LossInv'
    <3>. DEFINE Old == everListed \ lastSeenNodes
    <3>1. (everListed \cup Present) \ Present = Old \cup Lost /\ Old \cap Lost = {}
      <4>1. \A n \in Old : n \notin Present
        BY DEF LossInv, TerminationsExact, Present
      <4>. QED BY <4>1 DEF LossInv, Lost
    <3>2. /\ Cardinality(Old \cup Lost) = Cardinality(Old) + Cardinality(Lost) - Cardinality({})
          /\ Cardinality({}) = 0 /\ Cardinality(Old) \in Nat
      <4>. HIDE DEF Old
      <4>1. IsFiniteSet(Old)
        BY <2>1 DEF Old
      <4>. QED BY <2>1, <3>1, <4>1, FS_Union, FS_EmptySet, FS_CardinalityType
    <3>3. Terminations' = Cardinality(everListed' \ lastSeenNodes')
      <4>1. Terminations = Cardinality(Old)
        BY DEF LossInv, TerminationsExact
      <4>2. everListed' \ lastSeenNodes' = Old \cup Lost
        BY <1>2, <3>1
      <4>3. Cardinality(Old \cup Lost) = Cardinality(Old) + Cardinality(Lost)
        BY <2>1, <3>2
      <4>. QED BY <2>4, <4>1, <4>2, <4>3, Zenon
    <3>4. \A n \in everListed' \ lastSeenNodes' : nodeState'[n] = "gone"
      BY <1>0, <1>2 DEF LossInv, Present, TelemetryTypeOK
    <3>. QED BY <1>0, <1>2, <3>3, <3>4 DEF LossInv, TerminationsExact, Present
  <2>7. FlapInv'
    <3>1. BecameNotReady' = {}
      BY <1>0, <1>2 DEF BecameNotReady, ReadyAfter, Present
    <3>2. NotReady' + 0 <= drops'
      BY <1>0, <2>1, <2>5, CountsAreNat DEF FlapInv, B
    <3>. QED BY <3>1, <3>2, FS_EmptySet DEF FlapInv
  <2>8. RestartInv'
    BY <1>0, <2>3 DEF RestartInv, Deltas, RestartDelta
  <2>9. PendingInv'
    BY <1>0, <2>2, <2>3 DEF PendingInv, LongEnough
  <2>. QED BY <2>2, <2>6, <2>7, <2>8, <2>9
<1>. QED BY <1>1, <1>2 DEF CollectNodes

(* A poll's pods: the restarts since the last list are counted, and a pod  *)
(* that is no longer pending gives its one sample.                         *)
LEMMA StepCollectPods ==
    ASSUME TelemetryTypeOK, CountInv, NEW g \in Poller, CollectPods(g)
    PROVE  CountInv'
<1>. USE DEF CountInv
<1>0. UNCHANGED <<nodeState, pod, drops, restarts, lastNodeReady, lastSeenNodes, everListed,
                  counters>>
  BY DEF CollectPods, clusterVars
<1>1. CASE UNCHANGED <<lastRestarts, lastPod, snapshot>>
  BY <1>0, <1>1, StepTime
<1>. DEFINE after == [p \in Pod |-> IF LeftPending(p)
                                    THEN Append(snapshot[g].pending[p], PendingDuration(p))
                                    ELSE snapshot[g].pending[p]]
<1>2. ASSUME NEW S \in SUBSET Pod,
             lastPod' = [p \in Pod |-> StatusAfter(p)],
             lastRestarts' = [p \in Pod |-> IF p \in S THEN pod[p].count ELSE -1],
             snapshot' = [snapshot EXCEPT ![g] =
                 [terminations |-> snapshot[g].terminations, notReady |-> snapshot[g].notReady,
                  restarts |-> snapshot[g].restarts + SumFunctionOnSet(Deltas, S),
                  pending |-> after]]
      PROVE  CountInv'
  <2>. DEFINE D == SumFunctionOnSet(Deltas, S)
  <2>1. D \in Nat /\ SumFunctionOnSet(Deltas, Pod) \in Nat /\ D <= SumFunctionOnSet(Deltas, Pod)
    <3>1. \A p \in Pod : Deltas[p] \in Nat
      BY DeltasAreNat
    <3>2. IsFiniteSet(S) /\ IsFiniteSet(Pod)
      BY PollersFinite, FS_Subset
    <3>3. D \in Nat /\ SumFunctionOnSet(Deltas, Pod) \in Nat
      BY <3>1, <3>2, SumType
    <3>. QED BY <3>1, <3>2, <3>3, SumSubset
  <2>2. \A p \in Pod : PendingDuration(p) \in Nat
    BY DEF PendingDuration, TelemetryTypeOK
  <2>3. after \in [Pod -> Seq(Nat)]
    BY <2>2 DEF SnapshotInv, Snapshot
  <2>4. /\ SnapshotInv'
        /\ \A h \in Poller : /\ snapshot'[h].terminations = snapshot[h].terminations
                             /\ snapshot'[h].notReady = snapshot[h].notReady
        /\ \A h \in Poller \ {g} : snapshot'[h] = snapshot[h]
        /\ snapshot'[g].restarts = snapshot[g].restarts + D
        /\ snapshot'[g].pending = after
    <3>. DEFINE r == [terminations |-> snapshot[g].terminations, notReady |-> snapshot[g].notReady,
                      restarts |-> snapshot[g].restarts + D, pending |-> after]
    <3>2. snapshot' = [snapshot EXCEPT ![g] = r]
      BY <1>2, Zenon
    <3>. HIDE DEF D, after
    <3>0. snapshot \in [Poller -> Snapshot] /\ snapshot[g] \in Snapshot
      BY DEF SnapshotInv
    <3>1. r \in Snapshot
      BY <2>1, <2>3, <3>0 DEF Snapshot
    <3>3. snapshot' \in [Poller -> Snapshot] /\ snapshot'[g] = r
          /\ \A h \in Poller \ {g} : snapshot'[h] = snapshot[h]
      <4>. HIDE DEF r
      <4>. QED BY <3>0, <3>1, <3>2
    <3>4. counters' \in Snapshot
      BY <1>0 DEF SnapshotInv
    <3>. QED BY <3>0, <3>3, <3>4 DEF SnapshotInv
  <2>5. Terminations' = Terminations /\ NotReady' = NotReady
    BY <1>0, <2>4 DEF Terminations, NotReady, OnTheWay
  <2>6. LossInv' /\ FlapInv'
    BY <1>0, <2>5 DEF LossInv, TerminationsExact, FlapInv, BecameNotReady, Present
  <2>7. RestartInv'
    <3>. DEFINE f == [h \in Poller |-> snapshot[h].restarts]  k == f'
    <3>. HIDE DEF D
    <3>1. /\ f \in [Poller -> Nat] /\ k \in [Poller -> Nat] /\ counters.restarts \in Nat
          /\ counters'.restarts = counters.restarts
          /\ \A x \in Poller \ {g} : k[x] = f[x]
          /\ k[g] = f[g] + D
      BY <1>0, <2>1, <2>4 DEF SnapshotInv, Snapshot
    <3>2. Restarts = counters.restarts + OnTheWay(f) /\ Restarts' = counters'.restarts + OnTheWay(k)
      BY DEF Restarts, OnTheWay
    <3>. HIDE DEF f, k
    <3>3. OnTheWay(k) = OnTheWay(f) + (k[g] - f[g])
      BY <3>1, PollersFinite, SumUpdate DEF OnTheWay
    <3>4. OnTheWay(f) \in Nat /\ f[g] \in Nat
      BY <3>1, PollersFinite, SumType DEF OnTheWay
    <3>5. \A p \in Pod : Deltas'[p] = 0
      BY <1>0, <1>2 DEF Deltas, RestartDelta, TelemetryTypeOK
    <3>6. SumFunctionOnSet(Deltas', Pod) = 0
      BY <3>5, PollersFinite, SumZero
    <3>7. Restarts' = Restarts + D
      BY <2>1, <3>1, <3>2, <3>3, <3>4
    <3>. QED BY <1>0, <2>1, <3>6, <3>7, CountsAreNat DEF RestartInv, TelemetryTypeOK
  <2>8. PendingInv'
    <3>. SUFFICES ASSUME NEW p \in Pod
         PROVE /\ pod'[p].phase \in {"absent", "Pending"} => Samples(p)' = 0
               /\ lastPod'[p].phase = "Pending" =>
                     /\ Samples(p)' = 0 /\ pod'[p].phase # "absent"
                     /\ lastPod'[p].since <= pod'[p].created
               /\ pod'[p].phase = "Running" => pod'[p].created <= pod'[p].started
               /\ Samples(p)' <= 1
               /\ pod'[p].phase = "Running" =>
                     LongEnough(counters, p)' /\ \A h \in Poller : LongEnough(snapshot[h], p)'
      BY DEF PendingInv
    <3>0. /\ \A h \in Poller \ {g} : snapshot'[h].pending[p] = snapshot[h].pending[p]
          /\ snapshot'[g].pending[p] = after[p] /\ counters' = counters /\ pod' = pod
          /\ snapshot[g].pending[p] \in Seq(Nat)
      BY <1>0, <2>4 DEF SnapshotInv, Snapshot
    <3>1. lastPod'[p] = StatusAfter(p)
      BY <1>2
    <3>2. CASE ~LeftPending(p)
      <4>1. after[p] = snapshot[g].pending[p]
        BY <3>2
      <4>2. \A h \in Poller : snapshot'[h].pending[p] = snapshot[h].pending[p]
        BY <3>0, <4>1
      <4>3. Samples(p)' = Samples(p)
        BY <3>0, <4>2 DEF Samples, OnTheWay
      <4>4. lastPod'[p].phase = "Pending" =>
               /\ pod[p].phase = "Pending"
               /\ lastPod'[p].since <= pod[p].created
        BY <3>1 DEF StatusAfter, PendingSince, PendingStartTime, PendingInv, Listed, TelemetryTypeOK,
                    Unseen
      <4>. QED BY <3>0, <4>2, <4>3, <4>4 DEF PendingInv, LongEnough
    <3>3. CASE LeftPending(p)
      <4>1. /\ Samples(p) = 0 /\ lastPod[p].since <= pod[p].created
            /\ pod[p].phase \in {"Running", "Failed"}
        BY <3>3 DEF LeftPending, Listed, PendingInv
      <4>2. Len(counters.pending[p]) = 0 /\ \A h \in Poller : Len(snapshot[h].pending[p]) = 0
        BY <4>1, NoSamples
      <4>3. after[p] = Append(snapshot[g].pending[p], PendingDuration(p))
        BY <3>3
      <4>4. /\ Len(snapshot'[g].pending[p]) = 1
            /\ snapshot'[g].pending[p][1] = PendingDuration(p)
        BY <3>0, <4>2, <4>3
      <4>5. Samples(p)' = 1
        <5>. DEFINE f == [h \in Poller |-> Len(snapshot[h].pending[p])]  k == f'
        <5>1. /\ f \in [Poller -> Nat] /\ k \in [Poller -> Nat] /\ f[g] = 0 /\ k[g] = 1
              /\ \A x \in Poller \ {g} : k[x] = f[x]
              /\ \A x \in Poller : f[x] = 0
          <6>1. \A x \in Poller : f[x] = 0
            BY <4>2
          <6>2. k = [h \in Poller |-> Len(snapshot'[h].pending[p])]
            OBVIOUS
          <6>3. k[g] = 1 /\ \A x \in Poller \ {g} : k[x] = 0
            BY <3>0, <4>2, <4>4, <6>2
          <6>. QED BY <6>1, <6>2, <6>3
        <5>2. Samples(p)' = Len(counters'.pending[p]) + OnTheWay(k)
          BY DEF Samples, OnTheWay
        <5>. HIDE DEF f, k
        <5>3. OnTheWay(k) = OnTheWay(f) + (k[g] - f[g])
          BY <5>1, PollersFinite, SumUpdate DEF OnTheWay
        <5>4. OnTheWay(f) = 0
          BY <5>1, PollersFinite, SumZero DEF OnTheWay
        <5>. QED BY <3>0, <4>2, <5>1, <5>2, <5>3, <5>4
      <4>6. lastPod'[p].phase # "Pending"
        BY <3>1, <4>1 DEF StatusAfter, Listed
      <4>7. pod[p].phase = "Running" => PendingDuration(p) >= pod[p].started - pod[p].created
        BY <4>1 DEF PendingDuration, TelemetryTypeOK
      <4>8. pod[p].phase = "Running" =>
               LongEnough(counters, p)' /\ \A h \in Poller : LongEnough(snapshot[h], p)'
        <5>1. LongEnough(counters, p)'
          BY <3>0, <4>2 DEF LongEnough
        <5>2. \A h \in Poller \ {g} : LongEnough(snapshot[h], p)'
          BY <3>0, <4>2 DEF LongEnough
        <5>3. ASSUME pod[p].phase = "Running" PROVE LongEnough(snapshot[g], p)'
          BY <3>0, <4>4, <4>7, <5>3 DEF LongEnough
        <5>. QED BY <5>1, <5>2, <5>3
      <4>. QED BY <3>0, <4>1, <4>5, <4>6, <4>8 DEF PendingInv
    <3>. QED BY <3>2, <3>3
  <2>. QED BY <2>4, <2>6, <2>7, <2>8
<1>. QED BY <1>1, <1>2 DEF CollectPods, Deltas, StatusSets

(* An element of a concatenation is one of either part. *)
LEMMA ConcatAt ==
    ASSUME NEW s \in Seq(Nat), NEW t \in Seq(Nat), NEW i \in 1..Len(s \o t)
    PROVE  \/ i \in 1..Len(s) /\ (s \o t)[i] = s[i]
           \/ \E j \in 1..Len(t) : (s \o t)[i] = t[j]
<1>1. CASE i <= Len(s)
  BY <1>1
<1>2. CASE i > Len(s)
  <2>1. i - Len(s) \in 1..Len(t) /\ (s \o t)[i] = t[i - Len(s)]
    BY <1>2
  <2>. QED BY <2>1
<1>. QED BY <1>1, <1>2

(* Recording moves a snapshot into the counters: no total changes. *)
LEMMA StepRecord ==
    ASSUME TelemetryTypeOK, CountInv, NEW g \in Poller, RecordTelemetry(g)
    PROVE  CountInv'
<1>. USE DEF CountInv
<1>0. UNCHANGED <<nodeState, pod, drops, restarts, lastNodeReady, lastSeenNodes, lastRestarts,
                  lastPod, everListed>>
  BY DEF RecordTelemetry, clusterVars, collectorVars
<1>1. /\ counters \in Snapshot /\ snapshot \in [Poller -> Snapshot] /\ Empty \in Snapshot
      /\ snapshot[g] \in Snapshot
  BY DEF SnapshotInv, Snapshot, Empty
<1>2. /\ counters'.terminations = counters.terminations + snapshot[g].terminations
      /\ counters'.notReady = counters.notReady + snapshot[g].notReady
      /\ counters'.restarts = counters.restarts + snapshot[g].restarts
      /\ \A p \in Pod : counters'.pending[p] = counters.pending[p] \o snapshot[g].pending[p]
  BY DEF RecordTelemetry
<1>3. snapshot' \in [Poller -> Snapshot] /\ snapshot'[g] = Empty
      /\ \A h \in Poller \ {g} : snapshot'[h] = snapshot[h]
  BY <1>1 DEF RecordTelemetry
<1>4. SnapshotInv'
  <2>1. [p \in Pod |-> counters.pending[p] \o snapshot[g].pending[p]] \in [Pod -> Seq(Nat)]
    BY <1>1 DEF Snapshot
  <2>2. counters' \in Snapshot
    BY <1>1, <2>1 DEF RecordTelemetry, Snapshot
  <2>. QED BY <1>3, <2>2 DEF SnapshotInv
<1>5. /\ Empty.terminations = 0 /\ Empty.notReady = 0 /\ Empty.restarts = 0
      /\ \A p \in Pod : Empty.pending[p] = <<>>
  BY DEF Empty
<1>6. ASSUME NEW f \in [Poller -> Nat], NEW k \in [Poller -> Nat], NEW a \in Nat,
             k[g] = 0, \A x \in Poller \ {g} : k[x] = f[x]
      PROVE  (a + f[g]) + OnTheWay(k) = a + OnTheWay(f)
  <2>1. OnTheWay(k) = OnTheWay(f) + (k[g] - f[g])
    BY <1>6, PollersFinite, SumUpdate DEF OnTheWay
  <2>2. OnTheWay(f) \in Nat /\ f[g] \in Nat
    BY PollersFinite, SumType DEF OnTheWay
  <2>. QED BY <1>6, <2>1, <2>2
<1>7. Terminations' = Terminations
  <2>. DEFINE f == [h \in Poller |-> snapshot[h].terminations]
              k == [h \in Poller |-> snapshot'[h].terminations]
  <2>1. /\ f \in [Poller -> Nat] /\ k \in [Poller -> Nat] /\ k[g] = 0 /\ counters.terminations \in Nat
        /\ f[g] = snapshot[g].terminations
        /\ \A x \in Poller \ {g} : k[x] = f[x]
    BY <1>1, <1>3, <1>5 DEF Snapshot
  <2>2. /\ Terminations = counters.terminations + OnTheWay(f)
        /\ Terminations' = (counters.terminations + f[g]) + OnTheWay(k)
    BY <1>2, <2>1 DEF Terminations, OnTheWay
  <2>. HIDE DEF f, k
  <2>. QED BY <1>6, <2>1, <2>2
<1>8. NotReady' = NotReady
  <2>. DEFINE f == [h \in Poller |-> snapshot[h].notReady]
              k == [h \in Poller |-> snapshot'[h].notReady]
  <2>1. /\ f \in [Poller -> Nat] /\ k \in [Poller -> Nat] /\ k[g] = 0 /\ counters.notReady \in Nat
        /\ f[g] = snapshot[g].notReady
        /\ \A x \in Poller \ {g} : k[x] = f[x]
    BY <1>1, <1>3, <1>5 DEF Snapshot
  <2>2. /\ NotReady = counters.notReady + OnTheWay(f)
        /\ NotReady' = (counters.notReady + f[g]) + OnTheWay(k)
    BY <1>2, <2>1 DEF NotReady, OnTheWay
  <2>. HIDE DEF f, k
  <2>. QED BY <1>6, <2>1, <2>2
<1>9. Restarts' = Restarts
  <2>. DEFINE f == [h \in Poller |-> snapshot[h].restarts]
              k == [h \in Poller |-> snapshot'[h].restarts]
  <2>1. /\ f \in [Poller -> Nat] /\ k \in [Poller -> Nat] /\ k[g] = 0 /\ counters.restarts \in Nat
        /\ f[g] = snapshot[g].restarts
        /\ \A x \in Poller \ {g} : k[x] = f[x]
    BY <1>1, <1>3, <1>5 DEF Snapshot
  <2>2. /\ Restarts = counters.restarts + OnTheWay(f)
        /\ Restarts' = (counters.restarts + f[g]) + OnTheWay(k)
    BY <1>2, <2>1 DEF Restarts, OnTheWay
  <2>. HIDE DEF f, k
  <2>. QED BY <1>6, <2>1, <2>2
<1>10. ASSUME NEW p \in Pod PROVE Samples(p)' = Samples(p)
  <2>. DEFINE f == [h \in Poller |-> Len(snapshot[h].pending[p])]
              k == [h \in Poller |-> Len(snapshot'[h].pending[p])]
  <2>1. /\ f \in [Poller -> Nat] /\ k \in [Poller -> Nat] /\ k[g] = 0
        /\ f[g] = Len(snapshot[g].pending[p])
        /\ \A x \in Poller \ {g} : k[x] = f[x]
    BY <1>1, <1>3, <1>5 DEF Snapshot
  <2>2. /\ Len(counters.pending[p]) \in Nat
        /\ Len(counters'.pending[p]) = Len(counters.pending[p]) + Len(snapshot[g].pending[p])
    <3>1. counters.pending[p] \in Seq(Nat) /\ snapshot[g].pending[p] \in Seq(Nat)
      BY <1>1 DEF Snapshot
    <3>2. \A s, t \in Seq(Nat) : Len(s \o t) = Len(s) + Len(t) /\ Len(s) \in Nat
      OBVIOUS
    <3>3. counters'.pending[p] = counters.pending[p] \o snapshot[g].pending[p]
      BY <1>2
    <3>. QED BY <3>1, <3>2, <3>3, Zenon
  <2>3. /\ Samples(p) = Len(counters.pending[p]) + OnTheWay(f)
        /\ Samples(p)' = (Len(counters.pending[p]) + f[g]) + OnTheWay(k)
    <3>1. Samples(p)' = Len(counters'.pending[p]) + OnTheWay(k)
      BY DEF Samples, OnTheWay
    <3>. QED BY <2>1, <2>2, <3>1 DEF Samples
  <2>. HIDE DEF f, k
  <2>. QED BY <1>6, <2>1, <2>2, <2>3
<1>11. LossInv' /\ FlapInv' /\ RestartInv'
  BY <1>0, <1>7, <1>8, <1>9
     DEF LossInv, TerminationsExact, FlapInv, BecameNotReady, Present, RestartInv, Deltas, RestartDelta
<1>12. PendingInv'
  <2>1. ASSUME NEW p \in Pod, pod[p].phase = "Running"
        PROVE  LongEnough(counters, p)' /\ \A h \in Poller : LongEnough(snapshot[h], p)'
    <3>1. LongEnough(counters, p) /\ \A h \in Poller : LongEnough(snapshot[h], p)
      BY <2>1 DEF PendingInv
    <3>2. counters.pending[p] \in Seq(Nat) /\ snapshot[g].pending[p] \in Seq(Nat)
      BY <1>1 DEF Snapshot
    <3>3. LongEnough(counters, p)'
      <4>. SUFFICES ASSUME NEW i \in 1..Len(counters'.pending[p])
           PROVE counters'.pending[p][i] >= pod[p].started - pod[p].created
        BY <1>0 DEF LongEnough
      <4>1. \/ /\ i \in 1..Len(counters.pending[p])
               /\ counters'.pending[p][i] = counters.pending[p][i]
            \/ \E j \in 1..Len(snapshot[g].pending[p]) :
                  counters'.pending[p][i] = snapshot[g].pending[p][j]
        <5>. DEFINE s == counters.pending[p]  t == snapshot[g].pending[p]
                    u == counters'.pending[p]
        <5>1. u = s \o t /\ s \in Seq(Nat) /\ t \in Seq(Nat) /\ i \in 1..Len(u)
          BY <1>2, <3>2
        <5>. HIDE DEF s, t, u
        <5>2. \/ i \in 1..Len(s) /\ u[i] = s[i]
              \/ \E j \in 1..Len(t) : u[i] = t[j]
          BY <5>1, ConcatAt
        <5>. QED BY <5>2 DEF s, t, u
      <4>. QED BY <3>1, <4>1 DEF LongEnough
    <3>4. \A h \in Poller : LongEnough(snapshot[h], p)'
      BY <1>0, <1>3, <1>5, <3>1 DEF LongEnough
    <3>. QED BY <3>3, <3>4
  <2>. QED BY <1>0, <1>10, <2>1 DEF PendingInv
<1>. QED BY <1>4, <1>11, <1>12

LEMMA StepCounts ==
    ASSUME TelemetryTypeOK, CountInv, [Next]_vars
    PROVE  CountInv'
<1>0. CASE UNCHANGED telemetryVars
  BY <1>0, StepTime DEF telemetryVars, clusterVars, collectorVars
<1>1. CASE Cluster
  <2>1. UNCHANGED <<collectorVars, snapshot, counters>>
    BY <1>1 DEF Cluster
  <2>2. CASE TimePasses
    BY <2>1, <2>2, StepTime DEF TimePasses, collectorVars
  <2>. QED BY <1>1, <2>1, <2>2, StepNodeChanges, StepPodChanges, StepRestart, Zenon DEF Cluster
<1>2. ASSUME NEW g \in Starter, CollectNodes(g) \/ CollectPods(g) \/ RecordTelemetry(g)
      PROVE  CountInv'
  BY <1>2, AgentAssumption, StepCollectNodes, StepCollectPods, StepRecord
<1>. QED
  BY <1>0, <1>1, <1>2, Zenon DEF Next, Lifecycle, Callers, Cycle, SkipCycle, BeginPoll, vars

-----------------------------------------------------------------------------
(* Inv holds in every reachable state, for every set of goroutines. *)
THEOREM Invariance == Spec => []Inv
<1>1. Init => Inv
  BY InitLifecycle, InitTelemetry, InitCounts DEF Inv
<1>2. Inv /\ [Next]_vars => Inv'
  BY StepLifecycle, StepTelemetry, StepCounts DEF Inv
<1>. QED  BY <1>1, <1>2, PTL DEF Spec

(* Every variable of the loops and of the collector keeps its type. *)
THEOREM TypeCorrect == Spec => []TypeOK
<1>1. Inv => TypeOK
  BY DEF Inv, LifecycleInv, TypeOK
<1>. QED  BY Invariance, <1>1, PTL

(* Start's check under the lock keeps cycles apart: two of them overlap    *)
(* only after a Start that followed a Stop.                                *)
THEOREM CyclesApart == Spec => []OneCycleAtATime
<1>1. ASSUME Inv, restarted = FALSE PROVE ~(Cardinality(readers) > 1)
  <2>1. \A g, h \in readers : g = h
    BY <1>1 DEF Inv, LifecycleInv, LoopInv, ReaderInv, Looping
  <2>2. CASE readers = {}
    BY <2>2, FS_EmptySet
  <2>3. CASE readers # {}
    <3>1. PICK g : readers = {g}
      BY <2>1, <2>3
    <3>2. Cardinality({g}) = 1
      BY FS_Singleton
    <3>. QED  BY <3>1, <3>2
  <2>. QED  BY <2>2, <2>3
<1>2. ASSUME Inv PROVE OneCycleAtATime
  <2>1. CASE restarted = FALSE
    BY <1>1, <1>2, <2>1 DEF OneCycleAtATime
  <2>2. CASE restarted = TRUE
    BY <2>2 DEF OneCycleAtATime
  <2>. QED  BY <1>2, <2>1, <2>2 DEF Inv, LifecycleInv, LifecycleTypeOK
<1>3. Inv => OneCycleAtATime
  BY <1>2
<1>. QED  BY Invariance, <1>3, PTL

(* However many goroutines call Stop, the channel is closed a second time  *)
(* only when a Start came between two Stops.                               *)
THEOREM StopClosesOnce == Spec => []ClosedOnce
<1>1. Inv => ClosedOnce
  BY Zenon DEF Inv, LifecycleInv, PanicInv, LifecycleTypeOK, ClosedOnce
<1>. QED  BY Invariance, <1>1, PTL

(* node_termination_total is exact, whichever goroutines poll and whichever *)
(* of their lists fail: the nodes that were listed and are not in the last  *)
(* list are counted once each, and they are gone.                           *)
THEOREM LossesCountedOnce == Spec => []TerminationsExact
<1>1. Inv => TerminationsExact
  BY DEF Inv, CountInv, LossInv
<1>. QED  BY Invariance, <1>1, PTL

(* What the counters and the snapshots hold of outages and restarts did    *)
(* happen: also what the next lists will add is covered by the events.     *)
THEOREM TelemetryInventsNothing == Spec => []NothingInvented
<1>1. ASSUME Inv PROVE NothingInvented
  <2>1. SnapshotInv /\ FlapInv /\ RestartInv /\ TelemetryTypeOK
    BY <1>1 DEF Inv, CountInv
  <2>2. /\ NotReady \in Nat /\ Restarts \in Nat /\ Cardinality(BecameNotReady) \in Nat
        /\ SumFunctionOnSet(Deltas, Pod) \in Nat /\ drops \in Nat /\ restarts \in Nat
    BY <2>1, CountsAreNat, BecameFinite, DeltasAreNat DEF TelemetryTypeOK
  <2>3. \A g \in Poller : snapshot[g].restarts >= 0
    BY <2>1 DEF SnapshotInv, Snapshot
  <2>4. NotReady <= drops
    BY <2>1, <2>2 DEF FlapInv
  <2>5. Restarts <= restarts
    BY <2>1, <2>2 DEF RestartInv
  <2>. QED  BY <2>3, <2>4, <2>5 DEF NothingInvented
<1>2. Inv => NothingInvented
  BY <1>1
<1>. QED  BY Invariance, <1>2, PTL

(* A pod gives one sample of its pending time at most, wherever that is on *)
(* its way, and while it is Running no sample of it is shorter than the    *)
(* time from its creation to its StartTime.                                *)
THEOREM OneSamplePerPod == Spec => []PendingSampledOnce
<1>1. Inv => PendingSampledOnce
  BY DEF Inv, CountInv, PendingInv, LongEnough, PendingSampledOnce
<1>. QED  BY Invariance, <1>1, PTL
=============================================================================
