-------------------------------- MODULE Agent --------------------------------
(***************************************************************************)
(* The controller's loops with what each cycle does before inference: a    *)
(* cycle whose metrics or workload collection fails ends at once, any      *)
(* other polls the reliability telemetry and records it (Reconcile of      *)
(* internal/controller/controller.go).                                     *)
(***************************************************************************)
EXTENDS Lifecycle, Telemetry

CONSTANT
    Scenarios          \* bound: who calls Start or Stop, beside how many changes

ASSUME AgentAssumption ==
    Poller = Starter /\ Scenarios \subseteq (SUBSET Goroutine) \X (0..MaxEvents)

vars == <<lifecycleVars, telemetryVars>>

Init ==
    /\ \E s \in Scenarios : callers = s[1] /\ events = MaxEvents - s[2]
    /\ LifecycleInit /\ TelemetryInit

Goto(g, from, to) ==
    /\ pc[g] = from /\ pc' = [pc EXCEPT ![g] = to]
    /\ UNCHANGED <<flagVars, readers, writer, ticked>>

(* No metrics, no nodes, or no workload features: the cycle is skipped. *)
SkipCycle(g) == Goto(g, "cycle", "rest") /\ UNCHANGED telemetryVars
BeginPoll(g) == Goto(g, "cycle", "nodes") /\ UNCHANGED telemetryVars

Lifecycle(g) ==
    /\ \/ Announce(g) \/ RLock(g) \/ RUnlock(g) \/ Leave(g) \/ NextCycle(g)
       \/ g \in Starter /\ Start(g)
       \/ g \in Stopper /\ Stop(g)
    /\ UNCHANGED telemetryVars

Cycle(g) ==
    \/ SkipCycle(g) \/ BeginPoll(g)
    \/ Goto(g, "nodes", "pods") /\ CollectNodes(g)
    \/ Goto(g, "pods", "record") /\ CollectPods(g)
    \/ Goto(g, "record", "rest") /\ RecordTelemetry(g)

Cluster ==
    /\ \/ \E n \in Node : NodeChanges(n)
       \/ \E p \in Pod : PodChanges(p) \/ ContainerRestarts(p)
       \/ TimePasses
    /\ UNCHANGED <<lifecycleVars, collectorVars, snapshot, counters>>

Callers ==
    /\ \/ Cancel
       \/ \E g \in Goroutine : Call(g)
       \/ \E g \in Starter : TickerFires(g)
    /\ UNCHANGED telemetryVars

(* A panic ends the process. *)
Next ==
    ~panicked /\ (\/ \E g \in Goroutine : Lifecycle(g)
                  \/ \E g \in Starter : Cycle(g)
                  \/ Callers \/ Cluster)

(* Goroutines are scheduled, and select chooses among the cases that are   *)
(* ready at random.  That the calls of a cycle return is an assumption:    *)
(* the code sets no deadline on them.                                      *)
Fairness ==
    /\ \A g \in Stopper : WF_vars(~panicked /\ Lifecycle(g))
    /\ \A g \in Starter : /\ WF_vars(~panicked /\ (Lifecycle(g) \/ Cycle(g)))
                          /\ SF_vars(~panicked /\ Leave(g) /\ UNCHANGED telemetryVars)

Spec == Init /\ [][Next]_vars /\ Fairness

(* Types of all variables. *)
TypeOK == LifecycleTypeOK /\ TelemetryTypeOK
=============================================================================
